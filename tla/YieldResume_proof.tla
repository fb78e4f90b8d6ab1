------------------------- MODULE YieldResume_proof -------------------------
(***************************************************************************)
(* Yields and joins while one request is pending at a time (Overlap and    *)
(* Reuse are FALSE), its entry returns at most a promise without           *)
(* dependencies (Chains is FALSE) and its joins are made on receipts       *)
(* (Direct is FALSE): a join runs after the resume it waits for, nothing   *)
(* runs twice, and what is pending between transactions is exactly what    *)
(* the markers say; for any number of transactions, batches and accounts.  *)
(***************************************************************************)
EXTENDS YieldResume, SequenceTheorems, WellFoundedInduction, NaturalsInduction,
        TLAPS

-----------------------------------------------------------------------------
(* Types *)

Ids == Nat \X Nat
Maps(K, V) == UNION {[S -> V] : S \in SUBSET K}
Markers == [yields : Maps(Nat, Ids), owners : Maps(Nat, Nat), joins : Maps(Nat, Ids)]
Histories == [fired : SUBSET Ids, again : SUBSET Ids, opened : Maps(Ids, Ids),
              joins : Maps(Ids, Ids), resumed : SUBSET Ids]
Batches == [kind : {"call", "then", "yield"}, dep : Nat, acct : Accounts]
FrameSet == [k : {"outer", "enter", "run", "end", "joins"}, b : Nat, todo : SUBSET Nat]

TypeInv ==
  /\ dag \in Seq(Batches) /\ executed \subseteq Nat /\ memo \subseteq Nat
  /\ yieldJoins \subseteq Nat /\ yieldOwner \in Maps(Nat, Nat) /\ current \in Nat
  /\ store \in Markers /\ phase \in {"idle", "request", "resolve", "drain"}
  /\ frames \in Seq(FrameSet) /\ tx \in Nat /\ hist \in Histories
  /\ saved \in [store : Markers, hist : Histories]

-----------------------------------------------------------------------------
(* What is true of markers and history at any time, and between            *)
(* transactions                                                            *)

Values(f) == {f[x] : x \in DOMAIN f}

\* The yields opened by what join j waits for.
Before(h, j) == {y \in DOMAIN h.opened : h.opened[y] = h.joins[j]}

\* At most one yield is open; what was fired is a yield that was resumed, or no
\* yield; and joins wait.
Ledger(st, h) ==
  /\ h.again = {}
  /\ DOMAIN h.opened \cap DOMAIN h.joins = {}
  /\ h.resumed \subseteq DOMAIN h.opened
  /\ h.fired \cap DOMAIN h.opened \subseteq h.resumed
  /\ Values(st.yields) = DOMAIN h.opened \ h.resumed
  /\ \A x, y \in DOMAIN st.yields : x = y
  /\ \A j \in DOMAIN h.joins : h.joins[j][1] = j[1] /\ h.joins[j] \notin DOMAIN h.opened
  /\ \A j \in DOMAIN h.joins \cap h.fired : Before(h, j) \subseteq h.resumed

\* The markers of joins are exact.
JoinMarks(st, h) == Values(st.joins) = DOMAIN h.joins \ h.fired

\* A join is pending because of a yield.
Delivered(h) ==
  \A j \in DOMAIN h.joins : Before(h, j) \subseteq h.resumed => j \in h.fired

\* All that is named belongs to transactions up to t.
Dated(h, t) ==
  \A id \in DOMAIN h.opened \cup DOMAIN h.joins \cup h.fired : id[1] <= t

Settled(st, h) == Ledger(st, h) /\ JoinMarks(st, h) /\ Delivered(h) /\ Dated(h, tx)

-----------------------------------------------------------------------------
(* Outside of a request *)

\* A resolver has no DAG: it resumes the one yield that is open, and everything
\* pending follows.
ResolveInv ==
  phase = "resolve" \/ (phase = "drain" /\ dag = << >>) =>
    /\ dag = << >> /\ executed = {}
    /\ \/ frames = << >> /\ Settled(store, hist)
       \/ /\ phase = "resolve" /\ Len(frames) = 1
          /\ frames[1].k = "joins" /\ frames[1].todo = {}
          /\ Ledger(store, hist) /\ JoinMarks(store, hist) /\ Dated(hist, tx)
          /\ DOMAIN store.yields = {}

IdleInv ==
  /\ phase = "idle" => frames = << >> /\ Settled(store, hist)
  /\ phase # "idle" => Settled(saved.store, saved.hist)

-----------------------------------------------------------------------------
(* During a request *)

Requesting == phase = "request" \/ (phase = "drain" /\ dag # << >>)

Fired(i) == <<tx, i>> \in hist.fired
IsJoin(i) == <<tx, i>> \in DOMAIN hist.joins
Yield(i) == dag[i].kind = "yield"
Pending == DOMAIN store.joins
Deferred(i) == is_yield_join(i) /\ deps_own_open_yield(i)
Waited(i) == Before(hist, <<tx, i>>) \subseteq hist.resumed
Joining == \E k \in 1 .. Len(frames) : frames[k].k = "joins"

DagInv ==
  \A i \in Indices : dag[i].dep < i /\ (dag[i].kind = "then" <=> dag[i].dep # 0)

\* What earlier transactions left is done; the rest is of this DAG.
IdInv ==
  /\ \A id \in DOMAIN hist.opened :
       \/ id[1] < tx /\ id \in hist.resumed
       \/ /\ id[1] = tx /\ id[2] \in Indices /\ Yield(id[2])
          /\ hist.opened[id][1] = tx
          /\ hist.opened[id][2] # 0 =>
               /\ id[2] \in DOMAIN yieldOwner
               /\ yieldOwner[id[2]] = hist.opened[id][2]
  /\ \A id \in DOMAIN hist.joins :
       \/ id[1] < tx /\ id \in hist.fired
       \/ /\ id[1] = tx /\ id[2] \in Indices /\ dag[id[2]].kind = "then"
          /\ hist.joins[id] = <<tx, dag[id[2]].dep>>
  /\ \A id \in hist.fired : id[1] < tx \/ (id[1] = tx /\ id[2] \in Indices)

OwnerInv ==
  \A y \in DOMAIN yieldOwner :
    /\ y \in Indices /\ Yield(y) /\ yieldOwner[y] \in Indices
    /\ <<tx, y>> \in DOMAIN hist.opened
    /\ hist.opened[<<tx, y>>] = <<tx, yieldOwner[y]>>

MarkInv ==
  /\ \A y \in DOMAIN store.yields :
       y \in Indices /\ Yield(y) /\ store.yields[y] = <<tx, y>>
  /\ \A j \in Pending :
       /\ j \in Indices /\ dag[j].kind = "then"
       /\ store.joins[j] = <<tx, j>> /\ IsJoin(j)
  /\ \A j \in yieldJoins : j \in Indices /\ dag[j].kind = "then"
  /\ Pending \subseteq yieldJoins /\ yieldJoins \subseteq Pending \cup memo

\* A join that was fired keeps its marker while the drain is at it; one that
\* was not has its marker or is being fired by a resume.
Calls == {"enter", "run", "end"}
Firing(k, j) ==
  frames[k - 1].k = "joins" /\ frames[k].b = j /\ frames[k].k \in {"enter", "run"}
FiredInv ==
  /\ \A j \in Pending : Fired(j) => frames # << >> /\ frames[1].b = j
  /\ \A j \in Indices : IsJoin(j) /\ ~Fired(j) =>
       j \in Pending \/ \E k \in 2 .. Len(frames) : Firing(k, j)

Begun(i) == \E k \in 1 .. Len(frames) : frames[k].k \in Calls /\ frames[k].b = i
Ending(i) == \E k \in 1 .. Len(frames) : frames[k].k = "end" /\ frames[k].b = i
MemoInv ==
  /\ memo \subseteq Indices
  /\ \A i \in executed : i \in memo \/ Begun(i)
  /\ \A i \in memo : Yield(i) \/ Fired(i) \/ (i \in Pending /\ deps_own_open_yield(i))
  /\ \A i \in Indices : Fired(i) /\ ~Yield(i) => i \in memo \/ Ending(i)
  /\ \A i \in Indices : Fired(i) /\ IsJoin(i) => dag[i].dep \in memo

\* The stack: what may lie above a frame.
Over(k) ==
  LET f == frames[k - 1]
      g == frames[k]
  IN /\ f.k # "enter"
     /\ f.k = "outer" => g.k \in Calls /\ g.b = f.b
     /\ f.k = "run" =>
          /\ k = Len(frames) /\ g.k = "enter" /\ g.b = dag[f.b].dep
          /\ g.b \in memo \/ Deferred(g.b)
     /\ f.k = "end" => g.k = "joins" \/ (k = Len(frames) /\ g.k \in Calls /\ Yield(g.b))
     /\ f.k = "joins" =>
          g.k \in Calls /\ ~Yield(g.b) /\ g.b \notin Pending \cup yieldJoins
Placed(k) ==
  /\ frames[k].k = "outer" <=> k = 1
  /\ k = 1 => frames[k].todo = {frames[k].b} \/ dag[frames[k].b].dep = 0
  /\ frames[k].k # "joins" => frames[k].b \in Indices
ShapeInv ==
  /\ phase = "request" => frames = << >>
  /\ \A k \in 1 .. Len(frames) : Placed(k)
  /\ \A k \in 2 .. Len(frames) : Over(k)

\* What is known of a batch that is being executed.
RunOK(k) ==
  frames[k].k = "run" =>
    LET b == frames[k].b
    IN /\ b \notin memo /\ (~Yield(b) => ~Fired(b)) /\ (IsJoin(b) => Waited(b))
       /\ current = b \/ (k = Len(frames) /\ current = 0 /\ DOMAIN store.yields # {})
       /\ frames[k - 1].k = "joins" => current = b /\ dag[b].dep \in memo
       /\ k = Len(frames) => dag[b].dep = 0 \/ dag[b].dep \in memo
EndOK(k) == frames[k].k = "end" => Yield(frames[k].b) \/ Fired(frames[k].b)
EnterOK(k) ==
  frames[k].k = "enter" =>
    LET b == frames[k].b
    IN /\ frames[k - 1].k = "outer" =>
            /\ ~Deferred(b)
            /\ dag[b].dep = 0 \/ dag[b].dep \in memo \/ Deferred(dag[b].dep)
       /\ frames[k - 1].k = "joins" =>
            b \notin memo /\ ~Fired(b) /\ dag[b].dep \in memo /\ Waited(b)
       /\ frames[k - 1].k = "end" => b \notin memo
RunInv ==
  /\ \A k \in 1 .. Len(frames) : RunOK(k) /\ EndOK(k) /\ EnterOK(k)
  /\ Len(frames) = 1 => Yield(frames[1].b) \/ Fired(frames[1].b)

\* Joins that a resume fires: all that are pending, none of them begun, each on
\* a receipt that has ended and whose yields are resumed.
Ready(j) ==
  /\ j \notin memo /\ dag[j].dep \in memo /\ Waited(j) /\ j # frames[1].b
  /\ \A y \in DOMAIN store.yields : dag[j].dep # y /\ dag[j].dep # OwnerOf(y)
TodoInv ==
  /\ \A k \in 1 .. Len(frames) : frames[k].k = "joins" => frames[k].todo = Pending
  /\ \A k, l \in 1 .. Len(frames) :
       k < l /\ frames[k].k = "joins" /\ frames[l].k = "joins" => Pending = {}
  /\ Joining => \A j \in Pending : Ready(j)
  /\ \A j \in Pending, y \in DOMAIN yieldOwner :
       yieldOwner[y] = dag[j].dep /\ <<tx, y>> \in hist.resumed => Joining

EntryInv ==
  phase = "request" => executed = {} /\ memo = {} /\ current = 0 /\ yieldOwner = Empty

Parts ==
  /\ Ledger(store, hist) /\ DagInv /\ IdInv /\ OwnerInv /\ MarkInv
  /\ FiredInv /\ MemoInv /\ ShapeInv /\ RunInv /\ TodoInv /\ EntryInv

IInv == TypeInv /\ IdleInv /\ ResolveInv /\ (Requesting => Parts)

-----------------------------------------------------------------------------
(* Maps and stacks *)

LEMMA WithFacts ==
  ASSUME NEW f, NEW x, NEW v
  PROVE  /\ DOMAIN With(f, x, v) = DOMAIN f \cup {x}
         /\ With(f, x, v)[x] = v
         /\ \A y \in DOMAIN f \ {x} : With(f, x, v)[y] = f[y]
BY DEF With

LEMMA WithoutFacts ==
  ASSUME NEW f, NEW S
  PROVE  /\ DOMAIN Without(f, S) = DOMAIN f \ S
         /\ \A y \in DOMAIN f \ S : Without(f, S)[y] = f[y]
BY DEF Without

LEMMA MapFacts ==
  ASSUME NEW K, NEW V, NEW f \in Maps(K, V)
  PROVE  DOMAIN f \subseteq K /\ f \in [DOMAIN f -> V]
<1>1. PICK S \in SUBSET K : f \in [S -> V]
  BY DEF Maps
<1> QED
  BY <1>1

LEMMA MapIn ==
  ASSUME NEW K, NEW V, NEW S \in SUBSET K, NEW f \in [S -> V]
  PROVE  f \in Maps(K, V)
BY DEF Maps

LEMMA EmptyIn ==
  ASSUME NEW K, NEW V
  PROVE  Empty \in Maps(K, V) /\ DOMAIN Empty = {}
<1>1. Empty \in [{} -> V] /\ DOMAIN Empty = {}
  BY DEF Empty
<1>2. {} \in SUBSET K
  OBVIOUS
<1> QED
  BY <1>1, <1>2, MapIn, Zenon

LEMMA WithIn ==
  ASSUME NEW K, NEW V, NEW f \in Maps(K, V), NEW x \in K, NEW v \in V
  PROVE  With(f, x, v) \in Maps(K, V)
<1>1. DOMAIN f \subseteq K /\ f \in [DOMAIN f -> V]
  BY MapFacts, Zenon
<1>2. With(f, x, v) \in [DOMAIN f \cup {x} -> V]
  BY <1>1 DEF With
<1>3. DOMAIN f \cup {x} \in SUBSET K
  BY <1>1
<1> QED
  BY <1>2, <1>3, MapIn, Zenon

LEMMA WithoutIn ==
  ASSUME NEW K, NEW V, NEW f \in Maps(K, V), NEW S
  PROVE  Without(f, S) \in Maps(K, V)
<1>1. DOMAIN f \subseteq K /\ f \in [DOMAIN f -> V]
  BY MapFacts, Zenon
<1>2. Without(f, S) \in [DOMAIN f \ S -> V]
  BY <1>1 DEF Without
<1>3. DOMAIN f \ S \in SUBSET K
  BY <1>1
<1> QED
  BY <1>2, <1>3, MapIn, Zenon

\* The calls below the top one.
LEMMA BelowFacts ==
  ASSUME NEW S, frames \in Seq(S), frames # << >>
  PROVE  /\ Len(frames) \in Nat /\ Len(frames) >= 1
         /\ Below \in Seq(S) /\ Len(Below) = Len(frames) - 1
         /\ \A k \in 1 .. Len(frames) - 1 : Below[k] = frames[k]
<1> DEFINE n == Len(frames) - 1
<1>1. Len(frames) \in Nat /\ Len(frames) >= 1
  BY EmptySeq, LenProperties
<1>2. n \in Nat
  BY <1>1
<1>3. n <= Len(frames)
  BY <1>1
<1>4. \A i \in 1 .. n : frames[i] \in S
  BY <1>1, <1>3, ElementOfSeq
<1>5. Below \in Seq(S) /\ Len(Below) = n /\ \A k \in 1 .. n : Below[k] = frames[k]
  <2> HIDE DEF n
  <2>1. Len(SubSeq(frames, 1, n)) = n /\ SubSeq(frames, 1, n) \in Seq(S)
    BY <1>1, <1>2, <1>3, <1>4, SubSeqProperties
  <2>2. \A k \in 1 .. n : SubSeq(frames, 1, n)[k] = frames[k]
    BY <1>1, <1>2, <1>3, SubSeqProperties
  <2> QED
    BY <2>1, <2>2 DEF Below, n
<1> QED
  BY <1>1, <1>5

\* What a step does to the stack: the top call is replaced by none, one or two.
Keep == \A k \in 1 .. Len(frames) - 1 : frames'[k] = frames[k]
Pop == Len(frames') = Len(frames) - 1 /\ Keep
Swap(f) == Len(frames') = Len(frames) /\ Keep /\ frames'[Len(frames)] = f
Swap2(f, g) ==
  /\ Len(frames') = Len(frames) + 1 /\ Keep
  /\ frames'[Len(frames)] = f /\ frames'[Len(frames) + 1] = g

LEMMA FrameIn ==
  ASSUME NEW k \in {"outer", "enter", "run", "end", "joins"}, NEW b \in Nat,
         NEW todo \in SUBSET Nat
  PROVE  /\ Frame(k, b, todo) \in FrameSet
         /\ Frame(k, b, todo).k = k /\ Frame(k, b, todo).b = b
         /\ Frame(k, b, todo).todo = todo
BY DEF Frame, FrameSet

LEMMA FrameFacts ==
  ASSUME TypeInv
  PROVE  /\ Len(frames) \in Nat /\ Len(dag) \in Nat
         /\ (frames # << >> => Len(frames) >= 1)
         /\ (Len(frames) >= 1 => frames # << >>)
         /\ (Len(dag) >= 1 => dag # << >>) /\ (dag # << >> => Len(dag) >= 1)
         /\ \A k \in 1 .. Len(frames) :
              /\ frames[k] \in FrameSet /\ frames[k].b \in Nat
              /\ frames[k].todo \subseteq Nat
              /\ frames[k].k \in {"outer", "enter", "run", "end", "joins"}
         /\ \A i \in Indices :
              /\ dag[i] \in Batches /\ dag[i].dep \in Nat /\ dag[i].acct \in Accounts
              /\ dag[i].kind \in {"call", "then", "yield"}
<1>1. frames \in Seq(FrameSet) /\ dag \in Seq(Batches)
  BY DEF TypeInv
<1>2. Len(frames) \in Nat /\ Len(dag) \in Nat
  BY <1>1, LenProperties
<1>3. /\ (frames # << >> => Len(frames) >= 1) /\ (Len(frames) >= 1 => frames # << >>)
      /\ (Len(dag) >= 1 => dag # << >>) /\ (dag # << >> => Len(dag) >= 1)
  BY <1>1, EmptySeq
<1>4. ASSUME NEW k \in 1 .. Len(frames)
      PROVE  /\ frames[k] \in FrameSet /\ frames[k].b \in Nat
             /\ frames[k].todo \subseteq Nat
             /\ frames[k].k \in {"outer", "enter", "run", "end", "joins"}
  <2>1. frames[k] \in FrameSet
    BY <1>1, ElementOfSeq
  <2> QED
    BY <2>1 DEF FrameSet
<1>5. ASSUME NEW i \in Indices
      PROVE  /\ dag[i] \in Batches /\ dag[i].dep \in Nat /\ dag[i].acct \in Accounts
             /\ dag[i].kind \in {"call", "then", "yield"}
  <2>1. dag[i] \in Batches
    BY <1>1, ElementOfSeq DEF Indices
  <2> QED
    BY <2>1 DEF Batches
<1> QED
  BY <1>2, <1>3, <1>4, <1>5

LEMMA Popped ==
  ASSUME frames \in Seq(FrameSet), frames # << >>, frames' = Below
  PROVE  frames' \in Seq(FrameSet) /\ Pop
BY BelowFacts DEF Pop, Keep

LEMMA Swapped ==
  ASSUME frames \in Seq(FrameSet), frames # << >>, NEW f \in FrameSet,
         frames' = Append(Below, f)
  PROVE  frames' \in Seq(FrameSet) /\ Swap(f)
<1>1. /\ Len(frames) \in Nat /\ Len(frames) >= 1
      /\ Below \in Seq(FrameSet) /\ Len(Below) = Len(frames) - 1
      /\ \A k \in 1 .. Len(frames) - 1 : Below[k] = frames[k]
  BY BelowFacts
<1> DEFINE s == Below
<1>2. s \in Seq(FrameSet) /\ frames' = Append(s, f) /\ Len(s) = Len(frames) - 1
  BY <1>1
<1> HIDE DEF s
<1>3. /\ frames' \in Seq(FrameSet) /\ Len(frames') = Len(s) + 1
      /\ \A k \in 1 .. Len(s) : frames'[k] = s[k]
      /\ frames'[Len(s) + 1] = f
  BY <1>2, AppendProperties
<1> QED
  BY <1>1, <1>2, <1>3 DEF Swap, Keep, s

LEMMA Swapped2 ==
  ASSUME frames \in Seq(FrameSet), frames # << >>, NEW f \in FrameSet, NEW g \in FrameSet,
         \/ frames' = Append(Below, f) \o <<g>>
         \/ frames' = Below \o <<f, g>>
         \/ frames' = Append(Append(Below, f), g)
  PROVE  frames' \in Seq(FrameSet) /\ Swap2(f, g)
<1>1. /\ Len(frames) \in Nat /\ Len(frames) >= 1
      /\ Below \in Seq(FrameSet) /\ Len(Below) = Len(frames) - 1
      /\ \A k \in 1 .. Len(frames) - 1 : Below[k] = frames[k]
  BY BelowFacts
<1> DEFINE s == Below
<1>2. s \in Seq(FrameSet) /\ Len(s) = Len(frames) - 1
  BY <1>1
<1> HIDE DEF s
<1>3. /\ frames' \in Seq(FrameSet) /\ Len(frames') = Len(s) + 2
      /\ \A k \in 1 .. Len(s) : frames'[k] = s[k]
      /\ frames'[Len(s) + 1] = f /\ frames'[Len(s) + 2] = g
  <2>1. CASE frames' = Append(s, f) \o <<g>>
    <3>1. Append(s, f) \in Seq(FrameSet) /\ <<g>> \in Seq(FrameSet)
      BY <1>2, AppendProperties
    <3> QED
      BY <1>2, <2>1, <3>1
  <2>2. CASE frames' = s \o <<f, g>>
    <3>1. <<f, g>> \in Seq(FrameSet)
      OBVIOUS
    <3> QED
      BY <1>2, <2>2, <3>1
  <2>3. CASE frames' = Append(Append(s, f), g)
    <3>1. PICK t : t = Append(s, f)
      OBVIOUS
    <3>2. /\ t \in Seq(FrameSet) /\ Len(t) = Len(s) + 1 /\ t[Len(s) + 1] = f
          /\ \A k \in 1 .. Len(s) : t[k] = s[k]
      BY <1>2, <3>1, AppendProperties
    <3>3. /\ frames' \in Seq(FrameSet) /\ Len(frames') = Len(t) + 1
          /\ frames'[Len(t) + 1] = g /\ \A k \in 1 .. Len(t) : frames'[k] = t[k]
      BY <2>3, <3>1, <3>2, AppendProperties
    <3> QED
      BY <1>2, <3>2, <3>3
  <2> QED
    BY <2>1, <2>2, <2>3 DEF s
<1> QED
  BY <1>1, <1>2, <1>3 DEF Swap2, Keep, s

\* A nonempty set of natural numbers has a least element.
LEMMA Least ==
  ASSUME NEW T, T \subseteq Nat, T # {}
  PROVE  \E x \in T : \A y \in T : x =< y
<1> DEFINE R == OpToRel(<, Nat)
<1>1. IsWellFoundedOn(R, Nat)
  BY NatLessThanWellFounded
<1>2. \A x, y \in Nat : <<y, x>> \in R <=> y < x
  BY DEF OpToRel
<1> HIDE DEF R
<1>3. PICK x \in T : \A y \in T : ~(<<y, x>> \in R)
  BY <1>1, WFMin
<1>4. ASSUME NEW y \in T PROVE x =< y
  <2>1. x \in Nat /\ y \in Nat
    OBVIOUS
  <2>2. ~(y < x)
    BY <1>2, <1>3, <2>1
  <2> QED
    BY <2>1, <2>2
<1> QED
  BY <1>4

\* Min, which picks the join that a resume fires next, picks a member.
LEMMA MinIn ==
  ASSUME NEW T, T \subseteq Nat, T # {}
  PROVE  Min(T) \in T
BY Least DEF Min

\* What lies below the top: a batch is entered or run at the top, or run right
\* below its dependency.
LEMMA TopFacts ==
  ASSUME TypeInv, ShapeInv, frames # << >>
  PROVE  /\ Len(frames) \in Nat /\ Len(frames) >= 1 /\ Top = frames[Len(frames)]
         /\ \A k \in 1 .. Len(frames) - 1 :
              /\ frames[k].k # "enter"
              /\ frames[k].k = "run" =>
                   k = Len(frames) - 1 /\ Top.k = "enter" /\ Top.b = dag[frames[k].b].dep
         /\ (Top.k # "outer" => Len(frames) >= 2)
         /\ (Top.k # "joins" => Top.b \in Indices)
<1>1. Len(frames) \in Nat /\ Len(frames) >= 1 /\ Top = frames[Len(frames)]
  BY FrameFacts DEF Top
<1>2. ASSUME NEW k \in 1 .. Len(frames) - 1
      PROVE  /\ frames[k].k # "enter"
             /\ frames[k].k = "run" =>
                  k = Len(frames) - 1 /\ Top.k = "enter" /\ Top.b = dag[frames[k].b].dep
  <2>1. k + 1 \in 2 .. Len(frames) /\ (k + 1) - 1 = k
    BY <1>1
  <2>2. Over(k + 1)
    BY <2>1 DEF ShapeInv
  <2> QED
    BY <1>1, <2>1, <2>2 DEF Over
<1>3. Placed(Len(frames)) /\ Placed(1)
  BY <1>1 DEF ShapeInv
<1> QED
  BY <1>1, <1>2, <1>3 DEF Placed

-----------------------------------------------------------------------------
(* The history *)

LEMMA HistoryFacts ==
  ASSUME NEW h \in Histories
  PROVE  /\ h.fired \subseteq Ids /\ h.again \subseteq Ids /\ h.resumed \subseteq Ids
         /\ h.opened \in Maps(Ids, Ids) /\ DOMAIN h.opened \subseteq Ids
         /\ h.joins \in Maps(Ids, Ids) /\ DOMAIN h.joins \subseteq Ids
         /\ \A id \in DOMAIN h.opened : h.opened[id] \in Ids
         /\ \A id \in DOMAIN h.joins : h.joins[id] \in Ids
<1>1. /\ h.fired \subseteq Ids /\ h.again \subseteq Ids /\ h.resumed \subseteq Ids
      /\ h.opened \in Maps(Ids, Ids) /\ h.joins \in Maps(Ids, Ids)
  BY DEF Histories
<1>2. \A f \in Maps(Ids, Ids) : DOMAIN f \subseteq Ids /\ f \in [DOMAIN f -> Ids]
  BY MapFacts, Zenon
<1> QED
  BY <1>1, <1>2

LEMMA FireFacts ==
  ASSUME NEW h \in Histories, NEW ids \in SUBSET Ids
  PROVE  /\ Fire(h, ids) \in Histories
         /\ Fire(h, ids).fired = h.fired \cup ids
         /\ Fire(h, ids).again = h.again \cup (h.fired \cap ids)
         /\ Fire(h, ids).opened = h.opened /\ Fire(h, ids).joins = h.joins
         /\ Fire(h, ids).resumed = h.resumed
BY DEF Fire, Histories

\* A batch that was not fired, is no yield and waited for its yields runs.
LEMMA FireLedger ==
  ASSUME NEW st, NEW h \in Histories, NEW ids \in SUBSET Ids, Ledger(st, h),
         ids \cap h.fired = {}, ids \cap DOMAIN h.opened = {},
         \A id \in ids \cap DOMAIN h.joins : Before(h, id) \subseteq h.resumed
  PROVE  Ledger(st, Fire(h, ids))
BY FireFacts DEF Ledger, Before

\* A yield is opened by something that no join that ran waited for.
LEMMA OpenLedger ==
  ASSUME NEW st, NEW s2, NEW h, NEW g, NEW id \in Ids, NEW o \in Ids, NEW y,
         Ledger(st, h), DOMAIN st.yields = {}, s2.yields = With(st.yields, y, id),
         g.fired = h.fired, g.again = h.again, g.joins = h.joins, g.resumed = h.resumed,
         g.opened = With(h.opened, id, o),
         id \notin DOMAIN h.opened, id \notin DOMAIN h.joins, id \notin h.fired,
         \A j \in DOMAIN h.joins : h.joins[j] # id,
         \A j \in DOMAIN h.joins \cap h.fired : h.joins[j] # o
  PROVE  Ledger(s2, g)
<1>1. /\ DOMAIN g.opened = DOMAIN h.opened \cup {id} /\ g.opened[id] = o
      /\ \A x \in DOMAIN h.opened : g.opened[x] = h.opened[x]
  BY DEF With
<1>2. DOMAIN s2.yields = {y} /\ s2.yields[y] = id
  BY DEF With
<1>3. Values(s2.yields) = {id} /\ DOMAIN h.opened \ h.resumed = {}
  BY <1>2 DEF Ledger, Values
<1>4. \A j \in DOMAIN h.joins \cap h.fired : Before(g, j) = Before(h, j)
  BY <1>1 DEF Before
<1>5. /\ g.again = {} /\ DOMAIN g.opened \cap DOMAIN g.joins = {}
      /\ g.resumed \subseteq DOMAIN g.opened
      /\ g.fired \cap DOMAIN g.opened \subseteq g.resumed
  BY <1>1 DEF Ledger
<1>6. Values(s2.yields) = DOMAIN g.opened \ g.resumed
  BY <1>1, <1>3 DEF Ledger
<1>7. \A j \in DOMAIN g.joins : g.joins[j][1] = j[1] /\ g.joins[j] \notin DOMAIN g.opened
  BY <1>1 DEF Ledger
<1> QED
  BY <1>2, <1>4, <1>5, <1>6, <1>7 DEF Ledger

\* At most one yield is open.
LEMMA OneOpen ==
  ASSUME NEW st, NEW h, Ledger(st, h), NEW y \in DOMAIN st.yields
  PROVE  DOMAIN st.yields = {y} /\ DOMAIN h.opened \ h.resumed = {st.yields[y]}
<1>1. DOMAIN st.yields = {y}
  BY DEF Ledger
<1>2. Values(st.yields) = {st.yields[y]}
  BY <1>1 DEF Values
<1> QED
  BY <1>1, <1>2 DEF Ledger

\* The open yield is resumed.
LEMMA ResumeLedger ==
  ASSUME NEW st, NEW s2, NEW h, NEW g, NEW y \in DOMAIN st.yields, NEW id \in Ids,
         Ledger(st, h), id = st.yields[y], s2.yields = Without(st.yields, {y}),
         g.fired = h.fired \cup {id}, g.again = h.again \cup (h.fired \cap {id}),
         g.opened = h.opened, g.joins = h.joins, g.resumed = h.resumed \cup {id}
  PROVE  Ledger(s2, g)
<1>1. DOMAIN st.yields = {y} /\ DOMAIN h.opened \ h.resumed = {id}
  BY OneOpen
<1>2. DOMAIN s2.yields = {}
  BY <1>1 DEF Without
<1>3. Values(s2.yields) = {}
  BY <1>2 DEF Values
<1>5. id \notin h.fired /\ id \in DOMAIN h.opened /\ DOMAIN g.opened \subseteq g.resumed
  BY <1>1 DEF Ledger
<1>6. g.again = {}
  BY <1>5 DEF Ledger
<1>7. /\ DOMAIN g.opened \cap DOMAIN g.joins = {} /\ g.resumed \subseteq DOMAIN g.opened
      /\ g.fired \cap DOMAIN g.opened \subseteq g.resumed
      /\ Values(s2.yields) = DOMAIN g.opened \ g.resumed
      /\ \A x, z \in DOMAIN s2.yields : x = z
      /\ \A j \in DOMAIN g.joins :
           g.joins[j][1] = j[1] /\ g.joins[j] \notin DOMAIN g.opened
  BY <1>2, <1>3, <1>5 DEF Ledger
<1>8. \A j : Before(g, j) \subseteq g.resumed
  BY <1>5 DEF Before
<1> QED
  BY <1>6, <1>7, <1>8 DEF Ledger

\* A join is made by the transaction of what it waits for, which is no yield.
LEMMA JoinLedger ==
  ASSUME NEW st, NEW s2, NEW h, NEW g, NEW id \in Ids, NEW w \in Ids,
         Ledger(st, h), s2.yields = st.yields, w[1] = id[1], w \notin DOMAIN h.opened,
         g.fired = h.fired, g.again = h.again, g.opened = h.opened, g.resumed = h.resumed,
         g.joins = With(h.joins, id, w),
         id \notin DOMAIN h.opened, id \notin DOMAIN h.joins, id \notin h.fired
  PROVE  Ledger(s2, g)
<1>1. /\ DOMAIN g.joins = DOMAIN h.joins \cup {id} /\ g.joins[id] = w
      /\ \A x \in DOMAIN h.joins : g.joins[x] = h.joins[x]
  BY DEF With
<1>2. \A j \in DOMAIN g.joins \cap g.fired :
        j \in DOMAIN h.joins \cap h.fired /\ Before(g, j) = Before(h, j)
  BY <1>1 DEF Before
<1>3. \A j \in DOMAIN g.joins : g.joins[j][1] = j[1] /\ g.joins[j] \notin DOMAIN g.opened
  BY <1>1 DEF Ledger
<1>4. \A j \in DOMAIN g.joins \cap g.fired : Before(g, j) \subseteq g.resumed
  BY <1>2 DEF Ledger
<1> QED
  BY <1>1, <1>3, <1>4 DEF Ledger

-----------------------------------------------------------------------------
(* Types *)

LEMMA IdsIn ==
  ASSUME NEW m \in Nat, NEW n \in Nat
  PROVE  <<m, n>> \in Ids /\ <<m, n>>[1] = m /\ <<m, n>>[2] = n
BY DEF Ids

LEMMA MarkerFacts ==
  ASSUME NEW st \in Markers
  PROVE  /\ DOMAIN st.yields \subseteq Nat /\ DOMAIN st.owners \subseteq Nat
         /\ DOMAIN st.joins \subseteq Nat
         /\ st.yields \in Maps(Nat, Ids) /\ st.owners \in Maps(Nat, Nat)
         /\ st.joins \in Maps(Nat, Ids)
         /\ \A y \in DOMAIN st.yields : st.yields[y] \in Ids
         /\ \A j \in DOMAIN st.joins : st.joins[j] \in Ids
<1>1. /\ st.yields \in Maps(Nat, Ids) /\ st.owners \in Maps(Nat, Nat)
      /\ st.joins \in Maps(Nat, Ids)
  BY DEF Markers
<1>2. /\ \A f \in Maps(Nat, Ids) : DOMAIN f \subseteq Nat /\ f \in [DOMAIN f -> Ids]
      /\ \A f \in Maps(Nat, Nat) : DOMAIN f \subseteq Nat /\ f \in [DOMAIN f -> Nat]
  BY MapFacts, Zenon
<1> QED
  BY <1>1, <1>2

\* Marks of joins and yields come and go; what else a store holds stays.
LEMMA MarkerIn ==
  ASSUME NEW st \in Markers
  PROVE  /\ \A m \in Maps(Nat, Ids) :
              /\ [st EXCEPT !.joins = m] \in Markers
              /\ [st EXCEPT !.joins = m].joins = m
              /\ [st EXCEPT !.joins = m].yields = st.yields
              /\ [st EXCEPT !.joins = m].owners = st.owners
         /\ \A m \in Maps(Nat, Ids) :
              /\ [st EXCEPT !.yields = m] \in Markers
              /\ [st EXCEPT !.yields = m].yields = m
              /\ [st EXCEPT !.yields = m].joins = st.joins
              /\ [st EXCEPT !.yields = m].owners = st.owners
BY DEF Markers

LEMMA TakeFacts ==
  ASSUME TypeInv, NEW j
  PROVE  /\ yield_joins_persist_take(j) \in Markers
         /\ yield_joins_persist_take(j).yields = store.yields
         /\ yield_joins_persist_take(j).owners = store.owners
         /\ DOMAIN yield_joins_persist_take(j).joins = Pending \ {j}
         /\ \A i \in Pending \ {j} :
              yield_joins_persist_take(j).joins[i] = store.joins[i]
<1>1. store \in Markers /\ store.joins \in Maps(Nat, Ids)
  BY MarkerFacts DEF TypeInv
<1>2. Without(store.joins, {j}) \in Maps(Nat, Ids)
  BY <1>1, WithoutIn, Zenon
<1>3. /\ DOMAIN Without(store.joins, {j}) = Pending \ {j}
      /\ \A i \in Pending \ {j} : Without(store.joins, {j})[i] = store.joins[i]
  BY DEF Without, Pending
<1> DEFINE w == Without(store.joins, {j})
<1>4. yield_joins_persist_take(j) = [store EXCEPT !.joins = w]
  BY DEF yield_joins_persist_take
<1> HIDE DEF w
<1>5. /\ [store EXCEPT !.joins = w] \in Markers
      /\ [store EXCEPT !.joins = w].joins = w
      /\ [store EXCEPT !.joins = w].yields = store.yields
      /\ [store EXCEPT !.joins = w].owners = store.owners
  BY <1>1, <1>2, MarkerIn DEF w
<1> QED
  BY <1>3, <1>4, <1>5 DEF w

LEMMA CachedIn ==
  ASSUME TypeInv, NEW asked
  PROVE  Cached(asked) \subseteq Nat
BY MarkerFacts DEF TypeInv, Cached

\* The actions that only move the stack.
LEMMA TypeControl ==
  ASSUME TypeInv, ShapeInv,
         DrainNext \/ DrainTakesMarker \/ Memoized \/ JoinDeferred \/ DepsFirst
         \/ YieldInert \/ BatchEnds
  PROVE  TypeInv'
<1>1. /\ frames \in Seq(FrameSet) /\ executed \subseteq Nat /\ memo \subseteq Nat
      /\ Indices \subseteq Nat
  BY FrameFacts DEF TypeInv, Indices
<1>2. CASE DrainNext
  <2>1. PICK i \in Indices :
          /\ frames' = <<Frame("outer", i, {i}), Frame("enter", i, {})>>
          /\ yieldJoins' = Cached({h \in 1 .. i : h \notin executed})
    BY <1>2 DEF DrainNext
  <2>2. i \in Nat /\ {i} \in SUBSET Nat
    BY <1>1
  <2>4. Frame("outer", i, {i}) \in FrameSet /\ Frame("enter", i, {}) \in FrameSet
    BY <2>2, FrameIn
  <2>3. frames' \in Seq(FrameSet) /\ yieldJoins' \subseteq Nat
    BY <2>1, <2>4, CachedIn
  <2> QED
    BY <1>2, <2>3 DEF DrainNext, TypeInv
<1>3. CASE DrainTakesMarker
  <2>1. store' \in Markers /\ frames' \in Seq(FrameSet)
    BY <1>3, TakeFacts, EmptySeq DEF DrainTakesMarker, TypeInv
  <2> QED
    BY <1>3, <2>1 DEF DrainTakesMarker, TypeInv, threadLocal
<1>4. ASSUME frames # << >> PROVE Top.b \in Nat
  BY <1>4, FrameFacts DEF Top
<1>5. CASE Memoized
  <2>1. frames # << >>
    BY <1>5 DEF Memoized, In
  <2>2. frames' \in Seq(FrameSet)
    BY <1>1, <1>5, <2>1, Popped DEF Memoized
  <2> QED
    BY <1>4, <1>5, <2>1, <2>2 DEF Memoized, TypeInv
<1>6. CASE JoinDeferred
  <2>1. frames # << >>
    BY <1>6 DEF JoinDeferred, In
  <2>2. frames' \in Seq(FrameSet) /\ yieldJoins' \subseteq Nat
    BY <1>1, <1>6, <2>1, Popped, CachedIn DEF JoinDeferred
  <2> QED
    BY <1>4, <1>6, <2>1, <2>2 DEF JoinDeferred, TypeInv
<1>7. CASE BatchEnds
  <2>1. frames # << >>
    BY <1>7 DEF BatchEnds, In
  <2>2. frames' \in Seq(FrameSet)
    BY <1>1, <1>7, <2>1, Popped DEF BatchEnds
  <2> QED
    BY <1>4, <1>7, <2>1, <2>2 DEF BatchEnds, TypeInv
<1>8. CASE YieldInert
  <2>1. frames # << >>
    BY <1>8 DEF YieldInert, In
  <2>2. frames' \in Seq(FrameSet)
    BY <1>1, <1>4, <1>8, <2>1, Swapped, FrameIn DEF YieldInert, Ended
  <2> QED
    BY <1>8, <2>2 DEF YieldInert, TypeInv, threadLocal
<1>9. CASE DepsFirst
  <2>1. frames # << >> /\ Top.k = "enter"
    BY <1>9 DEF DepsFirst, In
  <2>2. Top.b \in Indices /\ Top.b \in Nat /\ dag[Top.b].dep \in Nat
    BY <1>4, <2>1, TopFacts, FrameFacts
  <2>3. /\ Frame("run", Top.b, {}) \in FrameSet
        /\ Frame("enter", dag[Top.b].dep, {}) \in FrameSet
    BY <2>2, FrameIn
  <2>4. Append(Below, Frame("run", Top.b, {})) \in Seq(FrameSet)
    BY <1>1, <2>1, <2>3, BelowFacts, AppendProperties
  <2>5. frames' \in Seq(FrameSet)
    <3>1. CASE dag[Top.b].dep = 0
      BY <1>9, <2>4, <3>1, ConcatEmptySeq DEF DepsFirst
    <3>2. CASE dag[Top.b].dep # 0
      <4>1. frames' = Append(Below, Frame("run", Top.b, {}))
                      \o <<Frame("enter", dag[Top.b].dep, {})>>
        BY <1>9, <3>2 DEF DepsFirst
      <4> QED
        BY <1>1, <2>1, <2>3, <4>1, Swapped2
    <3> QED
      BY <3>1, <3>2
  <2>6. yieldJoins' \subseteq Nat
    BY <1>9, CachedIn DEF DepsFirst
  <2> QED
    BY <1>9, <2>2, <2>5, <2>6 DEF DepsFirst, TypeInv
<1> QED
  BY <1>2, <1>3, <1>5, <1>6, <1>7, <1>8, <1>9

\* The DAG grows by one batch.
Grown(b) ==
  /\ Len(dag') = Len(dag) + 1 /\ dag'[Len(dag) + 1] = b
  /\ \A i \in Indices : dag'[i] = dag[i]

LEMMA Grows ==
  ASSUME TypeInv, NEW b \in Batches, dag' = Append(dag, b)
  PROVE  dag' \in Seq(Batches) /\ Grown(b)
BY AppendProperties DEF TypeInv, Grown, Indices

LEMMA BatchIn ==
  ASSUME NEW kind \in {"call", "then", "yield"}, NEW dep \in Nat, NEW acct \in Accounts
  PROVE  /\ Batch(kind, dep, acct) \in Batches
         /\ Batch(kind, dep, acct).kind = kind /\ Batch(kind, dep, acct).dep = dep
BY DEF Batch, Batches

\* What promise_yield_create does, as it is used below.
LEMMA YieldCreated ==
  ASSUME TypeInv, NEW acct \in Accounts, NEW opener \in Nat, NEW h \in Histories,
         promise_yield_create(acct, opener, h)
  PROVE  /\ dag' \in Seq(Batches) /\ Grown(Batch("yield", 0, acct))
         /\ yieldOwner' \in Maps(Nat, Nat)
         /\ (current = 0 => yieldOwner' = yieldOwner)
         /\ (current # 0 => yieldOwner' = With(yieldOwner, Len(dag) + 1, current))
         /\ store' \in Markers /\ store'.joins = store.joins
         /\ store'.yields = With(store.yields, Len(dag) + 1, NewId)
         /\ hist' \in Histories /\ hist'.opened = With(h.opened, NewId, <<tx, opener>>)
         /\ hist'.fired = h.fired /\ hist'.again = h.again
         /\ hist'.joins = h.joins /\ hist'.resumed = h.resumed
         /\ NewId = <<tx, Len(dag) + 1>> /\ NewId \in Ids /\ <<tx, opener>> \in Ids
<1> DEFINE y == Len(dag) + 1
<1>1. y \in Nat /\ tx \in Nat /\ current \in Nat
  BY FrameFacts DEF TypeInv
<1>2. NewId \in Ids /\ <<tx, opener>> \in Ids /\ NewId = <<tx, y>>
  BY <1>1, IdsIn DEF NewId
<1>3. Batch("yield", 0, acct) \in Batches
  BY BatchIn
<1>4. dag' \in Seq(Batches) /\ Grown(Batch("yield", 0, acct))
  BY <1>3, Grows DEF promise_yield_create
<1> DEFINE w == With(store.yields, y, NewId)
           o == IF current # 0 THEN With(store.owners, y, current) ELSE store.owners
<1>5. yieldOwner' \in Maps(Nat, Nat)
  <2>1. yieldOwner \in Maps(Nat, Nat)
    BY DEF TypeInv
  <2>2. With(yieldOwner, y, current) \in Maps(Nat, Nat)
    BY <1>1, <2>1, WithIn, Zenon
  <2> QED
    BY <2>1, <2>2 DEF promise_yield_create
<1>6. store \in Markers /\ store.yields \in Maps(Nat, Ids) /\ store.owners \in Maps(Nat, Nat)
  BY MarkerFacts DEF TypeInv
<1>7. w \in Maps(Nat, Ids) /\ o \in Maps(Nat, Nat)
  <2>1. w \in Maps(Nat, Ids)
    BY <1>1, <1>2, <1>6, WithIn, Zenon
  <2>2. With(store.owners, y, current) \in Maps(Nat, Nat)
    BY <1>1, <1>6, WithIn, Zenon
  <2> QED
    BY <1>6, <2>1, <2>2
<1>8. store' = [store EXCEPT !.yields = w, !.owners = o]
  BY DEF promise_yield_create
<1>9. store' \in Markers /\ store'.joins = store.joins /\ store'.yields = w
  <2> HIDE DEF w, o
  <2> QED
    BY <1>6, <1>7, <1>8 DEF Markers
<1> DEFINE p == With(h.opened, NewId, <<tx, opener>>)
<1>10. hist' = [h EXCEPT !.opened = p]
  BY DEF promise_yield_create
<1>11. p \in Maps(Ids, Ids)
  <2>1. h.opened \in Maps(Ids, Ids)
    BY HistoryFacts
  <2> QED
    BY <1>2, <2>1, WithIn, Zenon
<1>12. /\ hist' \in Histories /\ hist'.opened = p /\ hist'.again = h.again
       /\ hist'.fired = h.fired /\ hist'.joins = h.joins /\ hist'.resumed = h.resumed
  <2> HIDE DEF p
  <2> QED
    BY <1>10, <1>11 DEF Histories
<1> QED
  BY <1>2, <1>4, <1>5, <1>9, <1>10, <1>12 DEF promise_yield_create

\* What promise_yield_resume does to the markers and the history.
LEMMA Resumed ==
  ASSUME TypeInv, NEW y \in Indices \cup DOMAIN store.yields, NEW h \in Histories,
         NEW below, promise_yield_resume(y, h, below)
  PROVE  /\ Named(y) \in Ids /\ y \in Nat
         /\ store' \in Markers /\ store'.joins = store.joins /\ store'.owners = store.owners
         /\ store'.yields = Without(store.yields, {y})
         /\ hist' \in Histories /\ hist'.again = h.again \cup (h.fired \cap {Named(y)})
         /\ hist'.fired = h.fired \cup {Named(y)} /\ hist'.opened = h.opened
         /\ hist'.joins = h.joins /\ hist'.resumed = h.resumed \cup {Named(y)}
         /\ JoinsOn(y) \subseteq Nat
<1>1. store \in Markers /\ store.yields \in Maps(Nat, Ids) /\ DOMAIN store.yields \subseteq Nat
      /\ tx \in Nat /\ Indices \subseteq Nat
  BY MarkerFacts, FrameFacts DEF TypeInv, Indices
<1>2. Named(y) \in Ids
  <2>1. CASE YieldInDag(y)
    BY <1>1, <2>1, IdsIn DEF Named, YieldInDag
  <2>2. CASE ~YieldInDag(y)
    BY <1>1, <2>2, MarkerFacts DEF Named, promise_yield_resume
  <2> QED
    BY <2>1, <2>2
<1> DEFINE w == Without(store.yields, {y})
           id == Named(y)
           f == Fire(h, {id})
<1>3. w \in Maps(Nat, Ids)
  BY <1>1, WithoutIn, Zenon
<1>4. store' = [store EXCEPT !.yields = w] /\ hist' = [f EXCEPT !.resumed = @ \cup {id}]
  BY DEF promise_yield_resume
<1>5. /\ f \in Histories /\ f.fired = h.fired \cup {id}
      /\ f.again = h.again \cup (h.fired \cap {id})
      /\ f.opened = h.opened /\ f.joins = h.joins /\ f.resumed = h.resumed
  <2>1. {id} \in SUBSET Ids
    BY <1>2
  <2> HIDE DEF id
  <2> QED
    BY <2>1, FireFacts
<1>6. /\ store' \in Markers /\ store'.joins = store.joins /\ store'.owners = store.owners
      /\ store'.yields = w
  <2> HIDE DEF w
  <2> QED
    BY <1>1, <1>3, <1>4, MarkerIn
<1>7. /\ hist' \in Histories /\ hist'.fired = f.fired /\ hist'.opened = f.opened
      /\ hist'.again = f.again /\ hist'.joins = f.joins /\ hist'.resumed = f.resumed \cup {id}
  <2> HIDE DEF f, id
  <2>1. id \in Ids
    BY <1>2 DEF id
  <2> QED
    BY <1>4, <1>5, <2>1 DEF Histories
<1>8. JoinsOn(y) \subseteq Nat
  BY <1>1 DEF JoinsOn, joins_on_batch, joins_for_owner_batch
<1> QED
  BY <1>1, <1>2, <1>4, <1>5, <1>6, <1>7, <1>8

\* The actions of a call and of a resume.
LEMMA TypeCalls ==
  ASSUME TypeInv, ShapeInv, CallReturns \/ CallYields \/ CallResumes
  PROVE  TypeInv'
<1>1. frames \in Seq(FrameSet) /\ frames # << >> /\ Top.k = "run" /\ hist \in Histories
  BY DEF TypeInv, CallReturns, CallYields, CallResumes, Running, In
<1>2. Top.b \in Indices /\ Top.b \in Nat /\ dag[Top.b].acct \in Accounts /\ tx \in Nat
      /\ Len(dag) + 1 \in Nat
  <2>1. Top.b \in Indices
    BY <1>1, TopFacts
  <2>2. dag[Top.b].acct \in Accounts /\ Len(dag) \in Nat
    BY <2>1, FrameFacts
  <2>3. tx \in Nat
    BY DEF TypeInv
  <2>4. Top.b \in Nat /\ Len(dag) + 1 \in Nat
    BY <2>1, <2>2 DEF Indices
  <2> QED
    BY <2>1, <2>2, <2>3, <2>4
<1>3. /\ BatchId \in Ids /\ Fire(hist, {BatchId}) \in Histories
      /\ Frame("end", Top.b, {}) \in FrameSet
      /\ Frame("enter", Len(dag) + 1, {}) \in FrameSet
  <2>1. BatchId \in Ids
    BY <1>2, IdsIn DEF BatchId
  <2>2. {BatchId} \in SUBSET Ids
    BY <2>1
  <2> QED
    BY <1>1, <1>2, <2>1, <2>2, FireFacts, FrameIn
<1>4. Ended \in Seq(FrameSet)
  BY <1>1, <1>3, BelowFacts, AppendProperties DEF Ended
<1>5. CASE CallReturns
  BY <1>3, <1>4, <1>5 DEF CallReturns, TypeInv, threadLocal
<1>6. CASE CallYields
  <2>1. promise_yield_create(dag[Top.b].acct, Top.b, Fire(hist, {BatchId}))
    BY <1>6 DEF CallYields
  <2>2. /\ dag' \in Seq(Batches) /\ yieldOwner' \in Maps(Nat, Nat)
        /\ store' \in Markers /\ hist' \in Histories
    BY <1>2, <1>3, <2>1, YieldCreated
  <2>3. frames' \in Seq(FrameSet)
    <3>1. PICK returned \in BOOLEAN :
            frames' = Ended \o IF returned THEN <<Frame("enter", Len(dag) + 1, {})>> ELSE << >>
      BY <1>6 DEF CallYields
    <3>2. CASE returned
      BY <1>1, <1>3, <3>1, <3>2, Swapped2 DEF Ended
    <3>3. CASE ~returned
      BY <1>4, <3>1, <3>3, ConcatEmptySeq
    <3> QED
      BY <3>2, <3>3
  <2> QED
    BY <1>6, <2>2, <2>3 DEF CallYields, TypeInv
<1>7. CASE CallResumes
  <2>1. PICK y \in Indices \cup DOMAIN store.yields :
          promise_yield_resume(y, Fire(hist, {BatchId}), Ended)
    BY <1>7 DEF CallResumes
  <2>2. /\ y \in Nat /\ store' \in Markers /\ hist' \in Histories /\ JoinsOn(y) \in SUBSET Nat
    BY <1>3, <2>1, Resumed
  <2>3. Frame("joins", y, JoinsOn(y)) \in FrameSet
    BY <2>2, FrameIn
  <2>4. frames' \in Seq(FrameSet) /\ yieldJoins' \subseteq Nat
    BY <1>4, <2>1, <2>3, AppendProperties, CachedIn DEF promise_yield_resume
  <2> QED
    BY <1>7, <2>2, <2>4 DEF CallResumes, TypeInv
<1> QED
  BY <1>5, <1>6, <1>7

LEMMA TypeJoins ==
  ASSUME TypeInv, JoinFires \/ PendingDelivered
  PROVE  TypeInv'
<1>1. /\ frames \in Seq(FrameSet) /\ frames # << >> /\ Top.k = "joins" /\ hist \in Histories
      /\ store \in Markers /\ executed \subseteq Nat /\ yieldJoins \subseteq Nat
  BY DEF TypeInv, JoinFires, PendingDelivered, In
<1>2. Top \in FrameSet /\ Top.todo \subseteq Nat
  BY <1>1, FrameFacts DEF Top
<1>3. CASE JoinFires
  <2> DEFINE j == Min(Top.todo)
             rest == [Top EXCEPT !.todo = @ \ {j}]
  <2>1. j \in Top.todo /\ j \in Nat
    BY <1>2, <1>3, MinIn DEF JoinFires
  <2>2. /\ yieldJoins' = yieldJoins \ {j} /\ store' = yield_joins_persist_take(j)
        /\ executed' = executed \cup {j}
        /\ frames' = Below \o <<rest, Frame("enter", j, {})>>
    BY <1>3 DEF JoinFires
  <2> HIDE DEF j
  <2>3. rest \in FrameSet /\ Frame("enter", j, {}) \in FrameSet
    BY <1>2, <2>1, FrameIn DEF FrameSet
  <2>4. frames' \in Seq(FrameSet) /\ store' \in Markers
    BY <1>1, <2>2, <2>3, Swapped2, TakeFacts
  <2> QED
    BY <1>1, <1>3, <2>1, <2>2, <2>4 DEF JoinFires, TypeInv
<1>4. CASE PendingDelivered
  <2>1. {store.joins[j] : j \in DOMAIN store.joins \ executed} \in SUBSET Ids
    BY <1>1, MarkerFacts
  <2>2. hist' \in Histories
    BY <1>1, <1>4, <2>1, FireFacts DEF PendingDelivered
  <2>3. Empty \in Maps(Nat, Ids)
    BY EmptyIn, Zenon
  <2>4. store' \in Markers /\ frames' \in Seq(FrameSet)
    BY <1>1, <1>4, <2>3, Popped, MarkerIn DEF PendingDelivered
  <2> QED
    BY <1>1, <1>4, <2>2, <2>4 DEF PendingDelivered, TypeInv
<1> QED
  BY <1>3, <1>4

\* The actions of an entry, and the two ends of a transaction.
LEMMA TypeEntry ==
  ASSUME TypeInv,
         \/ promise_create \/ promise_then \/ EntryYields \/ EntryResumes
         \/ EntryReturns \/ EntryReturnsPromise \/ EntryTraps
         \/ BeginRequest \/ BeginResolve \/ DrainEnds
  PROVE  TypeInv'
<1>1. /\ hist \in Histories /\ store \in Markers /\ tx \in Nat /\ Indices \subseteq Nat
      /\ Len(dag) + 1 \in Nat /\ dag \in Seq(Batches)
  BY FrameFacts DEF TypeInv, Indices
<1>2. CASE promise_create
  <2>1. PICK acct \in Accounts : dag' = Append(dag, Batch("call", 0, acct))
    BY <1>2 DEF promise_create
  <2>2. dag' \in Seq(Batches)
    BY <2>1, Grows, BatchIn
  <2> QED
    BY <1>2, <2>2 DEF promise_create, TypeInv
<1>3. CASE promise_then
  <2>1. PICK i \in Indices, acct \in Accounts :
          LET j == Len(dag) + 1
              cross == dag[i].acct # acct
          IN /\ dag' = Append(dag, Batch("then", i, acct))
             /\ yieldJoins' = IF cross THEN yieldJoins \cup {j} ELSE yieldJoins
             /\ store' = IF cross THEN [store EXCEPT !.joins = With(@, j, NewId)] ELSE store
             /\ hist' = IF cross THEN [hist EXCEPT !.joins = With(@, NewId, <<tx, i>>)] ELSE hist
    BY <1>3 DEF promise_then
  <2>2. dag' \in Seq(Batches)
    BY <1>1, <2>1, Grows, BatchIn
  <2>3. NewId \in Ids /\ <<tx, i>> \in Ids
    BY <1>1, IdsIn DEF NewId
  <2>4. /\ With(store.joins, Len(dag) + 1, NewId) \in Maps(Nat, Ids)
        /\ With(hist.joins, NewId, <<tx, i>>) \in Maps(Ids, Ids)
    <3>1. store.joins \in Maps(Nat, Ids) /\ hist.joins \in Maps(Ids, Ids)
      BY <1>1, MarkerFacts, HistoryFacts
    <3> QED
      BY <1>1, <2>3, <3>1, WithIn, Zenon
  <2>5. store' \in Markers /\ hist' \in Histories /\ yieldJoins' \subseteq Nat
    BY <1>1, <2>1, <2>4 DEF Markers, Histories, TypeInv
  <2> QED
    BY <1>3, <2>2, <2>5 DEF promise_then, TypeInv
<1>4. CASE EntryYields
  <2>1. PICK acct \in Accounts : promise_yield_create(acct, 0, hist)
    BY <1>4 DEF EntryYields
  <2>2. /\ dag' \in Seq(Batches) /\ yieldOwner' \in Maps(Nat, Nat)
        /\ store' \in Markers /\ hist' \in Histories
    BY <1>1, <2>1, YieldCreated
  <2> QED
    BY <1>4, <2>2 DEF EntryYields, TypeInv
<1>5. CASE EntryResumes
  <2>1. PICK y \in DOMAIN store.yields : promise_yield_resume(y, hist, << >>)
    BY <1>5 DEF EntryResumes
  <2>2. /\ y \in Nat /\ store' \in Markers /\ hist' \in Histories /\ JoinsOn(y) \in SUBSET Nat
    BY <1>1, <2>1, Resumed
  <2>3. Frame("joins", y, JoinsOn(y)) \in FrameSet
    BY <2>2, FrameIn
  <2>4. frames' \in Seq(FrameSet) /\ yieldJoins' \subseteq Nat
    BY <2>1, <2>3, AppendProperties, EmptySeq, CachedIn DEF promise_yield_resume
  <2> QED
    BY <1>5, <2>2, <2>4 DEF EntryResumes, TypeInv
<1>6. CASE EntryReturns
  BY <1>6 DEF EntryReturns, TypeInv, threadLocal
<1>7. CASE EntryTraps
  BY <1>7 DEF EntryTraps, TypeInv, threadLocal
<1>8. ASSUME NEW kind \in {"request", "resolve"}, NEW new \in BOOLEAN, Begin(kind, new)
      PROVE  TypeInv'
  <2>1. Empty \in Maps(Nat, Nat) /\ << >> \in Seq(Batches)
    BY EmptyIn, EmptySeq
  <2>2. yieldJoins' \subseteq Nat /\ yieldOwner' \in Maps(Nat, Nat)
    BY <1>8, <2>1, Zenon DEF Begin, fresh_tx_state, TypeInv
  <2>3. saved' \in [store : Markers, hist : Histories] /\ tx' \in Nat
    BY <1>1, <1>8 DEF Begin
  <2> QED
    BY <1>1, <1>8, <2>1, <2>2, <2>3 DEF Begin, fresh_tx_state, TypeInv
<1>9. CASE BeginRequest \/ BeginResolve
  BY <1>8, <1>9 DEF BeginRequest, BeginResolve
<1>10. CASE DrainEnds
  <2>1. yieldJoins' \subseteq Nat
    BY <1>10, CachedIn DEF DrainEnds
  <2> QED
    BY <1>10, <2>1 DEF DrainEnds, TypeInv
<1>11. CASE EntryReturnsPromise
  <2>1. PICK i \in Indices : frames' = <<Frame("outer", i, {}), Frame("enter", i, {})>>
    BY <1>11 DEF EntryReturnsPromise
  <2>2. Frame("outer", i, {}) \in FrameSet /\ Frame("enter", i, {}) \in FrameSet
    BY <1>1, FrameIn
  <2>3. frames' \in Seq(FrameSet)
    BY <2>1, <2>2
  <2> QED
    BY <1>11, <2>3 DEF EntryReturnsPromise, TypeInv, threadLocal
<1> QED
  BY <1>2, <1>3, <1>4, <1>5, <1>6, <1>7, <1>9, <1>10, <1>11

-----------------------------------------------------------------------------
(* Outside of a request *)

\* Nothing is pending when no yield is open.
LEMMA NothingPending ==
  ASSUME NEW st, NEW h, Ledger(st, h), JoinMarks(st, h), Delivered(h), DOMAIN st.yields = {}
  PROVE  /\ DOMAIN h.opened \subseteq h.resumed /\ DOMAIN h.joins \subseteq h.fired
         /\ DOMAIN st.joins = {}
<1>1. DOMAIN h.opened \subseteq h.resumed
  BY DEF Ledger, Values
<1>2. DOMAIN h.joins \subseteq h.fired
  BY <1>1 DEF Delivered, Before
<1>3. Values(st.joins) = {}
  BY <1>2 DEF JoinMarks
<1> QED
  BY <1>1, <1>2, <1>3 DEF Values

LEMMA Later ==
  ASSUME NEW h \in Histories, NEW t \in Nat, NEW u \in Nat, Dated(h, t), t <= u
  PROVE  Dated(h, u)
<1>1. \A id \in DOMAIN h.opened \cup DOMAIN h.joins \cup h.fired : id \in Ids /\ id[1] \in Nat
  BY HistoryFacts DEF Ids
<1> QED
  BY <1>1 DEF Dated

LEMMA BeginRequestStep ==
  ASSUME IInv, BeginRequest, Overlap = FALSE, Reuse = FALSE
  PROVE  IInv'
<1>1. TypeInv /\ TypeInv' /\ phase = "idle" /\ frames = << >> /\ Settled(store, hist)
  BY TypeEntry DEF IInv, BeginRequest, Begin, IdleInv
<1>2. Begin("request", TRUE) /\ store.yields = Empty
  BY DEF BeginRequest
<1>3. /\ dag' = << >> /\ executed' = {} /\ memo' = {} /\ current' = 0
      /\ yieldJoins' = {} /\ yieldOwner' = Empty
      /\ phase' = "request" /\ tx' = tx + 1 /\ saved' = [store |-> store, hist |-> hist]
      /\ store' = store /\ frames' = << >> /\ hist' = hist
  BY <1>1, <1>2 DEF Begin, fresh_tx_state
<1>4. /\ tx \in Nat /\ store \in Markers /\ hist \in Histories
  BY <1>1 DEF TypeInv
<1>5. /\ Len(frames') = 0 /\ Len(dag') = 0 /\ Indices' = {}
  BY <1>3, EmptySeq DEF Indices
<1>6. DOMAIN store.yields = {} /\ DOMAIN Empty = {}
  BY <1>2, EmptyIn
<1>7. /\ DOMAIN hist.opened \subseteq hist.resumed /\ DOMAIN hist.joins \subseteq hist.fired
      /\ Pending = {}
  BY <1>1, <1>6, NothingPending DEF Settled, Pending
<1>8. Dated(hist, tx) /\ Dated(hist, tx') /\ Ledger(store, hist)
  BY <1>1, <1>3, <1>4, Later DEF Settled
<1>9. \A id \in DOMAIN hist.opened \cup DOMAIN hist.joins \cup hist.fired : id[1] < tx'
  <2>1. \A id \in DOMAIN hist.opened \cup DOMAIN hist.joins \cup hist.fired : id \in Ids
    BY <1>4, HistoryFacts
  <2> QED
    BY <1>3, <1>4, <1>8, <2>1 DEF Dated, Ids
<1>10. IdleInv' /\ ResolveInv'
  <2>1. Settled(saved.store, saved.hist)'
    BY <1>1, <1>3, <1>8 DEF Settled
  <2> QED
    BY <1>3, <2>1 DEF IdleInv, ResolveInv
<1>11. DagInv' /\ OwnerInv' /\ EntryInv'
  BY <1>3, <1>5, <1>6 DEF DagInv, OwnerInv, EntryInv
<1>12. IdInv'
  BY <1>3, <1>7, <1>9 DEF IdInv
<1>13. MarkInv'
  BY <1>3, <1>6, <1>7 DEF MarkInv, Pending
<1>14. FiredInv' /\ MemoInv'
  BY <1>3, <1>5, <1>7 DEF FiredInv, MemoInv, Pending
<1>15. ShapeInv' /\ RunInv' /\ TodoInv'
  <2>1. 1 .. 0 = {} /\ 2 .. 0 = {} /\ Pending' = {} /\ ~Joining'
    BY <1>3, <1>5, <1>7 DEF Pending, Joining
  <2> QED
    BY <1>3, <1>5, <2>1 DEF ShapeInv, RunInv, TodoInv
<1>16. Ledger(store, hist)'
  BY <1>3, <1>8
<1> QED
  BY <1>1, <1>10, <1>11, <1>12, <1>13, <1>14, <1>15, <1>16 DEF IInv, Parts

LEMMA BeginResolveStep ==
  ASSUME IInv, BeginResolve
  PROVE  IInv'
<1>1. TypeInv /\ TypeInv' /\ phase = "idle" /\ frames = << >> /\ Settled(store, hist)
  BY TypeEntry DEF IInv, BeginResolve, Begin, IdleInv
<1>2. /\ dag' = << >> /\ executed' = {}
      /\ phase' = "resolve" /\ tx' = tx + 1 /\ saved' = [store |-> store, hist |-> hist]
      /\ store' = store /\ frames' = << >> /\ hist' = hist
  BY <1>1 DEF BeginResolve, Begin, fresh_tx_state
<1>3. tx \in Nat /\ tx' \in Nat /\ tx <= tx' /\ hist \in Histories
  BY <1>1, <1>2 DEF TypeInv
<1>4. Dated(hist, tx')
  BY <1>1, <1>3, Later DEF Settled
<1>5. Settled(store, hist)' /\ Settled(saved.store, saved.hist)'
  BY <1>1, <1>2, <1>4 DEF Settled
<1> QED
  BY <1>1, <1>2, <1>5 DEF IInv, IdleInv, ResolveInv, Requesting

\* A resolver: the open yield is resumed by its entry.
LEMMA EntryResumesStep ==
  ASSUME IInv, EntryResumes
  PROVE  IInv'
<1>1. TypeInv /\ TypeInv' /\ phase = "resolve" /\ phase' = "resolve" /\ frames = << >>
      /\ hist \in Histories /\ store \in Markers /\ dag' = dag /\ tx' = tx /\ executed' = executed
      /\ saved' = saved
  BY TypeEntry DEF IInv, EntryResumes, TypeInv
<1>2. dag = << >> /\ executed = {} /\ Settled(store, hist) /\ Settled(saved.store, saved.hist)
  BY <1>1, FrameFacts DEF IInv, ResolveInv, IdleInv
<1>3. PICK y \in DOMAIN store.yields : promise_yield_resume(y, hist, << >>)
  BY DEF EntryResumes
<1>4. Indices = {}
  BY <1>2, EmptySeq DEF Indices
<1>5. Named(y) = store.yields[y] /\ JoinsOn(y) = {} /\ y \in Nat
  BY <1>1, <1>4, MarkerFacts DEF Named, YieldInDag, JoinsOn, joins_on_batch, joins_for_owner_batch
<1>0. PICK id : id = store.yields[y]
  OBVIOUS
<1>6. /\ store'.joins = store.joins /\ store'.yields = Without(store.yields, {y})
      /\ hist'.again = hist.again \cup (hist.fired \cap {id})
      /\ hist'.fired = hist.fired \cup {id} /\ hist'.opened = hist.opened
      /\ hist'.joins = hist.joins /\ hist'.resumed = hist.resumed \cup {id} /\ id \in Ids
  <2>1. y \in Indices \cup DOMAIN store.yields
    OBVIOUS
  <2>2. id = Named(y)
    BY <1>0, <1>5
  <2> QED
    <3>1. /\ store'.joins = store.joins /\ store'.yields = Without(store.yields, {y})
          /\ hist'.again = hist.again \cup (hist.fired \cap {Named(y)})
          /\ hist'.fired = hist.fired \cup {Named(y)} /\ hist'.opened = hist.opened
          /\ hist'.joins = hist.joins /\ hist'.resumed = hist.resumed \cup {Named(y)}
          /\ Named(y) \in Ids
      BY <1>1, <1>3, <2>1, Resumed
    <3> QED
      BY <2>2, <3>1
<1>7. Ledger(store', hist') /\ DOMAIN store'.yields = {} /\ id \in DOMAIN hist.opened
  <2>1. Ledger(store, hist) /\ id = store.yields[y]
    BY <1>0, <1>2 DEF Settled
  <2>2. PICK s, g : s = store' /\ g = hist'
    OBVIOUS
  <2>3. /\ s.yields = Without(store.yields, {y})
        /\ g.again = hist.again \cup (hist.fired \cap {id})
        /\ g.fired = hist.fired \cup {id} /\ g.opened = hist.opened
        /\ g.joins = hist.joins /\ g.resumed = hist.resumed \cup {id} /\ id \in Ids
    BY <1>6, <2>2
  <2>4. Ledger(s, g)
    BY <2>1, <2>3, ResumeLedger
  <2>5. DOMAIN store.yields = {y} /\ DOMAIN hist.opened \ hist.resumed = {id}
    BY <2>1, OneOpen
  <2>6. DOMAIN s.yields = {}
    BY <2>3, <2>5 DEF Without
  <2> QED
    BY <2>2, <2>4, <2>5, <2>6
<1>8. JoinMarks(store', hist') /\ Dated(hist', tx')
  <2>1. DOMAIN hist.joins \ hist.fired = DOMAIN hist'.joins \ hist'.fired
    BY <1>2, <1>6, <1>7 DEF Settled, Ledger
  <2> QED
    BY <1>1, <1>2, <1>6, <1>7, <2>1 DEF Settled, JoinMarks, Dated
<1>9. frames' = <<Frame("joins", y, {})>>
  BY <1>3, <1>5 DEF promise_yield_resume
<1>10. Len(frames') = 1 /\ frames'[1].k = "joins" /\ frames'[1].todo = {}
  BY <1>5, <1>9, FrameIn
<1>11. Settled(saved.store, saved.hist)'
  BY <1>1, <1>2 DEF Settled
<1> QED
  BY <1>1, <1>2, <1>7, <1>8, <1>10, <1>11 DEF IInv, IdleInv, ResolveInv, Requesting

\* The whole of what is pending is run by the resolver.
LEMMA ResolverDelivers ==
  ASSUME IInv, ~Requesting, PendingDelivered
  PROVE  IInv'
<1>1. TypeInv /\ TypeInv' /\ frames # << >> /\ Top.k = "joins" /\ phase' = phase /\ dag' = dag
      /\ executed' = executed /\ saved' = saved /\ tx' = tx /\ frames' = Below
  BY TypeJoins DEF IInv, PendingDelivered, In
<1>2. /\ phase = "resolve" /\ dag = << >> /\ executed = {} /\ Len(frames) = 1
      /\ Ledger(store, hist) /\ JoinMarks(store, hist) /\ Dated(hist, tx)
      /\ DOMAIN store.yields = {} /\ Settled(saved.store, saved.hist)
  BY <1>1 DEF IInv, IdleInv, ResolveInv, Requesting, TypeInv
<1>3. hist \in Histories /\ store \in Markers /\ frames \in Seq(FrameSet)
  BY <1>1 DEF TypeInv
<1>4. frames' = << >>
  <2>1. Len(Below) = 0 /\ Below \in Seq(FrameSet)
    BY <1>1, <1>2, <1>3, BelowFacts
  <2> QED
    BY <1>1, <2>1, EmptySeq
<1> DEFINE ids == DOMAIN hist.joins \ hist.fired
<1>5. {store.joins[j] : j \in DOMAIN store.joins \ executed} = ids
  BY <1>2 DEF JoinMarks, Values
<1>6. hist' = Fire(hist, ids) /\ store' = [store EXCEPT !.joins = Empty]
  BY <1>5 DEF PendingDelivered
<1>7. ids \in SUBSET Ids
  BY <1>3, HistoryFacts
<1> HIDE DEF ids
<1>8. /\ hist'.fired = hist.fired \cup ids /\ hist'.opened = hist.opened
      /\ hist'.joins = hist.joins /\ hist'.resumed = hist.resumed
  BY <1>3, <1>6, <1>7, FireFacts
<1>9. store'.yields = store.yields /\ DOMAIN store'.joins = {}
  BY <1>3, <1>6, EmptyIn DEF Markers
<1>10. DOMAIN hist.opened \subseteq hist.resumed
  BY <1>2 DEF Ledger, Values
<1>11. Ledger(store', hist')
  <2>1. ids \cap hist.fired = {} /\ ids \cap DOMAIN hist.opened = {}
    BY <1>2 DEF Ledger, ids
  <2>2. \A id \in ids \cap DOMAIN hist.joins : Before(hist, id) \subseteq hist.resumed
    BY <1>10 DEF Before
  <2>3. Ledger(store, hist')
    BY <1>2, <1>3, <1>6, <1>7, <2>1, <2>2, FireLedger
  <2> QED
    BY <1>9, <2>3 DEF Ledger
<1>12. DOMAIN hist'.joins \subseteq hist'.fired
  BY <1>8 DEF ids
<1>13. JoinMarks(store', hist') /\ Delivered(hist') /\ Dated(hist', tx')
  BY <1>1, <1>2, <1>8, <1>9, <1>12 DEF JoinMarks, Delivered, Dated, Values, ids
<1>14. Settled(store, hist)' /\ Settled(saved.store, saved.hist)'
  BY <1>1, <1>2, <1>11, <1>13 DEF Settled
<1> QED
  BY <1>1, <1>2, <1>4, <1>14 DEF IInv, IdleInv, ResolveInv, Requesting

\* When no call is in progress the markers of the joins are exact.
LEMMA Closing ==
  ASSUME TypeInv, Parts, frames = << >>
  PROVE  Ledger(store, hist) /\ JoinMarks(store, hist) /\ Dated(hist, tx)
<1>1. /\ hist \in Histories /\ tx \in Nat /\ Len(frames) = 0 /\ Pending \subseteq Indices
  BY EmptySeq DEF TypeInv, Parts, MarkInv
<1>2. \A id \in DOMAIN hist.opened \cup DOMAIN hist.joins \cup hist.fired : id \in Ids
  BY <1>1, HistoryFacts
<1>3. Dated(hist, tx)
  BY <1>1, <1>2 DEF Dated, Parts, IdInv, Ids
<1>4. \A j \in Pending : store.joins[j] = <<tx, j>> /\ IsJoin(j) /\ ~Fired(j)
  BY DEF Parts, MarkInv, FiredInv
<1>5. \A j \in Pending : store.joins[j] \in DOMAIN hist.joins \ hist.fired
  BY <1>4 DEF IsJoin, Fired
<1>6. ASSUME NEW id \in DOMAIN hist.joins \ hist.fired
      PROVE  id[2] \in Pending /\ store.joins[id[2]] = id
  <2>1. id \in Ids /\ id[1] = tx /\ id[2] \in Indices
    BY <1>2 DEF Parts, IdInv
  <2>2. id = <<tx, id[2]>>
    BY <2>1 DEF Ids
  <2>3. IsJoin(id[2]) /\ ~Fired(id[2])
    BY <2>2 DEF IsJoin, Fired
  <2>4. ~ \E k \in 2 .. Len(frames) : Firing(k, id[2])
    BY <1>1
  <2>5. id[2] \in Pending
    BY <2>1, <2>3, <2>4 DEF Parts, FiredInv
  <2> QED
    BY <1>4, <2>2, <2>5
<1>7. JoinMarks(store, hist)
  BY <1>5, <1>6 DEF JoinMarks, Values, Pending
<1> QED
  BY <1>3, <1>7 DEF Parts

LEMMA EntryReturnsStep ==
  ASSUME IInv, EntryReturns
  PROVE  IInv'
<1>1. /\ TypeInv /\ TypeInv' /\ frames = << >> /\ phase \in {"request", "resolve"}
      /\ phase' = "drain" /\ UNCHANGED <<dag, executed, memo, yieldJoins, yieldOwner, current>>
      /\ UNCHANGED <<store, frames, tx, hist, saved>>
  BY TypeEntry DEF IInv, EntryReturns, threadLocal
<1>2. IdleInv'
  BY <1>1 DEF IInv, IdleInv, Settled
<1>3. CASE phase = "resolve"
  BY <1>1, <1>2, <1>3 DEF IInv, ResolveInv, Requesting, Settled
<1>4. CASE phase = "request"
  <2>1. Parts /\ Requesting
    BY <1>4 DEF IInv, Requesting
  <2>2. ResolveInv'
    <3>1. SUFFICES ASSUME dag = << >> PROVE ResolveInv'
      BY <1>1 DEF ResolveInv
    <3>2. executed = {} /\ Len(dag) = 0 /\ hist \in Histories
      BY <1>1, <1>4, <2>1, <3>1, EmptySeq DEF Parts, EntryInv, TypeInv
    <3>3. DOMAIN hist.joins \subseteq hist.fired
      BY <2>1, <3>2 DEF Parts, IdInv, Indices
    <3>4. Settled(store, hist)
      BY <1>1, <2>1, <3>3, Closing DEF Settled, Delivered
    <3>5. Settled(store, hist)'
      BY <1>1, <3>4 DEF Settled
    <3> QED
      BY <1>1, <3>1, <3>2, <3>5 DEF ResolveInv
  <2>3. Parts'
    <3>1. /\ Ledger(store, hist)' /\ DagInv' /\ IdInv' /\ OwnerInv' /\ MarkInv'
      BY <1>1, <2>1 DEF Parts, DagInv, IdInv, OwnerInv, MarkInv, Indices, Yield, Pending, IsJoin
    <3>2. FiredInv' /\ MemoInv' /\ EntryInv'
      BY <1>1, <2>1 DEF Parts, FiredInv, MemoInv, EntryInv, Indices, Yield, Pending, IsJoin,
           Fired, deps_own_open_yield, Begun, Ending, Firing
    <3>3. Len(frames) = 0 /\ ~Joining /\ ~Joining'
      BY <1>1, EmptySeq DEF Joining
    <3>4. ShapeInv' /\ RunInv'
      BY <1>1, <3>3 DEF ShapeInv, RunInv
    <3>5. TodoInv'
      <4>1. \A j \in Pending, y \in DOMAIN yieldOwner :
              ~(yieldOwner[y] = dag[j].dep /\ <<tx, y>> \in hist.resumed)
        BY <2>1, <3>3 DEF Parts, TodoInv
      <4> QED
        BY <1>1, <3>3, <4>1 DEF TodoInv, Pending
    <3> QED
      BY <3>1, <3>2, <3>4, <3>5 DEF Parts
  <2> QED
    BY <1>1, <1>2, <2>2, <2>3 DEF IInv
<1> QED
  BY <1>1, <1>3, <1>4

LEMMA EntryTrapsStep ==
  ASSUME IInv, EntryTraps
  PROVE  IInv'
<1>1. /\ TypeInv' /\ frames = << >> /\ phase \in {"request", "resolve"} /\ frames' = frames
      /\ phase' = "idle" /\ store' = saved.store /\ hist' = saved.hist /\ tx' = tx
  BY TypeEntry DEF IInv, EntryTraps
<1>2. Settled(saved.store, saved.hist)
  BY <1>1 DEF IInv, IdleInv
<1>3. Settled(store, hist)'
  BY <1>1, <1>2 DEF Settled
<1> QED
  BY <1>1, <1>3 DEF IInv, IdleInv, ResolveInv, Requesting

\* The drain ends: a join still pending waits for a yield.
LEMMA DrainEndsStep ==
  ASSUME IInv, DrainEnds
  PROVE  IInv'
<1>1. /\ TypeInv /\ TypeInv' /\ frames = << >> /\ phase = "drain" /\ frames' = frames
      /\ phase' = "idle" /\ store' = store /\ hist' = hist /\ tx' = tx
  BY TypeEntry DEF IInv, DrainEnds
<1>2. Settled(store, hist)
  <2>1. CASE dag = << >>
    BY <1>1, <2>1, FrameFacts DEF IInv, ResolveInv
  <2>2. CASE dag # << >>
    <3>1. Parts
      BY <1>1, <2>2 DEF IInv, Requesting
    <3>2. ASSUME NEW id \in DOMAIN hist.joins, Before(hist, id) \subseteq hist.resumed,
                 id \notin hist.fired
          PROVE  FALSE
      <4>1. JoinMarks(store, hist) /\ Len(frames) = 0 /\ ~Joining
        BY <1>1, <3>1, Closing, EmptySeq DEF Joining
      <4>2. PICK j \in Pending : store.joins[j] = id
        BY <3>2, <4>1 DEF JoinMarks, Values, Pending
      <4>3. /\ j \in Indices /\ id = <<tx, j>> /\ ~Fired(j) /\ dag[j].kind = "then"
            /\ is_yield_join(j)
        BY <3>1, <3>2, <4>2 DEF Parts, MarkInv, Fired, is_yield_join, Pending
      <4>4. deps_own_open_yield(j)
        <5>1. CASE j \in executed
          <6>1. ~Begun(j)
            BY <4>1 DEF Begun
          <6> QED
            BY <3>1, <4>3, <5>1, <6>1 DEF Parts, MemoInv, Yield
        <5>2. CASE j \notin executed
          BY <4>3, <5>2 DEF DrainEnds, Drainable
        <5> QED
          BY <5>1, <5>2
      <4>5. PICK y \in DOMAIN yieldOwner : yieldOwner[y] = dag[j].dep
        BY <4>4 DEF deps_own_open_yield
      <4>6. <<tx, y>> \in DOMAIN hist.opened /\ hist.opened[<<tx, y>>] = <<tx, dag[j].dep>>
        BY <3>1, <4>5 DEF Parts, OwnerInv
      <4>7. hist.joins[id] = <<tx, dag[j].dep>>
        <5>1. id[1] = tx /\ id[2] = j /\ tx \in Nat
          BY <1>1, <4>3 DEF TypeInv
        <5> QED
          BY <3>1, <3>2, <5>1 DEF Parts, IdInv
      <4>8. <<tx, y>> \in hist.resumed
        BY <3>2, <4>6, <4>7 DEF Before
      <4> QED
        BY <3>1, <4>1, <4>2, <4>5, <4>8 DEF Parts, TodoInv
    <3> QED
      BY <1>1, <3>1, <3>2, Closing DEF Settled, Delivered
  <2> QED
    BY <2>1, <2>2
<1>3. Settled(store, hist)'
  BY <1>1, <1>2 DEF Settled
<1> QED
  BY <1>1, <1>3 DEF IInv, IdleInv, ResolveInv, Requesting

-----------------------------------------------------------------------------
(* Calls in progress: what every step of the drain keeps *)

\* Batches stay as they are, joins and marks are only taken, and what was run
\* stays so.
Mono ==
  /\ tx' = tx /\ phase' = phase /\ saved' = saved
  /\ \A i \in Indices : i \in Indices' /\ dag'[i] = dag[i]
  /\ Pending' \subseteq Pending /\ yieldJoins' \subseteq yieldJoins
  /\ hist.fired \subseteq hist'.fired /\ memo \subseteq memo'

\* A step of a call is a step of a request, in its drain.
LEMMA InRequest ==
  ASSUME IInv, frames # << >>, Top.k # "joins"
  PROVE  phase = "drain" /\ dag # << >> /\ TypeInv /\ Parts
<1>1. Len(frames) \in Nat /\ Len(frames) >= 1 /\ TypeInv
  BY FrameFacts DEF IInv
<1>2. ~(Len(frames) = 1 /\ frames[1].k = "joins")
  BY DEF Top
<1>3. Requesting
  BY <1>2 DEF IInv, IdleInv, ResolveInv, Requesting, TypeInv
<1>4. Parts
  BY <1>3 DEF IInv
<1> QED
  BY <1>1, <1>3, <1>4 DEF Parts, ShapeInv, Requesting

LEMMA RequestStep ==
  ASSUME IInv, phase = "drain", dag # << >>, TypeInv', Mono, Parts'
  PROVE  IInv'
<1>1. Settled(saved.store, saved.hist)
  BY DEF IInv, IdleInv
<1>2. Settled(saved.store, saved.hist)' /\ phase' = "drain"
  BY <1>1 DEF Settled, Mono
<1>3. dag' # << >>
  <2>1. Len(dag) \in Nat /\ Len(dag) >= 1
    BY FrameFacts DEF IInv
  <2>2. 1 \in Indices'
    BY <2>1 DEF Mono, Indices
  <2> QED
    BY <2>2, EmptySeq DEF Indices
<1> QED
  BY <1>2, <1>3 DEF IInv, IdleInv, ResolveInv

\* In a request every marked join is in YIELD_JOINS: is_yield_join has nothing
\* to cache.
LEMMA Marked ==
  ASSUME MarkInv
  PROVE  /\ \A asked : Cached(asked) = yieldJoins
         /\ \A j : is_yield_join(j) <=> j \in yieldJoins
BY DEF MarkInv, Cached, is_yield_join, Pending

\* Below the top nothing depends on where the top is.
LEMMA BelowKept ==
  ASSUME TypeInv, ShapeInv, RunInv, Mono, frames # << >>, Keep,
         NEW k \in 1 .. Len(frames) - 1
  PROVE  /\ Placed(k)' /\ EndOK(k)' /\ (k >= 2 => Over(k)')
         /\ (Top.k # "enter" => RunOK(k)' /\ EnterOK(k)')
<1>1. /\ Len(frames) \in Nat /\ k \in Nat /\ k \in 1 .. Len(frames) /\ k # Len(frames)
      /\ frames'[k] = frames[k] /\ (k >= 2 => frames'[k - 1] = frames[k - 1])
  BY FrameFacts DEF Keep
<1>2. Placed(k)
  BY <1>1 DEF ShapeInv
<1>3. Placed(k)'
  BY <1>1, <1>2 DEF Placed, Mono
<1>4. frames[k].k = "end" => frames[k].b \in Indices
  BY <1>2 DEF Placed
<1>5. EndOK(k)
  BY <1>1 DEF RunInv
<1>6. EndOK(k)'
  BY <1>1, <1>4, <1>5 DEF EndOK, Mono, Yield, Fired
<1>7. ASSUME k >= 2 PROVE Over(k)'
  <2>1. Over(k) /\ k - 1 \in 1 .. Len(frames) - 1 /\ k \in 2 .. Len(frames)
    BY <1>1, <1>7 DEF ShapeInv
  <2>2. frames[k - 1].k # "run"
    BY <1>1, <2>1, TopFacts
  <2>3. frames[k - 1].k = "end" => frames[k].k = "joins"
    BY <1>1, <2>1 DEF Over
  <2>4. frames[k - 1].k = "joins" =>
          /\ frames[k].k \in Calls /\ frames[k].b \in Indices /\ ~Yield(frames[k].b)
          /\ frames[k].b \notin Pending \cup yieldJoins
    BY <1>2, <2>1 DEF Over, Placed, Calls
  <2>5. frames[k - 1].k = "joins" => ~Yield(frames[k].b)'
    BY <1>1, <2>4 DEF Mono, Yield
  <2>6. frames[k - 1].k = "joins" => frames[k].b \notin (Pending \cup yieldJoins)'
    BY <2>4 DEF Mono
  <2> QED
    BY <1>1, <1>7, <2>1, <2>2, <2>3, <2>4, <2>5, <2>6 DEF Over
<1>8. ASSUME Top.k # "enter" PROVE RunOK(k)' /\ EnterOK(k)'
  <2>1. frames[k].k # "enter" /\ frames[k].k # "run"
    BY <1>8, TopFacts
  <2> QED
    BY <1>1, <2>1 DEF RunOK, EnterOK
<1> QED
  BY <1>3, <1>6, <1>7, <1>8

LEMMA BegunKept ==
  ASSUME TypeInv, frames # << >>, Keep, Len(frames') \in Nat,
         Len(frames') >= Len(frames) - 1, NEW i
  PROVE  /\ Begun(i) => Begun(i)' \/ (Top.k \in Calls /\ Top.b = i)
         /\ Ending(i) => Ending(i)' \/ (Top.k = "end" /\ Top.b = i)
         /\ Joining => Joining' \/ Top.k = "joins"
<1>1. Len(frames) \in Nat
  BY FrameFacts
<1>2. \A k \in 1 .. Len(frames) : k = Len(frames) \/ (k \in 1 .. Len(frames') /\ frames'[k] = frames[k])
  BY <1>1 DEF Keep
<1> QED
  BY <1>2 DEF Begun, Ending, Joining, Top

LEMMA FiringKept ==
  ASSUME TypeInv, frames # << >>, Keep, Len(frames') \in Nat,
         Len(frames') >= Len(frames) - 1, NEW j, NEW k \in 2 .. Len(frames), Firing(k, j)
  PROVE  (\E l \in 2 .. Len(frames') : Firing(l, j)') \/ k = Len(frames)
<1>1. Len(frames) \in Nat
  BY FrameFacts
<1>2. CASE k # Len(frames)
  <2>1. k \in 2 .. Len(frames') /\ frames'[k] = frames[k] /\ frames'[k - 1] = frames[k - 1]
    BY <1>1, <1>2 DEF Keep
  <2>2. Firing(k, j)'
    BY <2>1 DEF Firing
  <2> QED
    BY <2>1, <2>2
<1> QED
  BY <1>2

-----------------------------------------------------------------------------
(* Calls in progress: the steps that leave markers and history alone *)

Still ==
  /\ UNCHANGED <<dag, yieldJoins, yieldOwner, store, phase, tx, hist, saved>>
  /\ memo \subseteq memo'

LEMMA StillStatic ==
  ASSUME Parts, Still, phase = "drain"
  PROVE  /\ Mono /\ Ledger(store, hist)' /\ DagInv' /\ IdInv' /\ OwnerInv' /\ MarkInv'
         /\ EntryInv' /\ Indices' = Indices /\ Pending' = Pending
         /\ \A i : /\ Fired(i)' <=> Fired(i)
                   /\ IsJoin(i)' <=> IsJoin(i)
                   /\ Yield(i)' <=> Yield(i)
                   /\ Waited(i)' <=> Waited(i)
                   /\ Deferred(i)' <=> Deferred(i)
                   /\ deps_own_open_yield(i)' <=> deps_own_open_yield(i)
<1>1. Indices' = Indices /\ Pending' = Pending /\ tx' = tx /\ dag' = dag /\ hist' = hist
      /\ store' = store /\ yieldOwner' = yieldOwner /\ yieldJoins' = yieldJoins
      /\ memo \subseteq memo' /\ phase' = phase /\ saved' = saved
  BY DEF Still, Indices, Pending
<1>2. \A i : /\ Fired(i)' <=> Fired(i)
             /\ IsJoin(i)' <=> IsJoin(i)
             /\ Yield(i)' <=> Yield(i)
             /\ Waited(i)' <=> Waited(i)
             /\ deps_own_open_yield(i)' <=> deps_own_open_yield(i)
  BY <1>1 DEF Fired, IsJoin, Yield, Waited, deps_own_open_yield
<1>3. \A i : Deferred(i)' <=> Deferred(i)
  BY <1>1, <1>2 DEF Deferred, is_yield_join
<1>4. Mono
  BY <1>1 DEF Mono
<1>5. Ledger(store, hist)' /\ DagInv' /\ EntryInv'
  BY <1>1 DEF Parts, DagInv, EntryInv
<1>6. IdInv' /\ OwnerInv'
  BY <1>1, <1>2 DEF Parts, IdInv, OwnerInv
<1>7. MarkInv'
  BY <1>1, <1>2 DEF Parts, MarkInv
<1> QED
  BY <1>1, <1>2, <1>3, <1>4, <1>5, <1>6, <1>7

\* A call leaves the stack.
LEMMA PopParts ==
  ASSUME TypeInv, TypeInv', Parts, phase = "drain", Still, frames # << >>, Pop,
         memo' \subseteq Indices,
         \A i \in memo' : i \in memo \/ Yield(i) \/ Fired(i)
                          \/ (i \in Pending /\ deps_own_open_yield(i)),
         \A i \in executed' : i \in memo' \/ Begun(i)',
         Top.k = "end" => Top.b \in memo',
         Top.k = "run" => FALSE,
         Top.k = "enter" => frames[Len(frames) - 1].k # "joins",
         Top.k = "joins" => Pending = {},
         Top.k = "outer" => Pending = {},
         Joining' => Pending \cap memo' = {},
         RunInv'
  PROVE  Parts'
<1> USE DEF Parts
<1>1. /\ Len(frames) \in Nat /\ Len(frames) >= 1 /\ Len(frames') = Len(frames) - 1 /\ Keep
      /\ Len(frames') \in Nat /\ Len(frames') >= Len(frames) - 1
  BY FrameFacts DEF Pop
<1>2. /\ Mono /\ Ledger(store, hist)' /\ DagInv' /\ IdInv' /\ OwnerInv' /\ MarkInv'
      /\ EntryInv' /\ Indices' = Indices /\ Pending' = Pending
      /\ \A i : /\ Fired(i)' <=> Fired(i)
                /\ IsJoin(i)' <=> IsJoin(i)
                /\ Yield(i)' <=> Yield(i)
                /\ Waited(i)' <=> Waited(i)
                /\ deps_own_open_yield(i)' <=> deps_own_open_yield(i)
  BY StillStatic
<1>3. dag' = dag /\ hist' = hist /\ store' = store /\ yieldOwner' = yieldOwner /\ tx' = tx
      /\ memo \subseteq memo' /\ phase' = phase
  BY DEF Still
<1>4. FiredInv'
  <2>1. ASSUME NEW j \in Pending, Fired(j) PROVE frames' # << >> /\ frames'[1].b = j
    <3>1. frames[1].b = j /\ Top.k # "outer"
      BY <2>1 DEF FiredInv
    <3>2. Len(frames) >= 2
      BY <3>1, TopFacts
    <3>3. Len(frames') # 0 /\ 1 \in 1 .. Len(frames) - 1
      BY <1>1, <3>2
    <3> QED
      BY <1>1, <3>1, <3>3, EmptySeq DEF Keep
  <2>2. ASSUME NEW j \in Indices, IsJoin(j), ~Fired(j), j \notin Pending
        PROVE  \E l \in 2 .. Len(frames') : Firing(l, j)'
    <3>1. PICK k \in 2 .. Len(frames) : Firing(k, j)
      BY <2>2 DEF FiredInv
    <3>2. k # Len(frames)
      BY <1>1, <3>1 DEF Firing, Top
    <3> QED
      BY <1>1, <3>1, <3>2, FiringKept
  <2> QED
    BY <1>2, <2>1, <2>2 DEF FiredInv
<1>5. MemoInv'
  <2>1. \A i \in memo' : Yield(i) \/ Fired(i) \/ (i \in Pending /\ deps_own_open_yield(i))
    BY DEF MemoInv
  <2>2. ASSUME NEW i \in Indices, Fired(i), ~Yield(i) PROVE i \in memo' \/ Ending(i)'
    <3>1. i \in memo \/ Ending(i)
      BY <2>2 DEF MemoInv
    <3>2. Ending(i) => Ending(i)' \/ (Top.k = "end" /\ Top.b = i)
      BY <1>1, BegunKept
    <3> QED
      BY <1>3, <3>1, <3>2
  <2>3. \A i \in Indices : Fired(i) /\ IsJoin(i) => dag[i].dep \in memo'
    BY <1>3 DEF MemoInv
  <2> QED
    BY <1>2, <1>3, <2>1, <2>2, <2>3 DEF MemoInv
<1>6. ShapeInv'
  <2>1. \A k \in 1 .. Len(frames) - 1 : Placed(k)' /\ (k >= 2 => Over(k)')
    BY <1>1, <1>2, BelowKept
  <2> QED
    BY <1>1, <1>3, <2>1 DEF ShapeInv
<1>7. TodoInv'
  <2>1. \A k \in 1 .. Len(frames') : k \in 1 .. Len(frames) /\ frames'[k] = frames[k]
    BY <1>1 DEF Keep
  <2>2. \A k \in 1 .. Len(frames') : frames'[k].k = "joins" => frames'[k].todo = Pending'
    BY <1>2, <2>1 DEF TodoInv
  <2>3. \A k, l \in 1 .. Len(frames') :
          k < l /\ frames'[k].k = "joins" /\ frames'[l].k = "joins" => Pending' = {}
    BY <1>2, <2>1 DEF TodoInv
  <2>4. ASSUME Joining', NEW j \in Pending PROVE Ready(j)'
    <3>1. Joining
      BY <2>1, <2>4 DEF Joining
    <3>2. Ready(j) /\ j \notin memo'
      BY <2>4, <3>1 DEF TodoInv
    <3>3. Len(frames') >= 1 /\ frames'[1] = frames[1]
      BY <1>1, <2>1, <2>4 DEF Joining
    <3>4. \A y : OwnerOf(y)' = OwnerOf(y)
      BY <1>3 DEF OwnerOf
    <3> QED
      BY <1>2, <1>3, <3>2, <3>3, <3>4 DEF Ready
  <2>5. ASSUME NEW j \in Pending, NEW y \in DOMAIN yieldOwner,
               yieldOwner[y] = dag[j].dep, <<tx, y>> \in hist.resumed
        PROVE  Joining'
    <3>1. Joining /\ Top.k # "joins"
      BY <2>5 DEF TodoInv
    <3> QED
      BY <1>1, <3>1, BegunKept
  <2> QED
    BY <1>2, <1>3, <2>2, <2>3, <2>4, <2>5 DEF TodoInv
<1> QED
  BY <1>2, <1>4, <1>5, <1>6, <1>7

\* A batch is entered from the drain, from a resume, by a call that returns its
\* yield, or by the batch that depends on it.
LEMMA Entering ==
  ASSUME TypeInv, Parts, frames # << >>, Top.k = "enter"
  PROVE  /\ Len(frames) \in Nat /\ Len(frames) >= 2 /\ Top.b \in Indices /\ Top.b \in Nat
         /\ frames[Len(frames) - 1].k \in {"outer", "run", "end", "joins"}
         /\ frames[Len(frames) - 1].k = "outer" =>
              /\ Len(frames) = 2 /\ Top.b = frames[1].b /\ ~Deferred(Top.b)
              /\ dag[Top.b].dep = 0 \/ dag[Top.b].dep \in memo \/ Deferred(dag[Top.b].dep)
         /\ frames[Len(frames) - 1].k = "end" =>
              Yield(Top.b) /\ Top.b \notin memo
         /\ frames[Len(frames) - 1].k = "joins" =>
              /\ ~Yield(Top.b) /\ Top.b \notin Pending \cup yieldJoins
              /\ Top.b \notin memo /\ ~Fired(Top.b) /\ dag[Top.b].dep \in memo
              /\ Waited(Top.b)
<1>1. /\ Len(frames) \in Nat /\ Len(frames) >= 2 /\ Top = frames[Len(frames)]
      /\ Top.b \in Indices
  BY TopFacts DEF Parts
<1>2. Over(Len(frames)) /\ EnterOK(Len(frames)) /\ Placed(Len(frames) - 1)
  <2>1. /\ Len(frames) \in 2 .. Len(frames) /\ Len(frames) \in 1 .. Len(frames)
        /\ Len(frames) - 1 \in 1 .. Len(frames)
    BY <1>1
  <2> QED
    BY <2>1 DEF Parts, ShapeInv, RunInv
<1>3. frames[Len(frames) - 1].k \in {"outer", "run", "end", "joins"}
  <2>1. Len(frames) - 1 \in 1 .. Len(frames)
    BY <1>1
  <2>2. frames[Len(frames) - 1].k \in {"outer", "enter", "run", "end", "joins"}
    BY <2>1, FrameFacts
  <2> QED
    BY <1>2, <2>2 DEF Over
<1>4. Top.b \in Nat
  BY <1>1, FrameFacts DEF Indices
<1>5. frames[Len(frames) - 1].k = "outer" => Len(frames) = 2
  BY <1>1, <1>2 DEF Placed
<1> QED
  BY <1>1, <1>2, <1>3, <1>4, <1>5 DEF Over, EnterOK

LEMMA OverRun ==
  ASSUME TypeInv, Parts, frames # << >>, Top.k = "enter", frames[Len(frames) - 1].k = "run"
  PROVE  /\ Len(frames) - 1 \in 1 .. Len(frames) /\ RunOK(Len(frames) - 1)
         /\ frames[Len(frames) - 1].b \in Indices
         /\ Top.b = dag[frames[Len(frames) - 1].b].dep
         /\ Top.b < frames[Len(frames) - 1].b
         /\ Top.b \in memo \/ (Len(frames) = 3 /\ frames[1].k = "outer")
<1>1. /\ Len(frames) \in Nat /\ Len(frames) >= 2 /\ Top = frames[Len(frames)]
  BY TopFacts DEF Parts
<1> DEFINE n == Len(frames)
           b == frames[n - 1].b
<1>2. n - 1 \in 1 .. n /\ n \in 2 .. n
  BY <1>1
<1>3. Placed(n - 1) /\ Over(n) /\ RunOK(n - 1)
  BY <1>2 DEF Parts, ShapeInv, RunInv
<1>4. b \in Indices /\ Top.b = dag[b].dep
  BY <1>1, <1>3 DEF Placed, Over
<1>0. n \in Nat /\ n >= 3
  <2>1. n - 1 # 1
    BY <1>3 DEF Placed
  <2>2. n \in Nat /\ n >= 2
    BY <1>1
  <2> HIDE DEF n
  <2> QED
    BY <2>1, <2>2
<1>5. dag[b].dep < b
  BY <1>4 DEF Parts, DagInv
<1>6. n - 1 \in 2 .. n /\ (n - 1) - 1 = n - 2 /\ n - 2 \in 1 .. n
  BY <1>0
<1>7. Over(n - 1) /\ Placed(n - 2) /\ Placed(1)
  <2>1. 1 \in 1 .. n
    BY <1>1
  <2> QED
    BY <1>6, <2>1 DEF Parts, ShapeInv
<1>8. frames[n - 2].k \in {"outer", "joins"}
  <2>1. frames[n - 2].k \in {"outer", "enter", "run", "end", "joins"}
    <3>1. \A k \in 1 .. n : frames[k].k \in {"outer", "enter", "run", "end", "joins"}
      BY FrameFacts
    <3> HIDE DEF n
    <3> QED
      BY ONLY <1>6, <3>1, Zenon
  <2>2. n - 1 # n
    BY <1>1
  <2> QED
    BY <1>6, <1>7, <2>1, <2>2, ZenonT(30) DEF Over
<1>9. b \in Indices /\ Top.b = dag[b].dep /\ Top.b < b
  BY <1>4, <1>5
<1>10. CASE frames[n - 2].k = "outer"
  <2>1. n - 2 = 1
    BY <1>7, <1>10, Zenon DEF Placed
  <2>2. n = 3
    <3> HIDE DEF n
    <3> QED
      BY <1>0, <2>1
  <2>3. frames[1].k = "outer"
    BY <1>10, <2>1, Zenon
  <2> QED
    BY <1>2, <1>3, <1>9, <2>2, <2>3, Zenon
<1>11. CASE frames[n - 2].k = "joins"
  <2>1. Top.b \in memo
    BY <1>3, <1>4, <1>6, <1>11, ZenonT(30) DEF RunOK
  <2> QED
    BY <1>2, <1>3, <1>9, <2>1, Zenon
<1> QED
  BY <1>8, <1>10, <1>11, Zenon

LEMMA MemoizedStep ==
  ASSUME IInv, Memoized
  PROVE  IInv'
<1>1. /\ frames # << >> /\ Top.k = "enter" /\ Top.b \in memo /\ executed' = executed \cup {Top.b}
      /\ frames' = Below /\ memo' = memo /\ current' = current
      /\ UNCHANGED <<dag, yieldJoins, yieldOwner, store, phase, tx, hist, saved>>
  BY DEF Memoized, In
<1>2. phase = "drain" /\ dag # << >> /\ TypeInv /\ Parts
  BY <1>1, InRequest
<1>3. TypeInv' /\ Still /\ Pop
  BY <1>1, <1>2, TypeControl, Popped DEF Parts, Still, TypeInv
<1>4. Mono /\ Pending' = Pending
      /\ \A i : (Fired(i)' <=> Fired(i)) /\ (IsJoin(i)' <=> IsJoin(i))
                /\ (Yield(i)' <=> Yield(i)) /\ (Waited(i)' <=> Waited(i))
  BY <1>2, <1>3, StillStatic
<1> DEFINE n == Len(frames)
<1>5. /\ n \in Nat /\ n >= 2 /\ Len(frames') = n - 1 /\ Keep /\ Len(frames') \in Nat
      /\ frames[n - 1].k # "joins" /\ frames[n - 1].k # "end"
      /\ frames[n - 1].k = "outer" => n = 2 /\ Top.b = frames[1].b /\ ~Deferred(Top.b)
  BY <1>1, <1>2, <1>3, Entering DEF Pop
<1>6. \A i \in executed' : i \in memo' \/ Begun(i)'
  BY <1>1, <1>2, <1>5, BegunKept DEF Parts, MemoInv
<1>7. Joining' => Pending \cap memo' = {}
  <2>1. Joining' => Joining
    BY <1>5 DEF Joining, Keep
  <2> QED
    BY <1>1, <1>2, <2>1 DEF Parts, TodoInv, Ready
<1>8. RunInv'
  <2>1. ASSUME NEW k \in 1 .. n - 1 PROVE RunOK(k)' /\ EndOK(k)' /\ EnterOK(k)'
    <3>1. /\ frames'[k] = frames[k] /\ frames[k].k # "enter" /\ k \in 1 .. n
          /\ frames[k].k = "run" => k = n - 1
      BY <1>1, <1>2, <1>5, TopFacts DEF Parts, Keep
    <3>2. EndOK(k)' /\ EnterOK(k)'
      BY <1>1, <1>2, <1>4, <1>5, <3>1, BelowKept DEF Parts, EnterOK
    <3>3. CASE frames[k].k = "run"
      <4>1. /\ k = n - 1 /\ RunOK(k) /\ Top.b = dag[frames[k].b].dep /\ k # 1
        BY <1>1, <1>2, <1>5, <3>1, <3>3, OverRun DEF Parts, ShapeInv, Placed
      <4>2. frames'[k - 1] = frames[k - 1]
        BY <1>5, <4>1 DEF Keep
      <4> QED
        BY <1>1, <1>4, <1>5, <3>1, <3>2, <3>3, <4>1, <4>2 DEF RunOK
    <3>4. CASE frames[k].k # "run"
      BY <3>1, <3>2, <3>4 DEF RunOK
    <3> QED
      BY <3>3, <3>4
  <2>2. ASSUME Len(frames') = 1 PROVE (Yield(frames[1].b) \/ Fired(frames[1].b))'
    <3>1. n = 2
      <4>1. PICK m : m = n
        OBVIOUS
      <4>2. m \in Nat /\ Len(frames') = m - 1
        BY <1>5, <4>1, Zenon
      <4>3. m - 1 = 1
        BY <2>2, <4>2, Zenon
      <4>4. m = 2
        BY ONLY <4>2, <4>3
      <4> QED
        BY <4>1, <4>4, Zenon
    <3>5. frames'[1] = frames[1] /\ Placed(1)
      BY <1>2, <1>5, <3>1 DEF Keep, Parts, ShapeInv
    <3>2. Yield(Top.b) \/ Fired(Top.b) \/ (Top.b \in Pending /\ deps_own_open_yield(Top.b))
      BY <1>1, <1>2 DEF Parts, MemoInv
    <3>3. Top.b = frames[1].b /\ ~Deferred(Top.b)
      BY <1>5, <3>1, <3>5 DEF Placed
    <3>4. ~(Top.b \in Pending /\ deps_own_open_yield(Top.b))
      BY <3>3 DEF Deferred, is_yield_join, Pending
    <3> QED
      BY <1>1, <3>2, <3>3, <3>4, <3>5 DEF Yield, Fired
  <2> QED
    BY <1>5, <2>1, <2>2 DEF RunInv
<1>9. Parts'
  <2>1. memo' \subseteq Indices
    BY <1>1, <1>2 DEF Parts, MemoInv
  <2> QED
    BY <1>1, <1>2, <1>3, <1>5, <1>6, <1>7, <1>8, <2>1, PopParts
<1> QED
  BY <1>2, <1>3, <1>4, <1>9, RequestStep

\* Only the dependency of a batch that the drain has begun is found deferred.
LEMMA JoinDeferredStep ==
  ASSUME IInv, JoinDeferred
  PROVE  IInv'
<1>1. /\ frames # << >> /\ Top.k = "enter" /\ Top.b \notin memo /\ Deferred(Top.b)
      /\ memo' = memo \cup {Top.b} /\ current' = 0 /\ yieldJoins' = Cached({Top.b})
      /\ frames' = Below /\ executed' = executed
      /\ UNCHANGED <<dag, yieldOwner, store, phase, tx, hist, saved>>
  BY DEF JoinDeferred, In, Deferred
<1>2. phase = "drain" /\ dag # << >> /\ TypeInv /\ Parts
  BY <1>1, InRequest
<1>3. TypeInv' /\ Still /\ Pop
  <2>1. yieldJoins' = yieldJoins
    BY <1>1, <1>2, Marked DEF Parts
  <2> QED
    BY <1>1, <1>2, <2>1, TypeControl, Popped DEF Parts, Still, TypeInv
<1>4. Mono /\ Pending' = Pending
      /\ \A i : (Fired(i)' <=> Fired(i)) /\ (IsJoin(i)' <=> IsJoin(i))
                /\ (Yield(i)' <=> Yield(i)) /\ (Waited(i)' <=> Waited(i))
  BY <1>2, <1>3, StillStatic
<1>5. Top.b \in yieldJoins /\ Top.b \in Pending /\ ~Yield(Top.b)
  <2>1. Top.b \in yieldJoins
    BY <1>1, <1>2, Marked DEF Parts, Deferred
  <2> QED
    BY <1>1, <1>2, <2>1 DEF Parts, MarkInv, Yield
<1> DEFINE n == Len(frames)
<1>6. n \in Nat /\ n >= 2 /\ frames[n - 1].k = "run" /\ Top.b \in Indices
  BY <1>1, <1>2, <1>5, Entering
<1>7. /\ n = 3 /\ frames[1].k = "outer" /\ RunOK(n - 1) /\ frames[n - 1].b \in Indices
      /\ Top.b = dag[frames[n - 1].b].dep /\ Top.b < frames[n - 1].b
  BY <1>1, <1>2, <1>6, OverRun
<1>8. /\ Keep /\ Len(frames') = 2 /\ frames'[1] = frames[1] /\ frames'[2] = frames[2]
      /\ frames[2].k = "run"
  <2>1. Len(frames') = 3 - 1 /\ \A k \in 1 .. 3 - 1 : frames'[k] = frames[k]
    BY <1>3, <1>7, Zenon DEF Pop, Keep
  <2>2. frames[3 - 1].k = "run"
    BY <1>6, <1>7, Zenon
  <2>3. 3 - 1 = 2 /\ 1 \in 1 .. 3 - 1 /\ 2 \in 1 .. 3 - 1
    OBVIOUS
  <2>4. Keep
    BY <1>3 DEF Pop
  <2> QED
    BY <2>1, <2>2, <2>3, <2>4, Zenon
<1>9. \A i \in executed' : i \in memo' \/ Begun(i)'
  <2>1. Len(frames') \in Nat /\ Len(frames') >= Len(frames) - 1
    BY <1>7, <1>8
  <2> QED
    BY <1>1, <1>2, <1>8, <2>1, BegunKept DEF Parts, MemoInv
<1>10. ~Joining'
  BY <1>7, <1>8 DEF Joining
<1>11. RunInv'
  <2>1. RunOK(1)' /\ EndOK(1)' /\ EnterOK(1)' /\ EndOK(2)' /\ EnterOK(2)'
    BY <1>7, <1>8 DEF RunOK, EndOK, EnterOK
  <2>2. RunOK(2) /\ Top.b = dag[frames[2].b].dep /\ Top.b < frames[2].b /\ frames[2].b \in Nat
        /\ Top.b \in Nat
    <3>1. 3 - 1 = 2 /\ n - 1 = 3 - 1
      BY <1>7
    <3>2. /\ RunOK(3 - 1) /\ Top.b = dag[frames[3 - 1].b].dep /\ Top.b < frames[3 - 1].b
      BY <1>7, <3>1, Zenon
    <3>3. frames[2].b \in Nat /\ Top.b \in Nat
      BY <1>2, <1>6, <1>7, FrameFacts DEF Indices
    <3> QED
      BY <3>2, <3>3
  <2>3. Top.b # frames[2].b
    BY <2>2
  <2>6. DOMAIN store.yields # {}
    <3>1. ~Joining
      <4>1. frames[3].k = "enter" /\ 1 .. 3 = {1, 2, 3}
        BY <1>1, <1>7 DEF Top
      <4> QED
        BY <1>7, <1>8, <4>1 DEF Joining
    <3>2. PICK y \in DOMAIN yieldOwner : yieldOwner[y] = dag[Top.b].dep
      BY <1>1 DEF Deferred, deps_own_open_yield
    <3>3. <<tx, y>> \in DOMAIN hist.opened \ hist.resumed
      BY <1>2, <1>5, <3>1, <3>2 DEF Parts, TodoInv, OwnerInv
    <3> QED
      BY <1>2, <3>3 DEF Parts, Ledger, Values
  <2>4. RunOK(2)'
    BY <1>1, <1>4, <1>7, <1>8, <2>2, <2>3, <2>6 DEF RunOK
  <2>5. 1 .. 2 = {1, 2}
    OBVIOUS
  <2> QED
    BY <1>8, <2>1, <2>4, <2>5 DEF RunInv
<1>12. Parts'
  <2>1. memo' \subseteq Indices
    BY <1>1, <1>2, <1>6 DEF Parts, MemoInv
  <2>2. \A i \in memo' : i \in memo \/ Yield(i) \/ Fired(i)
                          \/ (i \in Pending /\ deps_own_open_yield(i))
    BY <1>1, <1>5 DEF Deferred
  <2>3. frames[Len(frames) - 1].k # "joins"
    BY <1>6
  <2> QED
    BY <1>1, <1>2, <1>3, <1>9, <1>10, <1>11, <2>1, <2>2, <2>3, PopParts
<1> QED
  BY <1>2, <1>3, <1>4, <1>12, RequestStep

LEMMA BatchEndsStep ==
  ASSUME IInv, BatchEnds
  PROVE  IInv'
<1>1. /\ frames # << >> /\ Top.k = "end" /\ memo' = memo \cup {Top.b} /\ current' = 0
      /\ frames' = Below /\ executed' = executed
      /\ UNCHANGED <<dag, yieldJoins, yieldOwner, store, phase, tx, hist, saved>>
  BY DEF BatchEnds, In
<1>2. phase = "drain" /\ dag # << >> /\ TypeInv /\ Parts
  BY <1>1, InRequest
<1>3. TypeInv' /\ Still /\ Pop
  BY <1>1, <1>2, TypeControl, Popped DEF Parts, Still, TypeInv
<1>4. Mono
  BY <1>2, <1>3, StillStatic
<1> DEFINE n == Len(frames)
<1>5. /\ n \in Nat /\ n >= 2 /\ Top = frames[n] /\ Top.b \in Indices /\ Len(frames') = n - 1
      /\ Keep /\ Len(frames') \in Nat /\ Len(frames') >= Len(frames) - 1
  BY <1>1, <1>2, <1>3, TopFacts DEF Parts, Pop
<1>6. Yield(Top.b) \/ Fired(Top.b)
  BY <1>1, <1>2, <1>5 DEF Parts, RunInv, EndOK
<1>7. \A i \in executed' : i \in memo' \/ Begun(i)'
  BY <1>1, <1>2, <1>5, BegunKept DEF Parts, MemoInv
<1>8. Joining' => Pending \cap memo' = {}
  <2>1. SUFFICES ASSUME Joining', NEW j \in Pending PROVE j \notin memo'
    OBVIOUS
  <2>2. Joining
    BY <1>5, <2>1 DEF Joining, Keep
  <2>3. j \notin memo /\ j # frames[1].b /\ dag[j].kind = "then"
    BY <1>2, <2>1, <2>2 DEF Parts, TodoInv, Ready, MarkInv
  <2>4. j # Top.b
    BY <1>2, <1>6, <2>1, <2>3 DEF Parts, FiredInv, Yield
  <2> QED
    BY <1>1, <2>3, <2>4
<1>9. RunInv'
  <2>1. \A k \in 1 .. n - 1 : RunOK(k)' /\ EndOK(k)' /\ EnterOK(k)'
    BY <1>1, <1>2, <1>4, <1>5, BelowKept DEF Parts
  <2>2. ASSUME Len(frames') = 1 PROVE (Yield(frames[1].b) \/ Fired(frames[1].b))'
    <3>1. n = 2
      <4>1. n \in Nat /\ n - 1 = 1
        BY <1>5, <2>2
      <4> HIDE DEF n
      <4> QED
        BY <4>1
    <3>2. frames'[1] = frames[1] /\ Placed(1) /\ Over(2) /\ Top = frames[2]
      BY <1>2, <1>5, <3>1 DEF Keep, Parts, ShapeInv
    <3>3. Top.b = frames[1].b
      BY <3>2 DEF Placed, Over
    <3> QED
      BY <1>1, <1>6, <3>2, <3>3 DEF Yield, Fired
  <2> QED
    BY <1>5, <2>1, <2>2 DEF RunInv
<1>10. Parts'
  <2>1. memo' \subseteq Indices
    BY <1>1, <1>2, <1>5 DEF Parts, MemoInv
  <2>2. \A i \in memo' : i \in memo \/ Yield(i) \/ Fired(i)
    BY <1>1, <1>6
  <2> QED
    BY <1>1, <1>2, <1>3, <1>7, <1>8, <1>9, <2>1, <2>2, PopParts
<1> QED
  BY <1>2, <1>3, <1>4, <1>10, RequestStep

\* In the transaction of a request nothing is pending when the joins of its DAG
\* have run.
LEMMA RequestDelivers ==
  ASSUME IInv, Requesting, PendingDelivered
  PROVE  IInv'
<1>1. /\ frames # << >> /\ Top.k = "joins" /\ Top.todo = {} /\ memo' = memo /\ current' = current
      /\ yieldJoins' = yieldJoins \ Pending /\ store' = [store EXCEPT !.joins = Empty]
      /\ hist' = Fire(hist, {store.joins[j] : j \in Pending \ executed})
      /\ frames' = Below /\ executed' = executed
      /\ UNCHANGED <<dag, yieldOwner, phase, tx, saved>>
  BY DEF PendingDelivered, In, Pending
<1>2. phase = "drain" /\ dag # << >> /\ TypeInv /\ Parts
  BY <1>1 DEF IInv, Requesting, Parts, ShapeInv
<1> DEFINE n == Len(frames)
<1>3. n \in Nat /\ n >= 2 /\ Top = frames[n]
  BY <1>1, <1>2, TopFacts DEF Parts
<1>4. Pending = {}
  BY <1>1, <1>2, <1>3 DEF Parts, TodoInv
<1>5. store' = store /\ hist' = hist /\ yieldJoins' = yieldJoins
  <2>1. store \in Markers /\ hist \in Histories
    BY <1>2 DEF TypeInv
  <2>2. store.joins = Empty
    <3>1. store.joins \in Maps(Nat, Ids)
      BY <2>1, MarkerFacts
    <3>2. store.joins \in [{} -> Ids]
      BY <1>4, <3>1, MapFacts, Zenon DEF Pending
    <3> QED
      BY <3>2 DEF Empty
  <2>3. store' = store
    BY <1>1, <2>1, <2>2 DEF Markers
  <2>4. hist' = Fire(hist, {})
    BY <1>1, <1>4
  <2>5. hist' = hist
    BY <2>1, <2>4 DEF Fire, Histories
  <2> QED
    BY <1>1, <1>4, <2>3, <2>5
<1>6. TypeInv' /\ Still /\ Pop
  BY <1>1, <1>2, <1>5, TypeJoins, Popped DEF Still, TypeInv
<1>7. Mono
  BY <1>2, <1>6, StillStatic
<1>8. /\ Len(frames') = n - 1 /\ Keep /\ Len(frames') \in Nat /\ Len(frames') >= Len(frames) - 1
  BY <1>3, <1>6 DEF Pop
<1>9. \A i \in executed' : i \in memo' \/ Begun(i)'
  BY <1>1, <1>2, <1>8, BegunKept DEF Parts, MemoInv, Calls
<1>10. RunInv'
  <2>1. \A k \in 1 .. n - 1 : RunOK(k)' /\ EndOK(k)' /\ EnterOK(k)'
    BY <1>1, <1>2, <1>7, <1>8, BelowKept DEF Parts
  <2>2. n # 2
    <3>1. SUFFICES ASSUME n = 2 PROVE FALSE
      OBVIOUS
    <3>2. Placed(1) /\ Over(2) /\ frames[2].k = "joins"
      BY <1>1, <1>2, <1>3, <3>1 DEF Parts, ShapeInv
    <3> QED
      BY <3>2 DEF Placed, Over, Calls
  <2>3. Len(frames') # 1
    <3> HIDE DEF n
    <3> QED
      BY <1>3, <1>8, <2>2
  <2> QED
    BY <1>8, <2>1, <2>3 DEF RunInv
<1>11. Parts'
  <2>1. memo' \subseteq Indices
    BY <1>1, <1>2 DEF Parts, MemoInv
  <2> QED
    BY <1>1, <1>2, <1>4, <1>6, <1>9, <1>10, <2>1, PopParts
<1> QED
  BY <1>2, <1>6, <1>7, <1>11, RequestStep

\* A batch goes on from entered to running, or a yield from running to ended.
LEMMA TurnParts ==
  ASSUME TypeInv, TypeInv', Parts, phase = "drain", Still, memo' = memo, frames # << >>, Keep,
         Top.k \in {"enter", "run"}, Len(frames') \in {Len(frames), Len(frames) + 1},
         frames'[Len(frames)].b = Top.b, frames'[Len(frames)].k \in {"run", "end"},
         frames'[Len(frames)].k = "end" => Yield(Top.b),
         Len(frames') = Len(frames) + 1 => frames'[Len(frames) + 1].k = "enter",
         executed' \subseteq executed \cup {Top.b}, ShapeInv', RunInv'
  PROVE  Parts'
<1> USE DEF Parts
<1> DEFINE n == Len(frames)
<1>1. /\ n \in Nat /\ n >= 2 /\ Top = frames[n] /\ Len(frames') \in Nat
      /\ Len(frames') >= n - 1 /\ n \in 1 .. Len(frames') /\ n \in 2 .. Len(frames')
  BY TopFacts
<1>2. /\ Mono /\ Ledger(store, hist)' /\ DagInv' /\ IdInv' /\ OwnerInv' /\ MarkInv'
      /\ EntryInv' /\ Indices' = Indices /\ Pending' = Pending
      /\ \A i : /\ Fired(i)' <=> Fired(i)
                /\ IsJoin(i)' <=> IsJoin(i)
                /\ Yield(i)' <=> Yield(i)
                /\ Waited(i)' <=> Waited(i)
                /\ deps_own_open_yield(i)' <=> deps_own_open_yield(i)
  BY StillStatic
<1>3. dag' = dag /\ hist' = hist /\ store' = store /\ yieldOwner' = yieldOwner /\ tx' = tx
  BY DEF Still
<1>4. frames'[1] = frames[1] /\ frames'[n - 1] = frames[n - 1] /\ frames' # << >>
  <2>1. 1 \in 1 .. n - 1 /\ n - 1 \in 1 .. n - 1
    BY <1>1
  <2> QED
    BY <1>1, <2>1, EmptySeq DEF Keep
<1>5. FiredInv'
  <2>1. \A j \in Pending : Fired(j) => frames' # << >> /\ frames'[1].b = j
    BY <1>4 DEF FiredInv
  <2>2. ASSUME NEW j \in Indices, IsJoin(j), ~Fired(j), j \notin Pending
        PROVE  \E l \in 2 .. Len(frames') : Firing(l, j)'
    <3>1. PICK k \in 2 .. Len(frames) : Firing(k, j)
      BY <2>2 DEF FiredInv
    <3>2. CASE k = n
      <4>1. frames[n - 1].k = "joins" /\ Top.b = j
        BY <1>1, <3>1, <3>2 DEF Firing
      <4>2. ~Yield(j)
        <5>1. Over(n)
          BY <1>1 DEF ShapeInv
        <5> QED
          BY <1>1, <4>1, <5>1 DEF Over
      <4>3. Firing(k, j)'
        BY <1>4, <3>2, <4>1, <4>2 DEF Firing
      <4> QED
        BY <1>1, <3>2, <4>3
    <3>3. CASE k # n
      BY <1>1, <3>1, <3>3, FiringKept
    <3> QED
      BY <3>2, <3>3
  <2> QED
    BY <1>2, <2>1, <2>2 DEF FiredInv
<1>6. MemoInv'
  <2>1. ASSUME NEW i \in executed' PROVE i \in memo \/ Begun(i)'
    <3>1. CASE i = Top.b
      BY <1>1, <3>1 DEF Begun, Calls
    <3>2. CASE i # Top.b
      BY <1>1, <2>1, <3>2, BegunKept DEF MemoInv
    <3> QED
      BY <3>1, <3>2
  <2>2. ASSUME NEW i \in Indices, Fired(i), ~Yield(i) PROVE i \in memo \/ Ending(i)'
    BY <1>1, <2>2, BegunKept DEF MemoInv
  <2> QED
    BY <1>2, <1>3, <2>1, <2>2 DEF MemoInv
<1>7. TodoInv'
  <2>1. \A k \in 1 .. Len(frames') :
          frames'[k].k = "joins" => k \in 1 .. Len(frames) /\ frames'[k] = frames[k]
    <3>1. ASSUME NEW k \in 1 .. Len(frames'), frames'[k].k = "joins"
          PROVE  k \in 1 .. Len(frames) /\ frames'[k] = frames[k]
      <4>1. k \in 1 .. n - 1 \/ k = n \/ (k = n + 1 /\ Len(frames') = n + 1)
        BY <1>1
      <4>2. k \in 1 .. n - 1
        BY <3>1, <4>1
      <4> QED
        BY <1>1, <4>2 DEF Keep
    <3> QED
      BY <3>1
  <2>2. \A k \in 1 .. Len(frames') : frames'[k].k = "joins" => frames'[k].todo = Pending'
    BY <1>2, <2>1 DEF TodoInv
  <2>3. \A k, l \in 1 .. Len(frames') :
          k < l /\ frames'[k].k = "joins" /\ frames'[l].k = "joins" => Pending' = {}
    BY <1>2, <2>1 DEF TodoInv
  <2>4. ASSUME Joining', NEW j \in Pending PROVE Ready(j)'
    <3>1. Joining
      BY <2>1, <2>4 DEF Joining
    <3>2. Ready(j)
      BY <2>4, <3>1 DEF TodoInv
    <3>3. \A y : OwnerOf(y)' = OwnerOf(y)
      BY <1>3 DEF OwnerOf
    <3> QED
      BY <1>2, <1>3, <1>4, <3>2, <3>3 DEF Ready
  <2>5. ASSUME NEW j \in Pending, NEW y \in DOMAIN yieldOwner,
               yieldOwner[y] = dag[j].dep, <<tx, y>> \in hist.resumed
        PROVE  Joining'
    <3>1. Joining /\ Top.k # "joins"
      BY <2>5 DEF TodoInv
    <3> QED
      BY <1>1, <3>1, BegunKept
  <2> QED
    BY <1>2, <1>3, <2>2, <2>3, <2>4, <2>5 DEF TodoInv
<1> QED
  BY <1>2, <1>5, <1>6, <1>7

LEMMA YieldInertStep ==
  ASSUME IInv, YieldInert
  PROVE  IInv'
<1>1. /\ frames # << >> /\ Top.k = "run" /\ Yield(Top.b)
      /\ frames' = Append(Below, Frame("end", Top.b, {}))
      /\ UNCHANGED <<dag, executed, memo, yieldJoins, yieldOwner, current>>
      /\ UNCHANGED <<store, phase, tx, hist, saved>>
  BY DEF YieldInert, In, Yield, Ended, threadLocal
<1>2. phase = "drain" /\ dag # << >> /\ TypeInv /\ Parts
  BY <1>1, InRequest
<1>3. PICK n : n = Len(frames)
  OBVIOUS
<1>4. n \in Nat /\ n >= 2 /\ Top = frames[n] /\ Top.b \in Indices /\ Top.b \in Nat
  BY <1>1, <1>2, <1>3, TopFacts, FrameFacts DEF Parts, Indices
<1>5. TypeInv' /\ Still /\ Swap(Frame("end", Top.b, {}))
  <2>1. Frame("end", Top.b, {}) \in FrameSet
    BY <1>4, FrameIn
  <2> QED
    BY <1>1, <1>2, <2>1, TypeControl, Swapped DEF Parts, Still, TypeInv
<1>6. Len(frames') = n /\ Keep /\ frames'[n].k = "end" /\ frames'[n].b = Top.b
  BY <1>3, <1>4, <1>5, FrameIn DEF Swap
<1>7. Mono
  BY <1>2, <1>5, StillStatic
<1>8. \A k \in 1 .. n - 1 :
        Placed(k)' /\ (k >= 2 => Over(k)') /\ RunOK(k)' /\ EndOK(k)' /\ EnterOK(k)'
  BY <1>1, <1>2, <1>3, <1>6, <1>7, BelowKept DEF Parts
<1>9. Placed(n)' /\ RunOK(n)' /\ EndOK(n)' /\ EnterOK(n)'
  BY <1>1, <1>4, <1>6 DEF Placed, RunOK, EndOK, EnterOK, Indices, Yield
<1>10. Over(n)'
  <2>1. Over(n) /\ frames'[n - 1] = frames[n - 1]
    BY <1>2, <1>3, <1>4, <1>6 DEF Parts, ShapeInv, Keep
  <2> QED
    BY <1>1, <1>3, <1>4, <1>6, <2>1 DEF Over, Calls, Yield
<1>11. ShapeInv' /\ RunInv'
  <2>1. \A k \in 1 .. n : k = n \/ k \in 1 .. n - 1
    BY <1>4
  <2> QED
    BY <1>1, <1>2, <1>4, <1>6, <1>8, <1>9, <1>10, <2>1 DEF ShapeInv, RunInv
<1>12. Parts'
  BY <1>1, <1>2, <1>3, <1>4, <1>5, <1>6, <1>11, TurnParts
<1> QED
  BY <1>2, <1>5, <1>7, <1>12, RequestStep

\* A join that is run has waited: it is run by a resume, or its receipt has
\* opened no yield.
LEMMA NotDeferred ==
  ASSUME TypeInv, Parts, NEW b \in Indices, IsJoin(b), ~Deferred(b), b \in Pending
  PROVE  Waited(b)
<1>1. ~deps_own_open_yield(b) /\ tx \in Nat /\ b \in Nat
  BY FrameFacts DEF Deferred, is_yield_join, Pending, Indices, TypeInv
<1>2. dag[b].kind = "then" /\ dag[b].dep # 0
  BY DEF Parts, MarkInv, DagInv
<1>3. hist.joins[<<tx, b>>] = <<tx, dag[b].dep>>
  <2>1. <<tx, b>>[1] = tx /\ <<tx, b>>[2] = b
    OBVIOUS
  <2>2. ~(tx < tx)
    BY <1>1
  <2> QED
    BY <2>1, <2>2 DEF Parts, IdInv, IsJoin
<1>4. ASSUME NEW id \in DOMAIN hist.opened, hist.opened[id] = <<tx, dag[b].dep>>,
             id \notin hist.resumed
      PROVE  FALSE
  <2>1. hist.opened[id][2] = dag[b].dep
    BY <1>4
  <2>2. id[2] \in DOMAIN yieldOwner /\ yieldOwner[id[2]] = dag[b].dep
    BY <1>2, <1>4, <2>1 DEF Parts, IdInv
  <2> QED
    BY <1>1, <2>2 DEF deps_own_open_yield
<1> QED
  BY <1>3, <1>4 DEF Waited, Before

LEMMA DepsFirstStep ==
  ASSUME IInv, DepsFirst
  PROVE  IInv'
<1>1. /\ frames # << >> /\ Top.k = "enter" /\ Top.b \notin memo /\ ~Deferred(Top.b)
      /\ current' = Top.b /\ executed' = executed \cup {Top.b} /\ yieldJoins' = Cached({Top.b})
      /\ frames' = Append(Below, Frame("run", Top.b, {}))
                   \o IF dag[Top.b].dep = 0 THEN << >> ELSE <<Frame("enter", dag[Top.b].dep, {})>>
      /\ UNCHANGED <<dag, memo, yieldOwner, store, phase, tx, hist, saved>>
  BY DEF DepsFirst, In, Deferred
<1>2. phase = "drain" /\ dag # << >> /\ TypeInv /\ Parts
  BY <1>1, InRequest
<1>3. PICK n, b, d : n = Len(frames) /\ b = Top.b /\ d = dag[b].dep
  OBVIOUS
<1>4. /\ n \in Nat /\ n >= 2 /\ Top = frames[n] /\ b \in Indices /\ b \in Nat
      /\ d \in Nat /\ d < b
  BY <1>1, <1>2, <1>3, TopFacts, FrameFacts DEF Parts, Indices, DagInv
<1>5. TypeInv' /\ Still
  <2>1. yieldJoins' = yieldJoins
    BY <1>1, <1>2, Marked DEF Parts
  <2> QED
    BY <1>1, <1>2, <2>1, TypeControl DEF Parts, Still
<1>6. /\ Keep /\ frames'[n].k = "run" /\ frames'[n].b = b
      /\ (d = 0 => Len(frames') = n)
      /\ (d # 0 => Len(frames') = n + 1 /\ frames'[n + 1].k = "enter" /\ frames'[n + 1].b = d)
  <2>1. /\ Frame("run", b, {}) \in FrameSet /\ Frame("enter", d, {}) \in FrameSet
        /\ Frame("run", b, {}).k = "run" /\ Frame("run", b, {}).b = b
        /\ Frame("enter", d, {}).k = "enter" /\ Frame("enter", d, {}).b = d
        /\ frames \in Seq(FrameSet)
    BY <1>2, <1>4, FrameIn DEF TypeInv
  <2>2. CASE d = 0
    <3>1. Append(Below, Frame("run", b, {})) \in Seq(FrameSet)
      BY <1>1, <2>1, BelowFacts, AppendProperties
    <3>2. frames' = Append(Below, Frame("run", b, {}))
      BY <1>1, <1>3, <2>2, <3>1, ConcatEmptySeq
    <3>3. Swap(Frame("run", b, {}))
      BY <1>1, <2>1, <3>2, Swapped
    <3> QED
      BY <1>3, <2>1, <2>2, <3>3 DEF Swap
  <2>3. CASE d # 0
    <3>1. frames' = Append(Below, Frame("run", b, {})) \o <<Frame("enter", d, {})>>
      BY <1>1, <1>3, <2>3
    <3>2. Swap2(Frame("run", b, {}), Frame("enter", d, {}))
      BY <1>1, <2>1, <3>1, Swapped2
    <3> QED
      BY <1>3, <2>1, <2>3, <3>2 DEF Swap2
  <2> QED
    BY <2>2, <2>3
<1>7. /\ Mono /\ Pending' = Pending
      /\ \A i : /\ Fired(i)' <=> Fired(i)
                /\ IsJoin(i)' <=> IsJoin(i)
                /\ Yield(i)' <=> Yield(i)
                /\ Waited(i)' <=> Waited(i)
                /\ Deferred(i)' <=> Deferred(i)
  BY <1>2, <1>5, StillStatic
<1>8. frames[n - 1].k \in {"outer", "end", "joins"} /\ Over(n)
      /\ (frames[n - 1].k = "end" => Yield(b))
      /\ (frames[n - 1].k = "joins" =>
            ~Yield(b) /\ b \notin Pending \cup yieldJoins /\ ~Fired(b) /\ d \in memo /\ Waited(b))
      /\ (frames[n - 1].k = "outer" =>
            n = 2 /\ (d = 0 \/ d \in memo \/ Deferred(d)))
  <2>1. Over(n)
    BY <1>2, <1>3, <1>4 DEF Parts, ShapeInv
  <2>2. frames[n - 1].k # "run"
    BY <1>1, <1>3, <1>4, <2>1 DEF Over
  <2> QED
    BY <1>1, <1>2, <1>3, <2>1, <2>2, Entering
<1>9. Yield(b) => d = 0
  BY <1>2, <1>3, <1>4 DEF Parts, DagInv, Yield
<1>10. ~Yield(b) => ~Fired(b)
  <2>1. SUFFICES ASSUME ~Yield(b), Fired(b), frames[n - 1].k = "outer" PROVE FALSE
    BY <1>8
  <2>2. Ending(b)
    BY <1>1, <1>2, <1>3, <1>4, <2>1 DEF Parts, MemoInv
  <2>3. PICK k \in 1 .. 2 : frames[k].k = "end"
    BY <1>3, <1>8, <2>1, <2>2 DEF Ending
  <2>4. k = 1 \/ k = 2
    BY <2>3
  <2>5. frames[1].k = "outer" /\ frames[2].k = "enter"
    BY <1>1, <1>4, <1>8, <2>1
  <2> QED
    BY <2>3, <2>4, <2>5
<1>11. IsJoin(b) => Waited(b)
  <2>1. SUFFICES ASSUME IsJoin(b), frames[n - 1].k = "outer" PROVE Waited(b)
    <3>1. IsJoin(b) => ~Yield(b)
      <4>1. tx \in Nat /\ <<tx, b>>[1] = tx /\ <<tx, b>>[2] = b /\ ~(tx < tx)
        BY <1>2 DEF TypeInv
      <4> QED
        BY <1>2, <4>1 DEF Parts, IdInv, IsJoin, Yield
    <3> QED
      BY <1>8, <3>1
  <2>2. ~Yield(b)
    <3>1. tx \in Nat /\ <<tx, b>>[1] = tx /\ <<tx, b>>[2] = b /\ ~(tx < tx)
      BY <1>2 DEF TypeInv
    <3> QED
      BY <1>2, <2>1, <3>1 DEF Parts, IdInv, IsJoin, Yield
  <2>3. b \in Pending \/ \E k \in 2 .. 2 : Firing(k, b)
    BY <1>2, <1>3, <1>4, <1>8, <1>10, <2>1, <2>2 DEF Parts, FiredInv
  <2>4. ~Firing(2, b)
    <3>1. frames[2 - 1].k = "outer"
      BY <1>8, <2>1, Zenon
    <3> QED
      BY <3>1 DEF Firing
  <2>5. b \in Pending
    BY <2>3, <2>4
  <2> QED
    BY <1>1, <1>2, <1>3, <1>4, <2>1, <2>5, NotDeferred
<1>12. \A k \in 1 .. n - 1 :
         Placed(k)' /\ (k >= 2 => Over(k)') /\ RunOK(k)' /\ EndOK(k)' /\ EnterOK(k)'
  <2>1. ASSUME NEW k \in 1 .. n - 1
        PROVE  Placed(k)' /\ (k >= 2 => Over(k)') /\ RunOK(k)' /\ EndOK(k)' /\ EnterOK(k)'
    <3>1. frames[k].k # "enter" /\ frames[k].k # "run" /\ frames'[k] = frames[k]
      BY <1>1, <1>2, <1>3, <1>4, <1>6, <1>8, TopFacts DEF Parts, Keep
    <3>2. Placed(k)' /\ EndOK(k)' /\ (k >= 2 => Over(k)')
      BY <1>1, <1>2, <1>3, <1>6, <1>7, BelowKept DEF Parts
    <3> QED
      BY <3>1, <3>2 DEF RunOK, EnterOK
  <2> QED
    BY <2>1
<1>13. frames'[n - 1] = frames[n - 1]
  BY <1>3, <1>4, <1>6 DEF Keep
<1>14. Placed(n)' /\ Over(n)' /\ EndOK(n)' /\ EnterOK(n)'
  <2>1. Indices' = Indices /\ n # 1 /\ yieldJoins' = yieldJoins
    BY <1>4, <1>5 DEF Still, Indices
  <2>2. Placed(n)' /\ EndOK(n)' /\ EnterOK(n)'
    BY <1>4, <1>6, <2>1 DEF Placed, EndOK, EnterOK
  <2>3. frames[n].b = b /\ (Yield(b) => Len(frames') = n)
    BY <1>3, <1>4, <1>6, <1>9
  <2>4. frames[n - 1].k = "outer" => frames[n - 1].b = b
    BY <1>8, <2>3 DEF Over
  <2>5. Over(n)'
    <3>1. CASE frames[n - 1].k = "outer"
      BY <1>6, <1>13, <2>4, <3>1 DEF Over, Calls
    <3>2. CASE frames[n - 1].k = "end"
      BY <1>6, <1>7, <1>8, <1>13, <2>3, <3>2 DEF Over, Calls
    <3>3. CASE frames[n - 1].k = "joins"
      BY <1>6, <1>7, <1>8, <1>13, <2>1, <3>3, SMTT(60) DEF Over, Calls
    <3> QED
      BY <1>8, <3>1, <3>2, <3>3
  <2> QED
    BY <2>2, <2>5
<1>15. RunOK(n)'
  BY <1>1, <1>3, <1>4, <1>6, <1>7, <1>8, <1>10, <1>11, <1>13, ZenonT(60) DEF RunOK
<1>16. ASSUME d # 0
       PROVE  Placed(n + 1)' /\ Over(n + 1)' /\ RunOK(n + 1)' /\ EndOK(n + 1)' /\ EnterOK(n + 1)'
  <2>1. (n + 1) - 1 = n /\ n + 1 # 1
    BY <1>4
  <2>2. d \in Indices
    BY <1>4, <1>16 DEF Indices
  <2>3. d \in memo \/ Deferred(d)
    BY <1>8, <1>9, <1>16
  <2>4. Placed(n + 1)' /\ RunOK(n + 1)' /\ EndOK(n + 1)' /\ EnterOK(n + 1)'
    BY <1>1, <1>6, <1>16, <2>1, <2>2, ZenonT(60) DEF Placed, RunOK, EndOK, EnterOK, Indices
  <2>5. Over(n + 1)'
    BY <1>1, <1>3, <1>6, <1>7, <1>16, <2>1, <2>3 DEF Over
  <2> QED
    BY <2>4, <2>5
<1>17. ShapeInv' /\ RunInv'
  <2>1. \A k \in 1 .. Len(frames') : k = n \/ k \in 1 .. n - 1 \/ (k = n + 1 /\ d # 0)
    BY <1>4, <1>6
  <2>2. Len(frames') # 1
    BY <1>4, <1>6
  <2> QED
    BY <1>1, <1>2, <1>12, <1>14, <1>15, <1>16, <2>1, <2>2, SMTT(30) DEF ShapeInv, RunInv
<1>18. Parts'
  <2>1. /\ Top.k \in {"enter", "run"} /\ memo' = memo
        /\ executed' \subseteq executed \cup {Top.b}
    BY <1>1
  <2>2. /\ Len(frames') \in {Len(frames), Len(frames) + 1}
        /\ frames'[Len(frames)].b = Top.b /\ frames'[Len(frames)].k = "run"
        /\ (Len(frames') = Len(frames) + 1 => frames'[Len(frames) + 1].k = "enter")
    BY <1>3, <1>4, <1>6
  <2> QED
    BY <1>1, <1>2, <1>5, <1>6, <1>17, <2>1, <2>2, TurnParts
<1> QED
  BY <1>2, <1>5, <1>7, <1>18, RequestStep

-----------------------------------------------------------------------------
(* The drain's own steps *)

LEMMA DrainNextStep ==
  ASSUME IInv, DrainNext
  PROVE  IInv'
<1>1. /\ phase = "drain" /\ frames = << >> /\ memo' = memo /\ executed' = executed
      /\ UNCHANGED <<dag, yieldOwner, store, phase, tx, hist, saved>>
  BY DEF DrainNext
<1>2. PICK i \in Indices :
        /\ Drainable(i) /\ \A h \in 1 .. i - 1 : ~Drainable(h)
        /\ frames' = <<Frame("outer", i, {i}), Frame("enter", i, {})>>
        /\ yieldJoins' = Cached({h \in 1 .. i : h \notin executed})
  BY DEF DrainNext
<1>3. TypeInv /\ dag # << >>
  <2>1. TypeInv /\ Len(dag) \in Nat /\ Len(dag) >= 1
    BY <1>2, FrameFacts DEF IInv, Indices
  <2> QED
    BY <2>1, FrameFacts
<1>4. Parts
  BY <1>1, <1>3 DEF IInv, Requesting
<1>5. TypeInv' /\ Still
  <2>1. yieldJoins' = yieldJoins
    BY <1>2, <1>4, Marked DEF Parts
  <2> QED
    BY <1>1, <1>3, <1>4, <2>1, TypeControl DEF Parts, Still
<1>6. /\ Mono /\ Ledger(store, hist)' /\ DagInv' /\ IdInv' /\ OwnerInv' /\ MarkInv'
      /\ EntryInv' /\ Indices' = Indices /\ Pending' = Pending
      /\ \A j : /\ Fired(j)' <=> Fired(j)
                /\ IsJoin(j)' <=> IsJoin(j)
                /\ Yield(j)' <=> Yield(j)
                /\ Waited(j)' <=> Waited(j)
                /\ Deferred(j)' <=> Deferred(j)
                /\ deps_own_open_yield(j)' <=> deps_own_open_yield(j)
  <2>1. Parts /\ Still /\ phase = "drain"
    BY <1>1, <1>4, <1>5
  <2> QED
    BY ONLY <2>1, StillStatic
<1>7. /\ Len(frames') = 2 /\ frames'[1].k = "outer" /\ frames'[1].b = i /\ i \in Nat
      /\ frames'[1].todo = {i} /\ frames'[2].k = "enter" /\ frames'[2].b = i /\ Len(frames) = 0
  <2>1. i \in Nat /\ Len(frames) = 0
    BY <1>1, <1>3, FrameFacts, EmptySeq DEF Indices
  <2>6. {i} \in SUBSET Nat
    BY <2>1
  <2>2. /\ Frame("outer", i, {i}).k = "outer" /\ Frame("outer", i, {i}).b = i
        /\ Frame("outer", i, {i}).todo = {i}
        /\ Frame("enter", i, {}).k = "enter" /\ Frame("enter", i, {}).b = i
    BY ONLY <2>1, <2>6, FrameIn
  <2>3. PICK f, g : f = Frame("outer", i, {i}) /\ g = Frame("enter", i, {})
    OBVIOUS
  <2>4. frames' = <<f, g>>
    BY <1>2, <2>3, Zenon
  <2>5. Len(frames') = 2 /\ frames'[1] = f /\ frames'[2] = g
    BY ONLY <2>4
  <2> QED
    BY <2>1, <2>2, <2>3, <2>5, Zenon
<1>8. (\A j : ~Begun(j) /\ ~Ending(j)) /\ ~Joining
  BY <1>7 DEF Begun, Ending, Joining
<1>9. FiredInv'
  <2>1. \A j \in Pending : ~Fired(j)
    BY <1>1, <1>4 DEF Parts, FiredInv
  <2>2. \A j \in Indices : IsJoin(j) /\ ~Fired(j) => j \in Pending
    BY <1>4, <1>7 DEF Parts, FiredInv
  <2> QED
    BY <1>6, <2>1, <2>2 DEF FiredInv
<1>10. executed \subseteq memo
  BY <1>4, <1>8 DEF Parts, MemoInv
<1>11. MemoInv'
  <2>1. \A j \in Indices : Fired(j) /\ ~Yield(j) => j \in memo
    BY <1>4, <1>8 DEF Parts, MemoInv
  <2> QED
    BY <1>1, <1>4, <1>6, <1>10, <2>1 DEF Parts, MemoInv
<1>12. ~Deferred(i) /\ (dag[i].dep = 0 \/ dag[i].dep \in memo \/ Deferred(dag[i].dep))
  <2>1. ~Deferred(i) /\ \A h \in 1 .. i - 1 : h \in memo \/ Deferred(h)
    BY <1>2, <1>10 DEF Drainable, Deferred
  <2>2. dag[i].dep \in Nat /\ dag[i].dep < i
    BY <1>3, <1>4, FrameFacts DEF Parts, DagInv
  <2>3. dag[i].dep = 0 \/ dag[i].dep \in 1 .. i - 1
    BY <1>7, <2>2
  <2> QED
    BY <2>1, <2>3
<1>13. 1 .. 2 = {1, 2} /\ 2 .. 2 = {2}
  OBVIOUS
<1>14. ShapeInv'
  <2>1. Placed(1)' /\ Placed(2)' /\ Over(2)'
    BY <1>6, <1>7 DEF Placed, Over, Calls
  <2> QED
    BY <1>1, <1>7, <1>13, <2>1 DEF ShapeInv
<1>15. RunInv'
  <2>1. RunOK(1)' /\ EndOK(1)' /\ EnterOK(1)' /\ RunOK(2)' /\ EndOK(2)'
    BY <1>7 DEF RunOK, EndOK, EnterOK
  <2>2. EnterOK(2)'
    BY <1>1, <1>6, <1>7, <1>12 DEF EnterOK
  <2> QED
    BY <1>7, <1>13, <2>1, <2>2 DEF RunInv
<1>16. TodoInv'
  <2>1. ~Joining' /\ \A k \in 1 .. Len(frames') : frames'[k].k # "joins"
    BY <1>7, <1>13 DEF Joining
  <2>2. \A j \in Pending, y \in DOMAIN yieldOwner :
          ~(yieldOwner[y] = dag[j].dep /\ <<tx, y>> \in hist.resumed)
    BY <1>4, <1>8 DEF Parts, TodoInv
  <2> QED
    BY <1>1, <1>6, <2>1, <2>2 DEF TodoInv
<1>17. Parts'
  BY <1>6, <1>9, <1>11, <1>14, <1>15, <1>16 DEF Parts
<1> QED
  BY <1>1, <1>3, <1>5, <1>6, <1>17, RequestStep

\* A promise without dependencies that the entry returns is executed as the
\* drain would.
LEMMA EntryReturnsPromiseStep ==
  ASSUME IInv, EntryReturnsPromise, Chains = FALSE
  PROVE  IInv'
<1>1. /\ TypeInv /\ TypeInv' /\ phase = "request" /\ phase' = "drain"
      /\ UNCHANGED <<dag, executed, memo, yieldJoins, yieldOwner, current>>
      /\ UNCHANGED <<store, tx, hist, saved>>
  BY TypeEntry DEF IInv, EntryReturnsPromise, threadLocal
<1>2. PICK i \in Indices :
        dag[i].dep = 0 /\ frames' = <<Frame("outer", i, {}), Frame("enter", i, {})>>
  BY DEF EntryReturnsPromise
<1>3. Parts /\ dag # << >>
  <2>1. Len(dag) \in Nat /\ Len(dag) >= 1
    BY <1>1, <1>2, FrameFacts DEF Indices
  <2> QED
    BY <1>1, <2>1, FrameFacts DEF IInv, Requesting
<1>4. frames = << >> /\ executed = {} /\ memo = {} /\ Len(frames) = 0
  BY <1>1, <1>3, EmptySeq DEF Parts, ShapeInv, EntryInv
<1>5. /\ Len(frames') = 2 /\ frames'[1].k = "outer" /\ frames'[1].b = i
      /\ frames'[2].k = "enter" /\ frames'[2].b = i
  <2>1. i \in Nat
    BY <1>1, FrameFacts DEF Indices
  <2>2. /\ Frame("outer", i, {}).k = "outer" /\ Frame("outer", i, {}).b = i
        /\ Frame("enter", i, {}).k = "enter" /\ Frame("enter", i, {}).b = i
    BY ONLY <2>1, FrameIn
  <2>3. PICK f, g : f = Frame("outer", i, {}) /\ g = Frame("enter", i, {})
    OBVIOUS
  <2>4. frames' = <<f, g>>
    BY <1>2, <2>3, Zenon
  <2>5. Len(frames') = 2 /\ frames'[1] = f /\ frames'[2] = g
    BY ONLY <2>4
  <2> QED
    BY <2>2, <2>3, <2>5, Zenon
<1>6. /\ Indices' = Indices /\ Pending' = Pending
      /\ \A j : /\ Fired(j)' <=> Fired(j)
                /\ IsJoin(j)' <=> IsJoin(j)
                /\ Yield(j)' <=> Yield(j)
                /\ deps_own_open_yield(j)' <=> deps_own_open_yield(j)
  BY <1>1 DEF Indices, Pending, Fired, IsJoin, Yield, deps_own_open_yield
<1>7. Ledger(store, hist)' /\ DagInv' /\ EntryInv'
  BY <1>1, <1>3, <1>6 DEF Parts, DagInv, EntryInv
<1>8. IdInv' /\ OwnerInv'
  BY <1>1, <1>3, <1>6 DEF Parts, IdInv, OwnerInv
<1>9. MarkInv'
  BY <1>1, <1>3, <1>6 DEF Parts, MarkInv
<1>10. (\A j : ~Begun(j) /\ ~Ending(j)) /\ ~Joining
  BY <1>4 DEF Begun, Ending, Joining
<1>11. FiredInv'
  <2>1. \A j \in Pending : ~Fired(j)
    BY <1>3, <1>4 DEF Parts, FiredInv
  <2>2. \A j \in Indices : IsJoin(j) /\ ~Fired(j) => j \in Pending
    BY <1>3, <1>4 DEF Parts, FiredInv
  <2> QED
    BY <1>6, <2>1, <2>2 DEF FiredInv
<1>12. MemoInv'
  <2>1. \A j \in Indices : Fired(j) /\ ~Yield(j) => j \in memo
    BY <1>3, <1>10 DEF Parts, MemoInv
  <2> QED
    BY <1>1, <1>3, <1>4, <1>6, <2>1 DEF Parts, MemoInv
<1>13. ~Deferred(i)'
  <2>1. ~is_yield_join(i)
    BY <1>2, <1>3 DEF Parts, MarkInv, DagInv, is_yield_join, Pending
  <2> QED
    BY <1>1, <2>1 DEF Deferred, is_yield_join
<1>14. 1 .. 2 = {1, 2} /\ 2 .. 2 = {2} /\ dag'[i].dep = 0
  BY <1>1, <1>2
<1>15. ShapeInv'
  <2>1. Placed(1)' /\ Placed(2)' /\ Over(2)'
    BY <1>5, <1>6, <1>14 DEF Placed, Over, Calls
  <2> QED
    BY <1>1, <1>5, <1>14, <2>1 DEF ShapeInv
<1>16. RunInv'
  <2>1. RunOK(1)' /\ EndOK(1)' /\ EnterOK(1)' /\ RunOK(2)' /\ EndOK(2)'
    BY <1>5 DEF RunOK, EndOK, EnterOK
  <2>2. EnterOK(2)'
    BY <1>5, <1>13, <1>14 DEF EnterOK
  <2> QED
    BY <1>5, <1>14, <2>1, <2>2 DEF RunInv
<1>17. TodoInv'
  <2>1. ~Joining' /\ \A k \in 1 .. Len(frames') : frames'[k].k # "joins"
    BY <1>5, <1>14 DEF Joining
  <2>2. \A j \in Pending, y \in DOMAIN yieldOwner :
          ~(yieldOwner[y] = dag[j].dep /\ <<tx, y>> \in hist.resumed)
    BY <1>3, <1>10 DEF Parts, TodoInv
  <2> QED
    BY <1>1, <1>6, <2>1, <2>2 DEF TodoInv
<1>18. Parts'
  BY <1>7, <1>8, <1>9, <1>11, <1>12, <1>15, <1>16, <1>17 DEF Parts
<1>19. IdleInv' /\ ResolveInv'
  BY <1>1, <1>3 DEF IInv, IdleInv, ResolveInv, Settled
<1> QED
  BY <1>1, <1>18, <1>19 DEF IInv

LEMMA DrainTakesMarkerStep ==
  ASSUME IInv, DrainTakesMarker
  PROVE  IInv'
<1>1. /\ frames # << >> /\ Top.k = "outer" /\ frames' = << >>
      /\ store' = IF Top.b \in Top.todo THEN yield_joins_persist_take(Top.b) ELSE store
      /\ UNCHANGED <<dag, executed, memo, yieldJoins, yieldOwner, current>>
      /\ UNCHANGED <<phase, tx, hist, saved>>
  BY DEF DrainTakesMarker, In, threadLocal
<1>2. phase = "drain" /\ dag # << >> /\ TypeInv /\ Parts
  BY <1>1, InRequest
<1>3. TypeInv'
  BY <1>2, TypeControl DEF Parts
<1>4. PICK b : b = Top.b
  OBVIOUS
<1>6. Len(frames) = 1 /\ frames[1].b = b /\ b \in Indices /\ frames[1].k = "outer"
      /\ Placed(1) /\ Top = frames[1]
  <2>1. Len(frames) \in 1 .. Len(frames) /\ Top = frames[Len(frames)] /\ Top.b \in Indices
    BY <1>1, <1>2, TopFacts DEF Parts
  <2>2. Placed(Len(frames))
    BY <1>2, <2>1 DEF Parts, ShapeInv
  <2>3. Len(frames) = 1
    BY <1>1, <2>1, <2>2 DEF Placed
  <2> QED
    BY <1>1, <1>4, <2>1, <2>2, <2>3
<1>5. /\ store'.yields = store.yields /\ store'.owners = store.owners
      /\ Pending' = Pending \ {b} /\ \A i \in Pending \ {b} : store'.joins[i] = store.joins[i]
  <2>1. CASE Top.b \in Top.todo
    BY <1>1, <1>2, <1>4, <2>1, TakeFacts DEF Pending
  <2>2. CASE Top.b \notin Top.todo
    <3>1. store' = store /\ Pending' = Pending
      BY <1>1, <2>2 DEF Pending
    <3>2. dag[b].dep = 0
      BY <1>4, <1>6, <2>2 DEF Placed
    <3>3. b \notin Pending
      BY <1>2, <1>6, <3>2 DEF Parts, MarkInv, DagInv
    <3> QED
      BY <3>1, <3>3
  <2> QED
    BY <2>1, <2>2
<1>7. Yield(b) \/ Fired(b)
  BY <1>2, <1>6 DEF Parts, RunInv
<1>8. (\A j : ~Begun(j) /\ ~Ending(j)) /\ ~Joining
  BY <1>6 DEF Begun, Ending, Joining, Calls
<1>9. Yield(b) \/ b \in memo
  BY <1>2, <1>6, <1>7, <1>8 DEF Parts, MemoInv
<1>10. \A i : /\ Fired(i)' <=> Fired(i)
              /\ IsJoin(i)' <=> IsJoin(i)
              /\ Yield(i)' <=> Yield(i)
              /\ deps_own_open_yield(i)' <=> deps_own_open_yield(i)
  BY <1>1 DEF Fired, IsJoin, Yield, deps_own_open_yield
<1>11. Indices' = Indices
  BY <1>1 DEF Indices
<1>12. Mono
  BY <1>1, <1>5, <1>11 DEF Mono
<1>13. Ledger(store, hist)'
  <2>1. Ledger(store, hist)
    BY <1>2 DEF Parts
  <2> QED
    BY <1>1, <1>5, <2>1 DEF Ledger
<1>14. DagInv' /\ EntryInv'
  BY <1>1, <1>2, <1>11 DEF Parts, DagInv, EntryInv
<1>15. IdInv' /\ OwnerInv'
  BY <1>1, <1>2, <1>10, <1>11 DEF Parts, IdInv, OwnerInv
<1>16. MarkInv'
  <2>1. b \in yieldJoins => b \in memo
    BY <1>2, <1>9 DEF Parts, MarkInv, Yield
  <2> QED
    BY <1>1, <1>2, <1>5, <1>10, <1>11, <2>1 DEF Parts, MarkInv
<1>17. FiredInv'
  <2>1. \A j \in Pending : j # b => ~Fired(j)
    BY <1>2, <1>6 DEF Parts, FiredInv
  <2>2. \A j \in Indices : IsJoin(j) => ~Yield(j)
    <3>1. tx \in Nat /\ ~(tx < tx) /\ \A j : <<tx, j>>[1] = tx /\ <<tx, j>>[2] = j
      BY <1>2 DEF TypeInv
    <3> QED
      BY <1>2, <3>1 DEF Parts, IdInv, IsJoin, Yield
  <2>3. \A j \in Indices : IsJoin(j) /\ ~Fired(j) => j \in Pending \ {b}
    BY <1>2, <1>6, <1>7, <2>2 DEF Parts, FiredInv
  <2> QED
    BY <1>5, <1>10, <1>11, <2>1, <2>3 DEF FiredInv
<1>18. MemoInv'
  <2>1. \A j \in executed : j \in memo
    BY <1>2, <1>8 DEF Parts, MemoInv
  <2>2. \A j \in Indices : Fired(j) /\ ~Yield(j) => j \in memo
    BY <1>2, <1>8 DEF Parts, MemoInv
  <2>3. \A j \in memo : Yield(j) \/ Fired(j) \/ (j \in Pending' /\ deps_own_open_yield(j))
    BY <1>2, <1>5, <1>7 DEF Parts, MemoInv
  <2>4. memo \subseteq Indices /\ \A j \in Indices : Fired(j) /\ IsJoin(j) => dag[j].dep \in memo
    BY <1>2 DEF Parts, MemoInv
  <2> QED
    BY <1>1, <1>10, <1>11, <2>1, <2>2, <2>3, <2>4 DEF MemoInv
<1>19. ShapeInv' /\ RunInv' /\ ~Joining' /\ Len(frames') = 0
  <2>1. Len(frames') = 0 /\ 1 .. 0 = {} /\ 2 .. 0 = {}
    BY <1>1, EmptySeq
  <2> QED
    BY <1>1, <2>1 DEF ShapeInv, RunInv, Joining
<1>20. TodoInv'
  <2>1. \A j \in Pending, y \in DOMAIN yieldOwner :
          ~(yieldOwner[y] = dag[j].dep /\ <<tx, y>> \in hist.resumed)
    BY <1>2, <1>8 DEF Parts, TodoInv
  <2> QED
    BY <1>1, <1>5, <1>19, <2>1 DEF TodoInv
<1>21. Parts'
  BY <1>13, <1>14, <1>15, <1>16, <1>17, <1>18, <1>19, <1>20 DEF Parts
<1> QED
  BY <1>2, <1>3, <1>12, <1>21, RequestStep

-----------------------------------------------------------------------------
(* A resume fires the next join *)

LEMMA JoinFiresStep ==
  ASSUME IInv, JoinFires
  PROVE  IInv'
<1>1. /\ frames # << >> /\ Top.k = "joins" /\ Top.todo # {}
      /\ UNCHANGED <<dag, memo, yieldOwner, current, phase, tx, hist, saved>>
  BY DEF JoinFires, In
<1>2. phase = "drain" /\ dag # << >> /\ TypeInv /\ Parts
  <2>1. TypeInv /\ Len(frames) \in Nat /\ Len(frames) >= 1
    BY <1>1, FrameFacts DEF IInv
  <2>2. ~(Len(frames) = 1 /\ frames[1].todo = {})
    BY <1>1 DEF Top
  <2>3. Requesting
    BY <1>1, <2>1, <2>2 DEF IInv, IdleInv, ResolveInv, Requesting, TypeInv
  <2> QED
    BY <1>1, <2>1, <2>3 DEF IInv, Requesting, Parts, ShapeInv
<1>3. TypeInv'
  BY <1>2, TypeJoins
<1>4. PICK n : n = Len(frames)
  OBVIOUS
<1>5. n \in Nat /\ n >= 2 /\ Top = frames[n] /\ Top \in FrameSet /\ Top.todo \subseteq Nat
  BY <1>1, <1>2, <1>4, TopFacts, FrameFacts DEF Parts
<1>6. Top.todo = Pending /\ Joining
  BY <1>1, <1>2, <1>4, <1>5 DEF Parts, TodoInv, Joining
<1>7. PICK j : j = Min(Top.todo)
  OBVIOUS
<1>8. /\ yieldJoins' = yieldJoins \ {j} /\ store' = yield_joins_persist_take(j)
      /\ executed' = executed \cup {j}
      /\ frames' = Below \o <<[Top EXCEPT !.todo = @ \ {j}], Frame("enter", j, {})>>
  BY <1>7 DEF JoinFires
<1>9. j \in Pending /\ j \in Nat
  BY <1>1, <1>5, <1>6, <1>7, MinIn
<1>10. /\ Keep /\ Len(frames') = n + 1 /\ frames'[n].k = "joins" /\ frames'[n].todo = Pending \ {j}
       /\ frames'[n + 1].k = "enter" /\ frames'[n + 1].b = j
  <2>1. PICK f, g : f = [Top EXCEPT !.todo = @ \ {j}] /\ g = Frame("enter", j, {})
    OBVIOUS
  <2>2. /\ f \in FrameSet /\ f.k = "joins" /\ f.todo = Pending \ {j}
        /\ g \in FrameSet /\ g.k = "enter" /\ g.b = j
    BY <1>1, <1>5, <1>6, <1>9, <2>1, FrameIn DEF FrameSet
  <2>3. Swap2(f, g)
    BY <1>1, <1>2, <1>8, <2>1, <2>2, Swapped2 DEF TypeInv
  <2> QED
    BY <1>4, <2>2, <2>3 DEF Swap2
<1>11. /\ store'.yields = store.yields /\ store'.owners = store.owners
       /\ Pending' = Pending \ {j} /\ \A i \in Pending \ {j} : store'.joins[i] = store.joins[i]
  BY <1>2, <1>8, TakeFacts DEF Pending
<1>12. /\ Ready(j) /\ j \in Indices /\ dag[j].kind = "then" /\ ~Yield(j)
  BY <1>2, <1>6, <1>9 DEF Parts, TodoInv, MarkInv, Yield
<1>13. /\ j \notin memo /\ dag[j].dep \in memo /\ Waited(j) /\ ~Fired(j)
  BY <1>2, <1>9, <1>12 DEF Ready, Parts, FiredInv
<1>14. /\ \A i : /\ Fired(i)' <=> Fired(i)
                 /\ IsJoin(i)' <=> IsJoin(i)
                 /\ Yield(i)' <=> Yield(i)
                 /\ Waited(i)' <=> Waited(i)
                 /\ deps_own_open_yield(i)' <=> deps_own_open_yield(i)
       /\ Indices' = Indices
  BY <1>1 DEF Fired, IsJoin, Yield, Waited, deps_own_open_yield, Indices
<1>15. Mono
  BY <1>1, <1>8, <1>11, <1>14 DEF Mono
<1>16. Ledger(store, hist)'
  <2>1. Ledger(store, hist)
    BY <1>2 DEF Parts
  <2> QED
    BY <1>1, <1>11, <2>1 DEF Ledger
<1>17. DagInv' /\ EntryInv'
  BY <1>1, <1>2, <1>14 DEF Parts, DagInv, EntryInv
<1>18. IdInv' /\ OwnerInv'
  BY <1>1, <1>2, <1>14 DEF Parts, IdInv, OwnerInv
<1>19. MarkInv'
  BY <1>1, <1>2, <1>8, <1>11, <1>14 DEF Parts, MarkInv
<1>20. /\ Len(frames') \in Nat /\ Len(frames') >= Len(frames) - 1
       /\ frames'[1] = frames[1] /\ frames'[n - 1] = frames[n - 1] /\ frames' # << >>
       /\ n \in 1 .. Len(frames') /\ n + 1 \in 1 .. Len(frames') /\ n + 1 \in 2 .. Len(frames')
       /\ (n + 1) - 1 = n /\ n # 1 /\ n + 1 # 1 /\ Len(frames') # 1
  <2>1. 1 \in 1 .. n - 1 /\ n - 1 \in 1 .. n - 1
    BY <1>5
  <2>2. frames' # << >>
    BY <1>5, <1>10, EmptySeq
  <2> QED
    BY <1>4, <1>5, <1>10, <2>1, <2>2 DEF Keep
<1>21. FiredInv'
  <2>1. \A i \in Pending' : Fired(i) => frames' # << >> /\ frames'[1].b = i
    BY <1>2, <1>11, <1>20 DEF Parts, FiredInv
  <2>2. Firing(n + 1, j)'
    BY <1>10, <1>20 DEF Firing
  <2>3. ASSUME NEW i \in Indices, IsJoin(i), ~Fired(i), i # j PROVE i \in Pending'
    <3>1. ASSUME NEW k \in 2 .. Len(frames), Firing(k, i) PROVE FALSE
      <4>1. frames[k].k \in {"enter", "run"}
        BY <3>1 DEF Firing
      <4>2. k \in 1 .. Len(frames) - 1
        BY <1>1, <1>4, <1>5, <4>1
      <4> QED
        BY <1>1, <1>2, <4>1, <4>2, TopFacts DEF Parts
    <3>2. i \in Pending
      BY <1>2, <2>3, <3>1 DEF Parts, FiredInv
    <3> QED
      BY <1>11, <2>3, <3>2
  <2> QED
    BY <1>14, <1>20, <2>1, <2>2, <2>3 DEF FiredInv
<1>22. MemoInv'
  <2>1. ASSUME NEW i \in executed' PROVE i \in memo \/ Begun(i)'
    <3>1. CASE i = j
      BY <1>10, <1>20, <3>1 DEF Begun, Calls
    <3>2. CASE i # j
      BY <1>1, <1>2, <1>8, <1>10, <1>20, <2>1, <3>2, BegunKept DEF Parts, MemoInv, Calls
    <3> QED
      BY <3>1, <3>2
  <2>2. ASSUME NEW i \in Indices, Fired(i), ~Yield(i) PROVE i \in memo \/ Ending(i)'
    BY <1>1, <1>2, <1>10, <1>20, <2>2, BegunKept DEF Parts, MemoInv
  <2>3. \A i \in memo : Yield(i) \/ Fired(i) \/ (i \in Pending' /\ deps_own_open_yield(i))
    BY <1>2, <1>11, <1>13 DEF Parts, MemoInv
  <2>4. memo \subseteq Indices /\ \A i \in Indices : Fired(i) /\ IsJoin(i) => dag[i].dep \in memo
    BY <1>2 DEF Parts, MemoInv
  <2> QED
    BY <1>1, <1>14, <2>1, <2>2, <2>3, <2>4 DEF MemoInv
<1>23. \A k \in 1 .. n - 1 :
         Placed(k)' /\ (k >= 2 => Over(k)') /\ RunOK(k)' /\ EndOK(k)' /\ EnterOK(k)'
  BY <1>1, <1>2, <1>4, <1>10, <1>15, BelowKept DEF Parts
<1>24. Placed(n)' /\ RunOK(n)' /\ EndOK(n)' /\ EnterOK(n)'
  BY <1>10, <1>20 DEF Placed, RunOK, EndOK, EnterOK
<1>25. Over(n)'
  <2>1. Over(n)
    BY <1>2, <1>4, <1>5 DEF Parts, ShapeInv
  <2>2. frames[n - 1].k \in {"outer", "enter", "run", "end", "joins"}
    BY <1>2, <1>4, <1>5, FrameFacts
  <2>3. frames[n - 1].k = "end"
    BY <1>1, <1>5, <2>1, <2>2 DEF Over, Calls
  <2> QED
    BY <1>10, <1>20, <2>3 DEF Over
<1>26. Placed(n + 1)' /\ RunOK(n + 1)' /\ EndOK(n + 1)' /\ EnterOK(n + 1)' /\ Over(n + 1)'
  <2>1. Placed(n + 1)' /\ RunOK(n + 1)' /\ EndOK(n + 1)'
    BY <1>10, <1>12, <1>14, <1>20 DEF Placed, RunOK, EndOK
  <2>2. EnterOK(n + 1)'
    BY <1>1, <1>10, <1>13, <1>14, <1>20 DEF EnterOK
  <2>3. Over(n + 1)'
    BY <1>8, <1>10, <1>11, <1>12, <1>14, <1>20 DEF Over, Calls
  <2> QED
    BY <2>1, <2>2, <2>3
<1>27. ShapeInv' /\ RunInv'
  <2>1. \A k \in 1 .. Len(frames') : k = n \/ k \in 1 .. n - 1 \/ k = n + 1
    BY <1>5, <1>10
  <2>2. \A k \in 1 .. Len(frames') : Placed(k)' /\ RunOK(k)' /\ EndOK(k)' /\ EnterOK(k)'
    BY <1>23, <1>24, <1>26, <2>1
  <2>3. \A k \in 2 .. Len(frames') : Over(k)'
    <3>1. \A k \in 2 .. Len(frames') : k \in 1 .. Len(frames') /\ k >= 2
      BY <1>20
    <3> QED
      BY <1>23, <1>25, <1>26, <2>1, <3>1
  <2> QED
    BY <1>1, <1>2, <1>20, <2>2, <2>3 DEF ShapeInv, RunInv
<1>28. TodoInv'
  <2>1. ASSUME NEW k \in 1 .. Len(frames'), frames'[k].k = "joins" PROVE k = n
    <3>1. k \in 1 .. n - 1 \/ k = n \/ k = n + 1
      BY <1>5, <1>10
    <3>2. k \notin 1 .. n - 1
      <4>1. SUFFICES ASSUME k \in 1 .. n - 1 PROVE FALSE
        OBVIOUS
      <4>2. frames[k].k = "joins" /\ k \in 1 .. Len(frames) /\ n \in 1 .. Len(frames) /\ k < n
        BY <1>4, <1>5, <1>10, <2>1, <4>1 DEF Keep
      <4>3. Pending = {}
        BY <1>1, <1>2, <1>5, <4>2 DEF Parts, TodoInv
      <4> QED
        BY <1>9, <4>3
    <3> QED
      BY <1>10, <2>1, <3>1, <3>2
  <2>2. \A k \in 1 .. Len(frames') : frames'[k].k = "joins" => frames'[k].todo = Pending'
    BY <1>10, <1>11, <2>1
  <2>3. \A k, l \in 1 .. Len(frames') :
          k < l /\ frames'[k].k = "joins" /\ frames'[l].k = "joins" => Pending' = {}
    BY <1>5, <2>1
  <2>4. ASSUME NEW i \in Pending' PROVE Ready(i)'
    <3>1. Ready(i)
      BY <1>2, <1>6, <1>11, <2>4 DEF Parts, TodoInv
    <3>2. \A y : OwnerOf(y)' = OwnerOf(y)
      BY <1>1, <1>11 DEF OwnerOf
    <3> QED
      BY <1>1, <1>11, <1>14, <1>20, <3>1, <3>2 DEF Ready
  <2>5. Joining'
    BY <1>10, <1>20 DEF Joining
  <2> QED
    BY <2>2, <2>3, <2>4, <2>5 DEF TodoInv
<1>29. Parts'
  BY <1>16, <1>17, <1>18, <1>19, <1>21, <1>22, <1>27, <1>28 DEF Parts
<1> QED
  BY <1>2, <1>3, <1>15, <1>29, RequestStep

-----------------------------------------------------------------------------
(* Calls *)

\* A call runs over the drain or over a resume; it has not been fired.
LEMMA CallFacts ==
  ASSUME IInv, Running
  PROVE  /\ phase = "drain" /\ dag # << >> /\ TypeInv /\ Parts
         /\ frames # << >> /\ Top.k = "run" /\ Len(frames) \in Nat /\ Len(frames) >= 2
         /\ Top = frames[Len(frames)] /\ Top.b \in Indices /\ Top.b \in Nat /\ Top.b # 0
         /\ ~Yield(Top.b) /\ Top.b \notin memo /\ ~Fired(Top.b)
         /\ dag[Top.b].dep = 0 \/ dag[Top.b].dep \in memo
         /\ current = Top.b \/ (current = 0 /\ DOMAIN store.yields # {})
         /\ frames[Len(frames) - 1].k \in {"outer", "joins"}
         /\ frames[Len(frames) - 1].k = "outer" =>
              Len(frames) = 2 /\ frames[1].b = Top.b /\ ~Joining
         /\ frames[Len(frames) - 1].k = "joins" =>
              current = Top.b /\ Top.b \notin Pending \cup yieldJoins
         /\ BatchId = <<tx, Top.b>> /\ BatchId \in Ids
         /\ Fire(hist, {BatchId}) \in Histories /\ Ledger(store, Fire(hist, {BatchId}))
         /\ Fire(hist, {BatchId}).fired = hist.fired \cup {<<tx, Top.b>>}
         /\ Fire(hist, {BatchId}).opened = hist.opened
         /\ Fire(hist, {BatchId}).joins = hist.joins
         /\ Fire(hist, {BatchId}).resumed = hist.resumed
<1>1. frames # << >> /\ Top.k = "run" /\ ~Yield(Top.b)
  BY DEF Running, In, Yield
<1>2. phase = "drain" /\ dag # << >> /\ TypeInv /\ Parts
  BY <1>1, InRequest
<1>3. PICK n, b : n = Len(frames) /\ b = Top.b
  OBVIOUS
<1>4. n \in Nat /\ n >= 2 /\ Top = frames[n] /\ b \in Indices /\ b \in Nat /\ b # 0
  BY <1>1, <1>2, <1>3, TopFacts, FrameFacts DEF Parts, Indices
<1>5. RunOK(n) /\ Over(n) /\ Placed(n - 1) /\ n - 1 \in 1 .. n
  BY <1>2, <1>3, <1>4 DEF Parts, RunInv, ShapeInv
<1>6. /\ b \notin memo /\ ~Fired(b) /\ (IsJoin(b) => Waited(b))
      /\ (dag[b].dep = 0 \/ dag[b].dep \in memo)
      /\ (current = b \/ (current = 0 /\ DOMAIN store.yields # {}))
      /\ frames[n - 1].k = "joins" => current = b
  BY <1>1, <1>3, <1>4, <1>5 DEF RunOK
<1>7. frames[n - 1].k \in {"outer", "joins"}
  <2>1. frames[n - 1].k \in {"outer", "enter", "run", "end", "joins"}
    BY <1>2, <1>3, <1>5, FrameFacts
  <2> QED
    BY <1>1, <1>3, <1>4, <1>5, <2>1 DEF Over
<1>8. frames[n - 1].k = "joins" => b \notin Pending \cup yieldJoins
  BY <1>3, <1>4, <1>5 DEF Over
<1>9. ASSUME frames[n - 1].k = "outer" PROVE n = 2 /\ frames[1].b = b /\ ~Joining
  <2>1. n - 1 = 1
    BY <1>5, <1>9 DEF Placed
  <2>2. n = 2
    BY <1>4, <2>1
  <2>3. frames[1].b = b /\ frames[1].k = "outer"
    BY <1>3, <1>4, <1>5, <1>9, <2>1 DEF Over
  <2>4. \A k \in 1 .. n : k = 1 \/ k = 2
    BY <2>2
  <2>5. ~Joining
    BY <1>1, <1>3, <1>4, <2>2, <2>3, <2>4 DEF Joining
  <2> QED
    BY <2>2, <2>3, <2>5
<1>10. BatchId = <<tx, b>> /\ BatchId \in Ids /\ tx \in Nat /\ hist \in Histories
  BY <1>2, <1>3, <1>4, IdsIn DEF BatchId, TypeInv
<1>11. <<tx, b>> \notin DOMAIN hist.opened
  <2>1. <<tx, b>>[1] = tx /\ <<tx, b>>[2] = b /\ ~(tx < tx)
    BY <1>10
  <2> QED
    BY <1>1, <1>2, <1>3, <2>1 DEF Parts, IdInv
<1>12. Ledger(store, Fire(hist, {BatchId}))
  <2>1. {BatchId} \in SUBSET Ids /\ {BatchId} \cap hist.fired = {}
        /\ {BatchId} \cap DOMAIN hist.opened = {}
    BY <1>6, <1>10, <1>11 DEF Fired
  <2>2. \A id \in {BatchId} \cap DOMAIN hist.joins : Before(hist, id) \subseteq hist.resumed
    BY <1>6, <1>10 DEF IsJoin, Waited
  <2>3. Ledger(store, hist)
    BY <1>2 DEF Parts
  <2> QED
    BY <1>10, <2>1, <2>2, <2>3, FireLedger
<1>13. /\ Fire(hist, {BatchId}) \in Histories
       /\ Fire(hist, {BatchId}).fired = hist.fired \cup {<<tx, Top.b>>}
       /\ Fire(hist, {BatchId}).opened = hist.opened
       /\ Fire(hist, {BatchId}).joins = hist.joins
       /\ Fire(hist, {BatchId}).resumed = hist.resumed
  <2>1. {BatchId} \in SUBSET Ids
    BY <1>10
  <2> QED
    BY <1>3, <1>10, <2>1, FireFacts
<1>14. /\ Len(frames) \in Nat /\ Len(frames) >= 2 /\ Top = frames[Len(frames)]
       /\ Top.b \in Indices /\ Top.b \in Nat /\ Top.b # 0
       /\ Top.b \notin memo /\ ~Fired(Top.b)
       /\ (dag[Top.b].dep = 0 \/ dag[Top.b].dep \in memo)
       /\ (current = Top.b \/ (current = 0 /\ DOMAIN store.yields # {}))
  BY <1>3, <1>4, <1>6
<1>15. /\ frames[Len(frames) - 1].k \in {"outer", "joins"}
       /\ frames[Len(frames) - 1].k = "outer" =>
            Len(frames) = 2 /\ frames[1].b = Top.b /\ ~Joining
       /\ frames[Len(frames) - 1].k = "joins" =>
            current = Top.b /\ Top.b \notin Pending \cup yieldJoins
  BY <1>3, <1>6, <1>7, <1>8, <1>9
<1> QED
  BY <1>1, <1>2, <1>3, <1>10, <1>12, <1>13, <1>14, <1>15

\* What the three ways a call ends have in common.
Calling ==
  /\ Mono /\ Keep /\ UNCHANGED <<memo, executed, yieldJoins>>
  /\ store'.joins = store.joins /\ hist'.joins = hist.joins
  /\ frames'[Len(frames)].k = "end" /\ frames'[Len(frames)].b = Top.b
  /\ Len(frames') \in {Len(frames), Len(frames) + 1}
  /\ \A i \in Indices : ~Yield(i) => (Fired(i)' <=> (Fired(i) \/ i = Top.b))
  /\ \A i \in Indices' \ Indices : Yield(i)'
  /\ \A y \in DOMAIN yieldOwner : y \in DOMAIN yieldOwner' /\ yieldOwner'[y] = yieldOwner[y]

LEMMA JoinFacts ==
  ASSUME TypeInv, Parts, NEW j, IsJoin(j)
  PROVE  /\ j \in Indices /\ dag[j].kind = "then" /\ ~Yield(j) /\ dag[j].dep # 0
         /\ hist.joins[<<tx, j>>] = <<tx, dag[j].dep>>
<1>1. tx \in Nat /\ <<tx, j>>[1] = tx /\ <<tx, j>>[2] = j /\ ~(tx < tx)
  BY DEF TypeInv
<1>2. /\ j \in Indices /\ dag[j].kind = "then"
      /\ hist.joins[<<tx, j>>] = <<tx, dag[j].dep>>
  BY <1>1 DEF Parts, IdInv, IsJoin
<1> QED
  BY <1>2 DEF Parts, DagInv, Yield

LEMMA CallParts ==
  ASSUME IInv, Running, TypeInv', Calling
  PROVE  /\ FiredInv' /\ MemoInv' /\ Pending' = Pending
         /\ \A k \in 1 .. Len(frames) : Placed(k)' /\ RunOK(k)' /\ EndOK(k)' /\ EnterOK(k)'
         /\ \A k \in 2 .. Len(frames) : Over(k)'
<1>1. PICK n, b : n = Len(frames) /\ b = Top.b
  OBVIOUS
<1>2. /\ TypeInv /\ Parts /\ frames # << >> /\ Top.k = "run" /\ n \in Nat /\ n >= 2
      /\ Top = frames[n] /\ b \in Indices /\ ~Yield(b) /\ b \notin memo /\ ~Fired(b)
      /\ (dag[b].dep = 0 \/ dag[b].dep \in memo)
      /\ frames[n - 1].k \in {"outer", "joins"}
      /\ (frames[n - 1].k = "outer" => n = 2 /\ frames[1].b = b)
      /\ (frames[n - 1].k = "joins" => b \notin Pending \cup yieldJoins)
  BY <1>1, CallFacts
<1>3. /\ Mono /\ Keep /\ memo' = memo /\ executed' = executed /\ yieldJoins' = yieldJoins
      /\ store'.joins = store.joins /\ hist'.joins = hist.joins
      /\ frames'[n].k = "end" /\ frames'[n].b = b
      /\ Len(frames') \in {n, n + 1} /\ tx' = tx /\ Pending' = Pending
      /\ \A i \in Indices : ~Yield(i) => (Fired(i)' <=> (Fired(i) \/ i = b))
      /\ \A i \in Indices' \ Indices : Yield(i)'
      /\ \A y \in DOMAIN yieldOwner : y \in DOMAIN yieldOwner' /\ yieldOwner'[y] = yieldOwner[y]
      /\ \A i \in Indices : i \in Indices' /\ dag'[i] = dag[i]
  BY <1>1 DEF Calling, Mono, Pending
<1>4. /\ Len(frames') \in Nat /\ Len(frames') >= Len(frames) - 1 /\ n \in 1 .. Len(frames')
      /\ frames'[1] = frames[1] /\ frames'[n - 1] = frames[n - 1] /\ frames' # << >>
  <2>1. 1 \in 1 .. n - 1 /\ n - 1 \in 1 .. n - 1
    BY <1>2
  <2>2. Len(frames') \in Nat /\ Len(frames') >= n /\ n \in 1 .. Len(frames')
    BY <1>2, <1>3
  <2>3. frames' # << >>
    BY <1>2, <2>2, EmptySeq
  <2> QED
    BY <1>1, <1>2, <1>3, <2>1, <2>2, <2>3 DEF Keep
<1>5. /\ \A i : IsJoin(i)' <=> IsJoin(i)
      /\ \A i \in Indices : Yield(i)' <=> Yield(i)
      /\ \A i \in Indices : deps_own_open_yield(i) => deps_own_open_yield(i)'
      /\ \A i : Fired(i) => Fired(i)'
  <2>1. \A i : IsJoin(i)' <=> IsJoin(i)
    BY <1>3 DEF IsJoin
  <2>2. \A i \in Indices : Yield(i)' <=> Yield(i)
    BY <1>3 DEF Yield
  <2>3. \A i \in Indices : deps_own_open_yield(i) => deps_own_open_yield(i)'
    BY <1>3 DEF deps_own_open_yield
  <2>4. \A i : Fired(i) => Fired(i)'
    BY <1>3 DEF Fired, Mono
  <2> QED
    BY <2>1, <2>2, <2>3, <2>4
<1>6. FiredInv'
  <2>1. ASSUME NEW j \in Pending, Fired(j)' PROVE frames' # << >> /\ frames'[1].b = j
    <3>1. j \in Indices /\ ~Yield(j)
      BY <1>2, <2>1 DEF Parts, MarkInv, Yield
    <3>2. Fired(j) \/ j = b
      BY <1>3, <2>1, <3>1
    <3>3. j = b => frames[1].b = j
      BY <1>2, <2>1
    <3>4. Fired(j) => frames[1].b = j
      BY <1>2, <2>1 DEF Parts, FiredInv
    <3> QED
      BY <1>4, <3>2, <3>3, <3>4
  <2>2. ASSUME NEW j \in Indices', IsJoin(j), ~Fired(j)', j \notin Pending
        PROVE  \E l \in 2 .. Len(frames') : Firing(l, j)'
    <3>1. j \in Indices /\ ~Yield(j)
      BY <1>2, <2>2, JoinFacts
    <3>2. ~Fired(j) /\ j # b
      BY <1>3, <2>2, <3>1
    <3>3. PICK k \in 2 .. Len(frames) : Firing(k, j)
      BY <1>2, <2>2, <3>1, <3>2 DEF Parts, FiredInv
    <3>4. k # n
      BY <1>1, <1>2, <3>2, <3>3 DEF Firing
    <3> QED
      BY <1>1, <1>2, <1>3, <1>4, <3>3, <3>4, FiringKept
  <2> QED
    BY <1>3, <1>5, <2>1, <2>2 DEF FiredInv
<1>7. MemoInv'
  <2>1. ASSUME NEW i \in executed PROVE i \in memo \/ Begun(i)'
    <3>1. Begun(b)'
      BY <1>3, <1>4 DEF Begun, Calls
    <3> QED
      BY <1>1, <1>2, <1>3, <1>4, <3>1, BegunKept DEF Parts, MemoInv
  <2>2. \A i \in memo : (Yield(i) \/ Fired(i) \/ (i \in Pending /\ deps_own_open_yield(i)))'
    BY <1>2, <1>3, <1>5 DEF Parts, MemoInv
  <2>3. ASSUME NEW i \in Indices', Fired(i)', ~Yield(i)' PROVE i \in memo \/ Ending(i)'
    <3>1. i \in Indices /\ ~Yield(i)
      BY <1>3, <1>5, <2>3
    <3>2. Fired(i) \/ i = b
      BY <1>3, <2>3, <3>1
    <3>3. Ending(b)'
      BY <1>3, <1>4 DEF Ending
    <3> QED
      BY <1>2, <1>3, <1>4, <3>1, <3>2, <3>3, BegunKept DEF Parts, MemoInv
  <2>4. ASSUME NEW i \in Indices', Fired(i)', IsJoin(i) PROVE dag'[i].dep \in memo
    <3>1. i \in Indices /\ ~Yield(i) /\ dag[i].dep # 0
      BY <1>2, <2>4, JoinFacts
    <3>2. Fired(i) \/ i = b
      BY <1>3, <2>4, <3>1
    <3>3. dag[i].dep \in memo
      BY <1>2, <2>4, <3>1, <3>2 DEF Parts, MemoInv
    <3> QED
      BY <1>3, <3>1, <3>3
  <2>5. memo \subseteq Indices'
    BY <1>2, <1>3 DEF Parts, MemoInv
  <2> QED
    BY <1>3, <1>5, <2>1, <2>2, <2>3, <2>4, <2>5 DEF MemoInv
<1>8. \A k \in 1 .. n - 1 :
        Placed(k)' /\ (k >= 2 => Over(k)') /\ RunOK(k)' /\ EndOK(k)' /\ EnterOK(k)'
  BY <1>1, <1>2, <1>3, BelowKept DEF Parts
<1>9. Placed(n)' /\ RunOK(n)' /\ EndOK(n)' /\ EnterOK(n)'
  BY <1>2, <1>3 DEF Placed, RunOK, EndOK, EnterOK
<1>10. Over(n)'
  <2>1. Over(n)
    BY <1>1, <1>2 DEF Parts, ShapeInv
  <2>2. CASE frames[n - 1].k = "outer"
    BY <1>1, <1>2, <1>3, <1>4, <2>1, <2>2 DEF Over, Calls
  <2>3. CASE frames[n - 1].k = "joins"
    BY <1>2, <1>3, <1>4, <1>5, <2>3 DEF Over, Calls
  <2> QED
    BY <1>2, <2>2, <2>3
<1>11. \A k \in 1 .. n : k = n \/ k \in 1 .. n - 1
  BY <1>2
<1>12. \A k \in 1 .. n : Placed(k)' /\ RunOK(k)' /\ EndOK(k)' /\ EnterOK(k)'
  BY <1>8, <1>9, <1>11
<1>13. \A k \in 2 .. n : Over(k)'
  <2>1. \A k \in 2 .. n : k \in 1 .. n /\ k >= 2
    BY <1>2
  <2> QED
    BY <1>8, <1>10, <1>11, <2>1
<1> QED
  BY <1>1, <1>3, <1>6, <1>7, <1>12, <1>13

LEMMA CallReturnsStep ==
  ASSUME IInv, CallReturns
  PROVE  IInv'
<1>1. /\ Running /\ hist' = Fire(hist, {BatchId})
      /\ frames' = Append(Below, Frame("end", Top.b, {}))
      /\ UNCHANGED <<dag, executed, memo, yieldJoins, yieldOwner, current>>
      /\ UNCHANGED <<store, phase, tx, saved>>
  BY DEF CallReturns, Ended, threadLocal
<1>2. PICK n, b : n = Len(frames) /\ b = Top.b
  OBVIOUS
<1>3. /\ phase = "drain" /\ dag # << >> /\ TypeInv /\ Parts /\ frames # << >> /\ Top.k = "run"
      /\ n \in Nat /\ n >= 2 /\ Top = frames[n] /\ b \in Indices /\ b \in Nat /\ ~Yield(b)
      /\ Ledger(store, hist') /\ hist'.fired = hist.fired \cup {<<tx, b>>}
      /\ hist'.opened = hist.opened /\ hist'.joins = hist.joins /\ hist'.resumed = hist.resumed
  BY <1>1, <1>2, CallFacts
<1>4. TypeInv'
  BY <1>3, TypeCalls DEF Parts
<1>5. Len(frames') = n /\ Keep /\ frames'[n].k = "end" /\ frames'[n].b = b
  <2>1. Frame("end", b, {}) \in FrameSet /\ frames \in Seq(FrameSet)
        /\ Frame("end", b, {}).k = "end" /\ Frame("end", b, {}).b = b
    BY <1>3, FrameIn DEF TypeInv
  <2>2. Swap(Frame("end", b, {}))
    BY <1>1, <1>2, <1>3, <2>1, Swapped
  <2> QED
    BY <1>2, <2>1, <2>2 DEF Swap
<1>6. /\ Indices' = Indices
      /\ \A i : /\ IsJoin(i)' <=> IsJoin(i)
                /\ Yield(i)' <=> Yield(i)
                /\ Waited(i)' <=> Waited(i)
  BY <1>1, <1>3 DEF IsJoin, Yield, Waited, Before, Indices
<1>7. Mono
  BY <1>1, <1>3 DEF Mono, Pending, Indices
<1>8. Calling
  <2>1. \A i : Fired(i)' <=> (Fired(i) \/ i = b)
    BY <1>1, <1>3 DEF Fired
  <2> QED
    BY <1>1, <1>2, <1>3, <1>5, <1>6, <1>7, <2>1 DEF Calling
<1>9. /\ FiredInv' /\ MemoInv' /\ Pending' = Pending
      /\ \A k \in 1 .. n : Placed(k)' /\ RunOK(k)' /\ EndOK(k)' /\ EnterOK(k)'
      /\ \A k \in 2 .. n : Over(k)'
  BY <1>1, <1>2, <1>4, <1>8, CallParts
<1>10. Ledger(store, hist)' /\ DagInv' /\ EntryInv' /\ OwnerInv' /\ MarkInv'
  <2>1. DagInv' /\ EntryInv'
    BY <1>1, <1>3, <1>6 DEF Parts, DagInv, EntryInv
  <2>2. OwnerInv'
    BY <1>1, <1>3, <1>6 DEF Parts, OwnerInv
  <2>3. MarkInv'
    BY <1>1, <1>3, <1>6, <1>9 DEF Parts, MarkInv
  <2> QED
    BY <1>1, <1>3, <2>1, <2>2, <2>3
<1>11. IdInv'
  <2>1. <<tx, b>>[1] = tx /\ <<tx, b>>[2] = b
    OBVIOUS
  <2> QED
    BY <1>1, <1>3, <1>6, <2>1, ZenonT(60) DEF Parts, IdInv
<1>12. ShapeInv' /\ RunInv'
  <2>1. Len(frames') = n /\ n # 1 /\ phase' # "request"
    BY <1>1, <1>3, <1>5
  <2> QED
    BY <1>9, <2>1 DEF ShapeInv, RunInv
<1>13. TodoInv'
  <2>1. \A k \in 1 .. Len(frames') :
          frames'[k].k = "joins" => k \in 1 .. Len(frames) /\ frames'[k] = frames[k]
    <3>1. \A k \in 1 .. n : k = n \/ k \in 1 .. n - 1
      BY <1>3
    <3> QED
      BY <1>2, <1>5, <3>1 DEF Keep
  <2>2. \A k \in 1 .. Len(frames') : frames'[k].k = "joins" => frames'[k].todo = Pending'
    BY <1>3, <1>9, <2>1 DEF Parts, TodoInv
  <2>3. \A k, l \in 1 .. Len(frames') :
          k < l /\ frames'[k].k = "joins" /\ frames'[l].k = "joins" => Pending' = {}
    BY <1>3, <1>9, <2>1 DEF Parts, TodoInv
  <2>4. ASSUME Joining', NEW j \in Pending PROVE Ready(j)'
    <3>1. Joining
      BY <2>1, <2>4 DEF Joining
    <3>2. Ready(j)
      BY <1>3, <2>4, <3>1 DEF Parts, TodoInv
    <3>3. \A y : OwnerOf(y)' = OwnerOf(y)
      BY <1>1 DEF OwnerOf
    <3>4. frames'[1] = frames[1]
      BY <1>2, <1>3, <1>5 DEF Keep
    <3> QED
      BY <1>1, <1>6, <3>2, <3>3, <3>4 DEF Ready
  <2>5. ASSUME NEW j \in Pending, NEW y \in DOMAIN yieldOwner,
               yieldOwner[y] = dag[j].dep, <<tx, y>> \in hist.resumed
        PROVE  Joining'
    <3>1. Joining
      BY <1>3, <2>5 DEF Parts, TodoInv
    <3>2. Len(frames') \in Nat /\ Len(frames') >= Len(frames) - 1
      BY <1>2, <1>3, <1>5
    <3> QED
      BY <1>3, <1>5, <3>1, <3>2, BegunKept
  <2> QED
    BY <1>1, <1>3, <1>9, <2>2, <2>3, <2>4, <2>5 DEF TodoInv
<1>14. Parts'
  BY <1>9, <1>10, <1>11, <1>12, <1>13 DEF Parts
<1> QED
  BY <1>3, <1>4, <1>7, <1>14, RequestStep

LEMMA CallYieldsStep ==
  ASSUME IInv, CallYields, Overlap = FALSE
  PROVE  IInv'
<1>1. PICK returned \in BOOLEAN :
        frames' = Ended \o IF returned THEN <<Frame("enter", Len(dag) + 1, {})>> ELSE << >>
  BY DEF CallYields
<1>2. /\ Running /\ store.yields = Empty
      /\ promise_yield_create(dag[Top.b].acct, Top.b, Fire(hist, {BatchId}))
      /\ UNCHANGED <<executed, memo, yieldJoins, current, phase, tx, saved>>
  BY DEF CallYields
<1>3. PICK n, b, y, h : n = Len(frames) /\ b = Top.b /\ y = Len(dag) + 1 /\ h = Fire(hist, {BatchId})
  OBVIOUS
<1>0. DOMAIN store.yields = {}
  BY <1>2 DEF Empty
<1>4. /\ phase = "drain" /\ dag # << >> /\ TypeInv /\ Parts /\ frames # << >> /\ Top.k = "run"
      /\ n \in Nat /\ n >= 2 /\ Top = frames[n] /\ b \in Indices /\ b \in Nat /\ b # 0
      /\ ~Yield(b) /\ b \notin memo
      /\ current = b /\ frames[n - 1].k \in {"outer", "joins"}
      /\ (frames[n - 1].k = "outer" => n = 2 /\ frames[1].b = b /\ ~Joining)
      /\ h \in Histories /\ Ledger(store, h) /\ h.fired = hist.fired \cup {<<tx, b>>}
      /\ h.opened = hist.opened /\ h.joins = hist.joins /\ h.resumed = hist.resumed
  BY <1>0, <1>2, <1>3, CallFacts
<1>5. TypeInv'
  BY <1>4, TypeCalls DEF Parts
<1>6. /\ Len(dag) \in Nat /\ y \in Nat /\ y # 0 /\ y \notin Indices /\ Indices \subseteq Nat
      /\ tx \in Nat /\ current \in Nat /\ dag[b].acct \in Accounts
      /\ Indices = 1 .. Len(dag)
  BY <1>3, <1>4, FrameFacts DEF TypeInv, Indices
<1>7. /\ Len(dag') = y /\ dag'[y].kind = "yield" /\ dag'[y].dep = 0
      /\ \A i \in Indices : dag'[i] = dag[i]
      /\ (current = 0 => yieldOwner' = yieldOwner)
      /\ (current # 0 => yieldOwner' = With(yieldOwner, y, current))
      /\ store'.joins = store.joins /\ store'.yields = With(store.yields, y, <<tx, y>>)
      /\ hist'.opened = With(h.opened, <<tx, y>>, <<tx, b>>)
      /\ hist'.fired = h.fired /\ hist'.again = h.again
      /\ hist'.joins = h.joins /\ hist'.resumed = h.resumed
      /\ <<tx, y>> \in Ids /\ <<tx, b>> \in Ids
  <2>1. /\ Grown(Batch("yield", 0, dag[b].acct))
        /\ (current = 0 => yieldOwner' = yieldOwner)
        /\ (current # 0 => yieldOwner' = With(yieldOwner, Len(dag) + 1, current))
        /\ store'.joins = store.joins
        /\ store'.yields = With(store.yields, Len(dag) + 1, NewId)
        /\ hist'.opened = With(h.opened, NewId, <<tx, b>>)
        /\ hist'.fired = h.fired /\ hist'.again = h.again
        /\ hist'.joins = h.joins /\ hist'.resumed = h.resumed
        /\ NewId = <<tx, Len(dag) + 1>> /\ NewId \in Ids /\ <<tx, b>> \in Ids
    BY <1>2, <1>3, <1>4, <1>6, YieldCreated
  <2>2. Len(dag') = y /\ dag'[y].kind = "yield" /\ dag'[y].dep = 0
        /\ \A i \in Indices : dag'[i] = dag[i]
    BY <1>3, <1>6, <2>1, BatchIn DEF Grown
  <2> QED
    BY <1>3, <2>1, <2>2
<1>8. /\ Indices' = Indices \cup {y} /\ Yield(y)' /\ \A i \in Indices : Yield(i)' <=> Yield(i)
  BY <1>3, <1>6, <1>7 DEF Indices, Yield
<1>9. /\ DOMAIN store'.yields = {y} /\ store'.yields[y] = <<tx, y>> /\ DOMAIN store.yields = {}
  <2>1. DOMAIN store.yields = {}
    BY <1>2 DEF Empty
  <2> QED
    BY <1>7, <2>1 DEF With
<1>10. /\ DOMAIN hist'.opened = DOMAIN hist.opened \cup {<<tx, y>>}
       /\ hist'.opened[<<tx, y>>] = <<tx, b>>
       /\ \A id \in DOMAIN hist.opened : id # <<tx, y>> => hist'.opened[id] = hist.opened[id]
  BY <1>4, <1>7 DEF With
<1>11. <<tx, y>> \notin DOMAIN hist.opened \cup DOMAIN hist.joins \cup h.fired
  <2>1. <<tx, y>>[1] = tx /\ <<tx, y>>[2] = y /\ ~(tx < tx)
    BY <1>6
  <2>2. <<tx, y>> \notin DOMAIN hist.opened \cup DOMAIN hist.joins \cup hist.fired
    BY <1>4, <1>6, <2>1 DEF Parts, IdInv
  <2>3. y # b
    BY <1>4, <1>6
  <2>4. <<tx, y>> # <<tx, b>>
    BY <2>3
  <2> QED
    BY <1>4, <2>2, <2>4
<1>12. \A i \in Indices : dag[i].dep # y /\ dag[i].dep \in Nat
  BY <1>3, <1>4, <1>6, FrameFacts DEF Parts, DagInv
<1>13. \A j \in DOMAIN h.joins \cap h.fired : h.joins[j] # <<tx, b>>
  <2>1. SUFFICES ASSUME NEW j \in DOMAIN hist.joins \cap h.fired, hist.joins[j] = <<tx, b>>
                 PROVE  FALSE
    BY <1>4
  <2>2. hist.joins[j][1] = tx /\ hist.joins[j][2] = b /\ j[1] = hist.joins[j][1]
    BY <1>4, <2>1 DEF Ledger
  <2>3. ~(j[1] < tx)
    BY <1>6, <2>2
  <2>4. j[2] \in Indices /\ dag[j[2]].kind = "then" /\ hist.joins[j] = <<tx, dag[j[2]].dep>>
    BY <1>4, <2>1, <2>3 DEF Parts, IdInv
  <2>5. dag[j[2]].dep = b
    BY <2>2, <2>4
  <2>7. j = <<tx, j[2]>>
    <3>1. j \in Ids
      BY <1>4, <2>1, HistoryFacts DEF TypeInv
    <3> QED
      BY <2>2, <3>1 DEF Ids
  <2>8. j # <<tx, b>>
    <3>1. j[2] # b
      BY <1>4, <1>6, <2>4, <2>5 DEF Parts, DagInv
    <3> QED
      BY <2>7, <3>1
  <2>9. IsJoin(j[2]) /\ Fired(j[2])
    BY <1>4, <2>1, <2>7, <2>8 DEF IsJoin, Fired
  <2> QED
    BY <1>4, <2>4, <2>5, <2>9 DEF Parts, MemoInv
<1>29. \A j \in DOMAIN h.joins : h.joins[j] # <<tx, y>>
  <2>1. SUFFICES ASSUME NEW j \in DOMAIN hist.joins, hist.joins[j] = <<tx, y>> PROVE FALSE
    BY <1>4
  <2>2. hist.joins[j][1] = tx /\ hist.joins[j][2] = y /\ j[1] = hist.joins[j][1]
    BY <1>4, <2>1 DEF Ledger
  <2>3. ~(j[1] < tx)
    BY <1>6, <2>2
  <2>4. j[2] \in Indices /\ hist.joins[j] = <<tx, dag[j[2]].dep>>
    BY <1>4, <2>1, <2>3 DEF Parts, IdInv
  <2> QED
    BY <1>12, <2>2, <2>4
<1>14. Ledger(store, hist)'
  <2>1. PICK s, g : s = store' /\ g = hist'
    OBVIOUS
  <2>2. /\ s.yields = With(store.yields, y, <<tx, y>>)
        /\ g.fired = h.fired /\ g.again = h.again /\ g.joins = h.joins /\ g.resumed = h.resumed
        /\ g.opened = With(h.opened, <<tx, y>>, <<tx, b>>)
    BY <1>7, <2>1
  <2>3. PICK id, o : id = <<tx, y>> /\ o = <<tx, b>>
    OBVIOUS
  <2>4. /\ id \in Ids /\ o \in Ids /\ s.yields = With(store.yields, y, id)
        /\ g.opened = With(h.opened, id, o)
        /\ id \notin DOMAIN h.opened /\ id \notin DOMAIN h.joins /\ id \notin h.fired
        /\ \A j \in DOMAIN h.joins : h.joins[j] # id
        /\ \A j \in DOMAIN h.joins \cap h.fired : h.joins[j] # o
    BY <1>4, <1>7, <1>11, <1>13, <1>29, <2>2, <2>3
  <2>5. PICK st : st = store
    OBVIOUS
  <2>6. /\ Ledger(st, h) /\ DOMAIN st.yields = {} /\ s.yields = With(st.yields, y, id)
        /\ g.fired = h.fired /\ g.again = h.again /\ g.joins = h.joins
        /\ g.resumed = h.resumed /\ g.opened = With(h.opened, id, o)
    BY <1>4, <1>9, <2>2, <2>4, <2>5
  <2>7. Ledger(s, g)
    BY <2>4, <2>6, OpenLedger
  <2> QED
    BY <2>1, <2>7
<1>15. /\ DOMAIN yieldOwner' = DOMAIN yieldOwner \cup {y} /\ yieldOwner'[y] = b
       /\ \A i \in DOMAIN yieldOwner : i \in Indices /\ i # y /\ yieldOwner'[i] = yieldOwner[i]
  <2>1. \A i \in DOMAIN yieldOwner : i \in Indices /\ i # y
    BY <1>4, <1>6 DEF Parts, OwnerInv
  <2>2. yieldOwner' = With(yieldOwner, y, b)
    BY <1>4, <1>7
  <2> QED
    BY <2>1, <2>2 DEF With
<1>16. DagInv' /\ EntryInv'
  BY <1>2, <1>4, <1>6, <1>7, <1>8 DEF Parts, DagInv, EntryInv
<1>17. IdInv'
  <2>1. ASSUME NEW id \in DOMAIN hist'.opened
        PROVE  \/ id[1] < tx /\ id \in hist.resumed
               \/ /\ id[1] = tx /\ id[2] \in Indices' /\ Yield(id[2])'
                  /\ hist'.opened[id][1] = tx
                  /\ hist'.opened[id][2] # 0 =>
                       /\ id[2] \in DOMAIN yieldOwner'
                       /\ yieldOwner'[id[2]] = hist'.opened[id][2]
    <3>1. CASE id = <<tx, y>>
      <4>1. id[1] = tx /\ id[2] = y /\ hist'.opened[id][1] = tx /\ hist'.opened[id][2] = b
        BY <1>10, <3>1
      <4> QED
        BY <1>4, <1>8, <1>15, <4>1
    <3>2. CASE id # <<tx, y>>
      <4>1. id \in DOMAIN hist.opened /\ hist'.opened[id] = hist.opened[id]
        BY <1>10, <2>1, <3>2
      <4>2. \/ id[1] < tx /\ id \in hist.resumed
            \/ /\ id[1] = tx /\ id[2] \in Indices /\ Yield(id[2])
               /\ hist.opened[id][1] = tx
               /\ hist.opened[id][2] # 0 =>
                    /\ id[2] \in DOMAIN yieldOwner
                    /\ yieldOwner[id[2]] = hist.opened[id][2]
        BY <1>4, <4>1 DEF Parts, IdInv
      <4> QED
        BY <1>8, <1>15, <4>1, <4>2
    <3> QED
      BY <3>1, <3>2
  <2>2. ASSUME NEW id \in DOMAIN hist'.joins
        PROVE  \/ id[1] < tx /\ id \in hist'.fired
               \/ /\ id[1] = tx /\ id[2] \in Indices' /\ dag'[id[2]].kind = "then"
                  /\ hist'.joins[id] = <<tx, dag'[id[2]].dep>>
    <3>1. id \in DOMAIN hist.joins /\ hist'.joins[id] = hist.joins[id]
      BY <1>4, <1>7, <2>2
    <3>2. \/ id[1] < tx /\ id \in hist.fired
          \/ /\ id[1] = tx /\ id[2] \in Indices /\ dag[id[2]].kind = "then"
             /\ hist.joins[id] = <<tx, dag[id[2]].dep>>
      BY <1>4, <3>1 DEF Parts, IdInv
    <3>3. hist.fired \subseteq hist'.fired /\ Indices \subseteq Indices'
      BY <1>4, <1>7, <1>8
    <3> QED
      BY <1>7, <3>1, <3>2, <3>3
  <2>3. \A id \in hist'.fired : id[1] < tx \/ (id[1] = tx /\ id[2] \in Indices')
    <3>1. <<tx, b>>[1] = tx /\ <<tx, b>>[2] = b
      OBVIOUS
    <3> QED
      BY <1>4, <1>7, <1>8, <3>1 DEF Parts, IdInv
  <2> QED
    BY <1>2, <1>4, <1>7, <2>1, <2>2, <2>3 DEF IdInv
<1>18. OwnerInv'
  <2>1. ASSUME NEW i \in DOMAIN yieldOwner'
        PROVE  /\ i \in Indices' /\ Yield(i)' /\ yieldOwner'[i] \in Indices'
               /\ <<tx, i>> \in DOMAIN hist'.opened
               /\ hist'.opened[<<tx, i>>] = <<tx, yieldOwner'[i]>>
    <3>1. CASE i = y
      BY <1>4, <1>8, <1>10, <1>15, <2>1, <3>1
    <3>2. CASE i # y
      <4>1. i \in DOMAIN yieldOwner /\ i \in Indices /\ yieldOwner'[i] = yieldOwner[i]
        BY <1>15, <2>1, <3>2
      <4>2. /\ Yield(i) /\ yieldOwner[i] \in Indices
            /\ <<tx, i>> \in DOMAIN hist.opened
            /\ hist.opened[<<tx, i>>] = <<tx, yieldOwner[i]>>
        BY <1>4, <4>1 DEF Parts, OwnerInv
      <4>3. <<tx, i>> # <<tx, y>>
        BY <3>2
      <4> QED
        BY <1>8, <1>10, <4>1, <4>2, <4>3
    <3> QED
      BY <3>1, <3>2
  <2> QED
    BY <1>2, <2>1 DEF OwnerInv
<1>19. Pending' = Pending
  BY <1>7 DEF Pending
<1>20. MarkInv'
  <2>1. \A j : IsJoin(j)' <=> IsJoin(j)
    BY <1>2, <1>4, <1>7 DEF IsJoin
  <2>2. /\ \A j \in Pending :
             /\ j \in Indices' /\ dag'[j].kind = "then"
             /\ store'.joins[j] = <<tx, j>> /\ IsJoin(j)
        /\ \A j \in yieldJoins : j \in Indices' /\ dag'[j].kind = "then"
        /\ Pending \subseteq yieldJoins /\ yieldJoins \subseteq Pending \cup memo
    BY <1>4, <1>7, <1>8, ZenonT(60) DEF Parts, MarkInv
  <2> QED
    BY <1>2, <1>8, <1>9, <1>19, <2>1, <2>2 DEF MarkInv
<1>21. /\ Keep /\ frames'[n].k = "end" /\ frames'[n].b = b
       /\ (~returned => Len(frames') = n)
       /\ (returned => Len(frames') = n + 1 /\ frames'[n + 1].k = "enter" /\ frames'[n + 1].b = y)
  <2>1. /\ Frame("end", b, {}) \in FrameSet /\ Frame("enter", y, {}) \in FrameSet
        /\ Frame("end", b, {}).k = "end" /\ Frame("end", b, {}).b = b
        /\ Frame("enter", y, {}).k = "enter" /\ Frame("enter", y, {}).b = y
        /\ frames \in Seq(FrameSet)
    BY <1>4, <1>6, FrameIn DEF TypeInv
  <2>2. CASE ~returned
    <3>1. Append(Below, Frame("end", b, {})) \in Seq(FrameSet)
      BY <1>4, <2>1, BelowFacts, AppendProperties
    <3>2. frames' = Append(Below, Frame("end", b, {}))
      BY <1>1, <1>3, <2>2, <3>1, ConcatEmptySeq DEF Ended
    <3>3. Swap(Frame("end", b, {}))
      BY <1>4, <2>1, <3>2, Swapped
    <3> QED
      BY <1>3, <2>1, <2>2, <3>3 DEF Swap
  <2>3. CASE returned
    <3>1. frames' = Append(Below, Frame("end", b, {})) \o <<Frame("enter", y, {})>>
      BY <1>1, <1>3, <2>3 DEF Ended
    <3>2. Swap2(Frame("end", b, {}), Frame("enter", y, {}))
      BY <1>4, <2>1, <3>1, Swapped2
    <3> QED
      BY <1>3, <2>1, <2>3, <3>2 DEF Swap2
  <2> QED
    BY <2>2, <2>3
<1>22. Mono
  BY <1>2, <1>4, <1>7, <1>8, <1>19 DEF Mono
<1>23. Calling
  <2>1. \A i : Fired(i)' <=> (Fired(i) \/ i = b)
    BY <1>2, <1>4, <1>7 DEF Fired
  <2>2. \A i \in Indices' \ Indices : Yield(i)'
    BY <1>8
  <2>3. Len(frames') \in {n, n + 1}
    BY <1>21
  <2> QED
    BY <1>2, <1>3, <1>4, <1>7, <1>15, <1>21, <1>22, <2>1, <2>2, <2>3 DEF Calling
<1>24. /\ FiredInv' /\ MemoInv'
       /\ \A k \in 1 .. n : Placed(k)' /\ RunOK(k)' /\ EndOK(k)' /\ EnterOK(k)'
       /\ \A k \in 2 .. n : Over(k)'
  BY <1>2, <1>3, <1>5, <1>23, CallParts
<1>25. ASSUME returned
       PROVE  Placed(n + 1)' /\ Over(n + 1)' /\ RunOK(n + 1)' /\ EndOK(n + 1)' /\ EnterOK(n + 1)'
  <2>1. (n + 1) - 1 = n /\ n + 1 # 1 /\ y \notin memo /\ Len(frames') = n + 1
    BY <1>4, <1>6, <1>21, <1>25 DEF Parts, MemoInv
  <2>2. Placed(n + 1)' /\ RunOK(n + 1)' /\ EndOK(n + 1)' /\ EnterOK(n + 1)'
    BY <1>2, <1>8, <1>21, <1>25, <2>1 DEF Placed, RunOK, EndOK, EnterOK
  <2>3. Over(n + 1)'
    BY <1>8, <1>21, <1>25, <2>1 DEF Over, Calls
  <2> QED
    BY <2>2, <2>3
<1>26. ShapeInv' /\ RunInv'
  <2>1. /\ Len(frames') # 1 /\ phase' # "request"
        /\ \A k \in 1 .. Len(frames') : k \in 1 .. n \/ (k = n + 1 /\ returned)
        /\ \A k \in 2 .. Len(frames') : k \in 2 .. n \/ (k = n + 1 /\ returned)
    BY <1>2, <1>4, <1>21
  <2>2. \A k \in 1 .. Len(frames') : Placed(k)' /\ RunOK(k)' /\ EndOK(k)' /\ EnterOK(k)'
    BY <1>24, <1>25, <2>1
  <2>3. \A k \in 2 .. Len(frames') : Over(k)'
    BY <1>24, <1>25, <2>1
  <2> QED
    BY <2>1, <2>2, <2>3 DEF ShapeInv, RunInv
<1>27. TodoInv'
  <2>1. \A k \in 1 .. Len(frames') :
          frames'[k].k = "joins" => k \in 1 .. Len(frames) /\ frames'[k] = frames[k]
    <3>1. \A k \in 1 .. Len(frames') : k = n \/ k \in 1 .. n - 1 \/ (k = n + 1 /\ returned)
      BY <1>4, <1>21
    <3>2. \A k \in 1 .. n - 1 : k \in 1 .. n
      BY <1>4
    <3> QED
      BY <1>3, <1>21, <3>1, <3>2 DEF Keep
  <2>2. \A k \in 1 .. Len(frames') : frames'[k].k = "joins" => frames'[k].todo = Pending'
    BY <1>4, <1>19, <2>1 DEF Parts, TodoInv
  <2>3. \A k, l \in 1 .. Len(frames') :
          k < l /\ frames'[k].k = "joins" /\ frames'[l].k = "joins" => Pending' = {}
    BY <1>4, <1>19, <2>1 DEF Parts, TodoInv
  <2>4. ASSUME Joining', NEW j \in Pending PROVE Ready(j)'
    <3>1. Joining
      BY <2>1, <2>4 DEF Joining
    <3>2. Ready(j)
      BY <1>4, <2>4, <3>1 DEF Parts, TodoInv
    <3>3. j \in Indices /\ IsJoin(j)
      BY <1>4, <2>4 DEF Parts, MarkInv
    <3>4. hist.joins[<<tx, j>>] = <<tx, dag[j].dep>>
      BY <1>4, <3>3, JoinFacts
    <3>5. dag[j].dep # b /\ dag[j].dep # y /\ dag'[j] = dag[j]
      BY <1>4, <1>7, <1>12, <3>2, <3>3 DEF Ready
    <3>6. OwnerOf(y)' = b
      <4>1. y \in DOMAIN yieldOwner' /\ yieldOwner'[y] = b
        BY <1>4, <1>15, <3>2
      <4> QED
        BY <4>1 DEF OwnerOf
    <3>7. Waited(j)'
      <4>1. Before(hist, <<tx, j>>) \subseteq hist.resumed
        BY <3>2 DEF Ready, Waited
      <4>2. <<tx, dag[j].dep>> # <<tx, b>>
        BY <3>5
      <4>3. \A id \in DOMAIN hist'.opened :
              hist'.opened[id] = hist'.joins[<<tx, j>>] => id \in Before(hist, <<tx, j>>)
        BY <1>4, <1>7, <1>10, <3>2, <3>4, <4>2 DEF Before
      <4> QED
        BY <1>2, <1>4, <1>7, <4>1, <4>3 DEF Waited, Before
    <3>8. frames'[1] = frames[1]
      BY <1>3, <1>4, <1>21 DEF Keep
    <3>9. j \notin memo /\ dag[j].dep \in memo /\ j # frames[1].b
      BY <3>2 DEF Ready
    <3> QED
      BY <1>2, <1>4, <1>9, <3>5, <3>6, <3>7, <3>8, <3>9 DEF Ready
  <2>5. ASSUME NEW j \in Pending, NEW i \in DOMAIN yieldOwner',
               yieldOwner'[i] = dag'[j].dep, <<tx, i>> \in hist.resumed
        PROVE  Joining'
    <3>1. i # y
      BY <1>4, <1>11, <2>5 DEF Parts, Ledger
    <3>2. i \in DOMAIN yieldOwner /\ yieldOwner'[i] = yieldOwner[i]
      BY <1>15, <2>5, <3>1
    <3>3. dag'[j] = dag[j]
      BY <1>4, <1>7, <2>5 DEF Parts, MarkInv
    <3>4. Joining
      BY <1>4, <2>5, <3>2, <3>3 DEF Parts, TodoInv
    <3>5. Len(frames') \in Nat /\ Len(frames') >= Len(frames) - 1
      BY <1>3, <1>4, <1>21
    <3> QED
      BY <1>4, <1>21, <3>4, <3>5, BegunKept
  <2> QED
    BY <1>2, <1>4, <1>7, <1>19, <2>2, <2>3, <2>4, <2>5 DEF TodoInv
<1>28. Parts'
  BY <1>14, <1>16, <1>17, <1>18, <1>20, <1>24, <1>26, <1>27 DEF Parts
<1> QED
  BY <1>4, <1>5, <1>22, <1>28, RequestStep

\* While one request is pending, what a resume fires is all that is pending.
LEMMA AllJoins ==
  ASSUME TypeInv, Parts, NEW y, Alone(y)
  PROVE  JoinsOn(y) = Pending
<1>1. ASSUME NEW j \in Pending PROVE j \in JoinsOn(y)
  <2>1. j \in Indices /\ dag[j].dep \in {y, OwnerOf(y)} /\ dag[j].dep # 0
    BY <1>1 DEF Alone, Pending, Parts, MarkInv, DagInv
  <2> QED
    BY <1>1, <2>1 DEF JoinsOn, joins_on_batch, is_yield_join, Pending
<1>2. ASSUME NEW j \in JoinsOn(y) PROVE j \in Pending
  <2>1. j \in yieldJoins \/ j \in Pending
    BY <1>2 DEF JoinsOn, joins_on_batch, joins_for_owner_batch, is_yield_join, Pending
  <2> QED
    BY <1>2, <2>1 DEF Alone, Parts, MarkInv
<1> QED
  BY <1>1, <1>2

LEMMA CallResumesStep ==
  ASSUME IInv, CallResumes, Overlap = FALSE
  PROVE  IInv'
<1>1. PICK y \in Indices \cup DOMAIN store.yields :
        Alone(y) /\ promise_yield_resume(y, Fire(hist, {BatchId}), Ended)
  BY DEF CallResumes
<1>2. Running /\ UNCHANGED <<dag, executed, memo, yieldOwner, current, phase, tx, saved>>
  BY DEF CallResumes
<1>3. PICK n, b, h : n = Len(frames) /\ b = Top.b /\ h = Fire(hist, {BatchId})
  OBVIOUS
<1>4. /\ phase = "drain" /\ dag # << >> /\ TypeInv /\ Parts /\ frames # << >> /\ Top.k = "run"
      /\ n \in Nat /\ n >= 2 /\ Top = frames[n] /\ b \in Indices /\ b \in Nat
      /\ ~Yield(b)
      /\ frames[n - 1].k \in {"outer", "joins"}
      /\ (frames[n - 1].k = "outer" => frames[1].b = b)
      /\ h \in Histories /\ Ledger(store, h) /\ h.fired = hist.fired \cup {<<tx, b>>}
      /\ h.opened = hist.opened /\ h.joins = hist.joins /\ h.resumed = hist.resumed
  BY <1>2, <1>3, CallFacts
<1>5. TypeInv'
  BY <1>4, TypeCalls DEF Parts
<1>6. /\ y \in DOMAIN store.yields /\ y \in Indices /\ Yield(y) /\ store.yields[y] = <<tx, y>>
      /\ b \notin Pending
  BY <1>1, <1>3, <1>4 DEF Alone, Parts, MarkInv, Pending
<1>7. Named(y) = <<tx, y>>
  BY <1>6 DEF Named
<1>8. /\ <<tx, y>> \in Ids /\ y \in Nat
      /\ store'.joins = store.joins /\ store'.owners = store.owners
      /\ store'.yields = Without(store.yields, {y})
      /\ hist'.again = h.again \cup (h.fired \cap {<<tx, y>>})
      /\ hist'.fired = h.fired \cup {<<tx, y>>} /\ hist'.opened = h.opened
      /\ hist'.joins = h.joins /\ hist'.resumed = h.resumed \cup {<<tx, y>>}
      /\ Pending \subseteq Nat
  <2>1. promise_yield_resume(y, h, Ended)
    BY <1>1, <1>3
  <2>2. JoinsOn(y) = Pending
    BY <1>1, <1>4, AllJoins
  <2>3. /\ Named(y) \in Ids /\ y \in Nat
        /\ store'.joins = store.joins /\ store'.owners = store.owners
        /\ store'.yields = Without(store.yields, {y})
        /\ hist'.again = h.again \cup (h.fired \cap {Named(y)})
        /\ hist'.fired = h.fired \cup {Named(y)} /\ hist'.opened = h.opened
        /\ hist'.joins = h.joins /\ hist'.resumed = h.resumed \cup {Named(y)}
        /\ JoinsOn(y) \subseteq Nat
    BY <1>4, <2>1, Resumed
  <2> QED
    BY <1>7, <2>2, <2>3
<1>9. yieldJoins' = yieldJoins /\ frames' = Append(Ended, Frame("joins", y, Pending))
  <2>1. JoinsOn(y) = Pending
    BY <1>1, <1>4, AllJoins
  <2>2. yieldJoins' = yieldJoins
    BY <1>1, <1>4, Marked DEF promise_yield_resume, Parts
  <2> QED
    BY <1>1, <2>1, <2>2 DEF promise_yield_resume
<1>10. /\ Keep /\ Len(frames') = n + 1 /\ frames'[n].k = "end" /\ frames'[n].b = b
       /\ frames'[n + 1].k = "joins" /\ frames'[n + 1].todo = Pending
  <2>1. PICK f, g : f = Frame("end", b, {}) /\ g = Frame("joins", y, Pending)
    OBVIOUS
  <2>2. /\ f \in FrameSet /\ f.k = "end" /\ f.b = b
        /\ g \in FrameSet /\ g.k = "joins" /\ g.todo = Pending
    <3>1. b \in Nat /\ y \in Nat /\ Pending \in SUBSET Nat /\ {} \in SUBSET Nat
      BY <1>4, <1>8
    <3> QED
      BY <2>1, <3>1, FrameIn
  <2>3. frames' = Append(Append(Below, f), g) /\ frames \in Seq(FrameSet)
    BY <1>3, <1>4, <1>9, <2>1 DEF Ended, TypeInv
  <2>4. Swap2(f, g)
    BY <1>4, <2>2, <2>3, Swapped2
  <2> QED
    BY <1>3, <2>2, <2>4 DEF Swap2
<1>11. /\ Indices' = Indices /\ Pending' = Pending
       /\ \A i : /\ IsJoin(i)' <=> IsJoin(i)
                 /\ Yield(i)' <=> Yield(i)
  BY <1>2, <1>4, <1>8 DEF Indices, Pending, IsJoin, Yield
<1>12. Ledger(store, hist)'
  <2>1. PICK s, g, st, id : s = store' /\ g = hist' /\ st = store /\ id = <<tx, y>>
    OBVIOUS
  <2>2. /\ y \in DOMAIN st.yields /\ id \in Ids /\ Ledger(st, h) /\ id = st.yields[y]
        /\ s.yields = Without(st.yields, {y})
        /\ g.fired = h.fired \cup {id} /\ g.again = h.again \cup (h.fired \cap {id})
        /\ g.opened = h.opened /\ g.joins = h.joins /\ g.resumed = h.resumed \cup {id}
    BY <1>4, <1>6, <1>8, <2>1
  <2>3. Ledger(s, g)
    BY <2>2, ResumeLedger
  <2> QED
    BY <2>1, <2>3
<1>13. DOMAIN store'.yields = {} /\ DOMAIN hist.opened \subseteq hist'.resumed
  <2>1. DOMAIN store.yields = {y} /\ DOMAIN h.opened \ h.resumed = {<<tx, y>>}
    <3>1. PICK st : st = store
      OBVIOUS
    <3>2. Ledger(st, h) /\ y \in DOMAIN st.yields /\ st.yields[y] = <<tx, y>>
      BY <1>4, <1>6, <3>1
    <3> QED
      BY <3>1, <3>2, OneOpen
  <2> QED
    BY <1>4, <1>8, <2>1 DEF Without
<1>14. \A i : Waited(i)'
  BY <1>4, <1>8, <1>13 DEF Waited, Before
<1>15. DagInv' /\ EntryInv' /\ OwnerInv'
  <2>1. DagInv' /\ EntryInv'
    BY <1>2, <1>4, <1>11 DEF Parts, DagInv, EntryInv
  <2>2. OwnerInv'
    BY <1>2, <1>4, <1>8, <1>11 DEF Parts, OwnerInv
  <2> QED
    BY <2>1, <2>2
<1>16. IdInv'
  <2>1. /\ <<tx, b>>[1] = tx /\ <<tx, b>>[2] = b /\ <<tx, y>>[1] = tx /\ <<tx, y>>[2] = y
    OBVIOUS
  <2>2. \A id \in hist'.fired : id[1] < tx \/ (id[1] = tx /\ id[2] \in Indices)
    BY <1>4, <1>6, <1>8, <2>1 DEF Parts, IdInv
  <2>3. hist.resumed \subseteq hist'.resumed /\ hist.fired \subseteq hist'.fired
        /\ hist'.opened = hist.opened /\ hist'.joins = hist.joins
    BY <1>4, <1>8
  <2> QED
    BY <1>2, <1>4, <1>11, <2>2, <2>3 DEF Parts, IdInv
<1>17. MarkInv'
  BY <1>2, <1>4, <1>8, <1>9, <1>11, <1>13 DEF Parts, MarkInv
<1>18. Mono
  BY <1>2, <1>4, <1>8, <1>9, <1>11 DEF Mono
<1>19. Calling
  <2>1. \A i \in Indices : ~Yield(i) => (Fired(i)' <=> (Fired(i) \/ i = b))
    <3>1. \A i \in Indices : ~Yield(i) => i # y
      BY <1>6
    <3> QED
      BY <1>2, <1>4, <1>8, <3>1 DEF Fired
  <2> QED
    BY <1>2, <1>3, <1>4, <1>8, <1>9, <1>10, <1>11, <1>18, <2>1 DEF Calling
<1>20. /\ FiredInv' /\ MemoInv'
       /\ \A k \in 1 .. n : Placed(k)' /\ RunOK(k)' /\ EndOK(k)' /\ EnterOK(k)'
       /\ \A k \in 2 .. n : Over(k)'
  BY <1>2, <1>3, <1>5, <1>19, CallParts
<1>21. Placed(n + 1)' /\ Over(n + 1)' /\ RunOK(n + 1)' /\ EndOK(n + 1)' /\ EnterOK(n + 1)'
  <2>1. (n + 1) - 1 = n /\ n + 1 # 1
    BY <1>4
  <2>2. Placed(n + 1)' /\ RunOK(n + 1)' /\ EndOK(n + 1)' /\ EnterOK(n + 1)'
    BY <1>10, <2>1 DEF Placed, RunOK, EndOK, EnterOK
  <2>3. Over(n + 1)'
    BY <1>10, <2>1 DEF Over
  <2> QED
    BY <2>2, <2>3
<1>22. ShapeInv' /\ RunInv'
  <2>1. /\ Len(frames') # 1 /\ phase' # "request"
        /\ \A k \in 1 .. Len(frames') : k \in 1 .. n \/ k = n + 1
        /\ \A k \in 2 .. Len(frames') : k \in 2 .. n \/ k = n + 1
    BY <1>2, <1>4, <1>10
  <2>2. \A k \in 1 .. Len(frames') : Placed(k)' /\ RunOK(k)' /\ EndOK(k)' /\ EnterOK(k)'
    BY <1>20, <1>21, <2>1
  <2>3. \A k \in 2 .. Len(frames') : Over(k)'
    BY <1>20, <1>21, <2>1
  <2> QED
    BY <2>1, <2>2, <2>3 DEF ShapeInv, RunInv
<1>23. Joining => Pending = {}
  <2>1. SUFFICES ASSUME Joining, NEW j \in Pending PROVE FALSE
    OBVIOUS
  <2>2. dag[j].dep # y /\ dag[j].dep # OwnerOf(y)
    BY <1>4, <1>6, <2>1 DEF Parts, TodoInv, Ready
  <2>3. dag[j].dep \in {y, OwnerOf(y)}
    BY <1>1, <2>1 DEF Alone, Pending
  <2> QED
    BY <2>2, <2>3
<1>24. TodoInv'
  <2>1. \A k \in 1 .. Len(frames') : frames'[k].k = "joins" =>
          k = n + 1 \/ (k \in 1 .. Len(frames) /\ frames'[k] = frames[k])
    <3>1. \A k \in 1 .. Len(frames') : k = n \/ k \in 1 .. n - 1 \/ k = n + 1
      BY <1>4, <1>10
    <3>2. \A k \in 1 .. n - 1 : k \in 1 .. n
      BY <1>4
    <3> QED
      BY <1>3, <1>10, <3>1, <3>2 DEF Keep
  <2>2. \A k \in 1 .. Len(frames') : frames'[k].k = "joins" => frames'[k].todo = Pending'
    BY <1>4, <1>10, <1>11, <2>1 DEF Parts, TodoInv
  <2>3. ASSUME NEW k \in 1 .. Len(frames'), NEW l \in 1 .. Len(frames'),
               k < l, frames'[k].k = "joins", frames'[l].k = "joins"
        PROVE  Pending' = {}
    <3>1. k # n + 1
      BY <1>4, <1>10, <2>3
    <3>2. Joining
      BY <2>1, <2>3, <3>1 DEF Joining
    <3> QED
      BY <1>11, <1>23, <3>2
  <2>4. ASSUME NEW j \in Pending PROVE Ready(j)'
    <3>1. j \notin memo /\ dag[j].dep \in memo
      <4>1. JoinsOn(y) = Pending
        BY <1>1, <1>4, AllJoins
      <4> QED
        BY <1>1, <2>4, <4>1 DEF Alone, Pending
    <3>2. frames[n - 1].k # "joins"
      <4>1. n - 1 \in 1 .. Len(frames)
        BY <1>3, <1>4
      <4> QED
        BY <1>23, <2>4, <4>1 DEF Joining
    <3>3. frames'[1] = frames[1] /\ frames[1].b = b /\ j # b
      BY <1>3, <1>4, <1>6, <1>10, <2>4, <3>2 DEF Keep
    <3> QED
      BY <1>2, <1>13, <1>14, <3>1, <3>3 DEF Ready
  <2>5. Joining'
    <3>1. n + 1 \in 1 .. Len(frames')
      BY <1>4, <1>10
    <3> QED
      BY <1>10, <3>1 DEF Joining
  <2> QED
    BY <1>11, <2>2, <2>3, <2>4, <2>5 DEF TodoInv
<1>25. Parts'
  BY <1>12, <1>15, <1>16, <1>17, <1>20, <1>22, <1>24 DEF Parts
<1> QED
  BY <1>4, <1>5, <1>18, <1>25, RequestStep

-----------------------------------------------------------------------------
(* The entry of a request *)

\* The entry adds a batch: nothing of this DAG has run.
LEMMA EntryGrows ==
  ASSUME IInv, TypeInv', phase = "request", NEW batch, Grown(batch),
         batch.dep \in Nat, batch.dep <= Len(dag), batch.kind = "then" <=> batch.dep # 0,
         UNCHANGED <<executed, memo, yieldOwner, current, phase, frames, tx, saved>>,
         hist'.fired = hist.fired, Ledger(store, hist)', IdInv', MarkInv',
         \A j \in Indices' : IsJoin(j)' => IsJoin(j) \/ j \in Pending',
         Pending \subseteq Pending'
  PROVE  IInv'
<1>1. TypeInv /\ Parts /\ Settled(saved.store, saved.hist)
  BY DEF IInv, IdleInv, Requesting
<1>2. /\ frames = << >> /\ executed = {} /\ memo = {} /\ yieldOwner = Empty /\ current = 0
  BY <1>1 DEF Parts, ShapeInv, EntryInv
<1>3. /\ Len(dag) \in Nat /\ Indices = 1 .. Len(dag) /\ Indices' = 1 .. Len(dag) + 1
      /\ dag'[Len(dag) + 1] = batch /\ \A i \in Indices : dag'[i] = dag[i]
      /\ \A i \in Indices' : i \in Indices \/ i = Len(dag) + 1
      /\ tx \in Nat
  BY <1>1, FrameFacts DEF Grown, Indices, TypeInv
<1>4. DagInv' /\ EntryInv'
  <2>1. ASSUME NEW i \in Indices' PROVE dag'[i].dep < i /\ (dag'[i].kind = "then" <=> dag'[i].dep # 0)
    BY <1>1, <1>3 DEF Parts, DagInv
  <2> QED
    BY <1>2, <2>1 DEF DagInv, EntryInv
<1>5. OwnerInv' /\ ShapeInv' /\ RunInv' /\ TodoInv'
  <2>1. DOMAIN yieldOwner' = {} /\ Len(frames') = 0
    BY <1>2, EmptySeq DEF Empty
  <2>2. OwnerInv'
    BY <2>1 DEF OwnerInv
  <2>3. ShapeInv' /\ RunInv'
    BY <1>2, <2>1 DEF ShapeInv, RunInv
  <2>4. TodoInv'
    BY <2>1 DEF TodoInv, Joining
  <2> QED
    BY <2>2, <2>3, <2>4
<1>6. ASSUME NEW i \in Indices', Fired(i)', ~Yield(i)' PROVE FALSE
  <2>1. <<tx, i>>[1] = tx /\ <<tx, i>>[2] = i /\ ~(tx < tx)
    BY <1>3
  <2>2. Fired(i) /\ i \in Indices
    BY <1>1, <1>6, <2>1 DEF Fired, Parts, IdInv
  <2>3. ~Yield(i)
    BY <1>3, <1>6, <2>2 DEF Yield
  <2>4. ~Ending(i)
    BY <1>2, EmptySeq DEF Ending
  <2> QED
    BY <1>1, <1>2, <2>2, <2>3, <2>4 DEF Parts, MemoInv
<1>7. ASSUME NEW j \in Indices', IsJoin(j)' PROVE ~Yield(j)'
  <2>1. <<tx, j>>[1] = tx /\ <<tx, j>>[2] = j /\ ~(tx < tx)
    BY <1>3
  <2> QED
    BY <1>7, <2>1 DEF IdInv, IsJoin, Yield
<1>8. MemoInv'
  BY <1>2, <1>6, <1>7 DEF MemoInv
<1>9. FiredInv'
  <2>1. ASSUME NEW j \in Pending', Fired(j)' PROVE FALSE
    BY <1>6, <2>1 DEF MarkInv, Yield
  <2>2. ASSUME NEW j \in Indices', IsJoin(j)', ~Fired(j)' PROVE j \in Pending'
    <3>1. SUFFICES ASSUME IsJoin(j) PROVE j \in Pending
      BY <2>2
    <3>2. j \in Indices /\ ~Fired(j)
      BY <1>1, <2>2, <3>1, JoinFacts DEF Fired
    <3>3. Len(frames) = 0
      BY <1>2, EmptySeq
    <3> QED
      BY <1>1, <3>1, <3>2, <3>3 DEF Parts, FiredInv
  <2> QED
    BY <2>1, <2>2 DEF FiredInv
<1>10. Parts'
  BY <1>4, <1>5, <1>8, <1>9 DEF Parts
<1>11. Settled(saved.store, saved.hist)'
  BY <1>1 DEF Settled
<1> QED
  BY <1>10, <1>11 DEF IInv, IdleInv, ResolveInv

LEMMA PromiseCreateStep ==
  ASSUME IInv, promise_create
  PROVE  IInv'
<1>1. PICK acct \in Accounts : dag' = Append(dag, Batch("call", 0, acct))
  BY DEF promise_create
<1>2. /\ phase = "request"
      /\ UNCHANGED <<executed, memo, yieldJoins, yieldOwner, current, store, phase,
                     frames, tx, hist, saved>>
  BY DEF promise_create
<1>3. TypeInv /\ Parts
  BY <1>2 DEF IInv, Requesting
<1>4. TypeInv'
  BY <1>3, TypeEntry
<1>5. PICK batch : batch = Batch("call", 0, acct)
  OBVIOUS
<1>6. /\ Grown(batch) /\ batch.kind = "call" /\ batch.dep = 0
      /\ Len(dag) \in Nat
  BY <1>1, <1>3, <1>5, BatchIn, Grows, FrameFacts
<1>7. Indices' = Indices \cup {Len(dag) + 1} /\ \A i \in Indices : dag'[i] = dag[i]
  BY <1>6 DEF Grown, Indices
<1>8. Pending' = Pending /\ \A j : IsJoin(j)' <=> IsJoin(j)
  BY <1>2 DEF Pending, IsJoin
<1>9. Ledger(store, hist)'
  BY <1>2, <1>3 DEF Parts
<1>10. IdInv'
  BY <1>2, <1>3, <1>7 DEF Parts, IdInv, Yield
<1>11. MarkInv'
  BY <1>2, <1>3, <1>7, <1>8 DEF Parts, MarkInv, Yield
<1> QED
  BY <1>2, <1>4, <1>6, <1>8, <1>9, <1>10, <1>11, EntryGrows

LEMMA PromiseThenStep ==
  ASSUME IInv, promise_then, Direct = FALSE
  PROVE  IInv'
<1>1. PICK i \in Indices, acct \in Accounts :
        LET j == Len(dag) + 1
            cross == dag[i].acct # acct
        IN /\ Direct \/ ~cross \/ dag[i].kind # "yield"
           /\ dag' = Append(dag, Batch("then", i, acct))
           /\ yieldJoins' = IF cross THEN yieldJoins \cup {j} ELSE yieldJoins
           /\ store' = IF cross THEN [store EXCEPT !.joins = With(@, j, NewId)] ELSE store
           /\ hist' = IF cross THEN [hist EXCEPT !.joins = With(@, NewId, <<tx, i>>)] ELSE hist
  BY DEF promise_then
<1>2. phase = "request" /\ UNCHANGED <<executed, memo, yieldOwner, current, phase, frames, tx, saved>>
  BY DEF promise_then
<1>3. TypeInv /\ Parts
  BY <1>2 DEF IInv, Requesting
<1>4. TypeInv'
  BY <1>3, TypeEntry
<1>5. PICK batch, j : batch = Batch("then", i, acct) /\ j = Len(dag) + 1
  OBVIOUS
<1>6. /\ Len(dag) \in Nat /\ i \in Nat /\ i # 0 /\ i <= Len(dag) /\ j \in Nat
      /\ j \notin Indices /\ tx \in Nat /\ store \in Markers /\ hist \in Histories
      /\ memo = {}
  BY <1>2, <1>3, <1>5, FrameFacts DEF Indices, TypeInv, Parts, EntryInv
<1>7. Grown(batch) /\ batch.kind = "then" /\ batch.dep = i
  BY <1>1, <1>3, <1>5, <1>6, BatchIn, Grows
<1>8. /\ Indices' = Indices \cup {j} /\ \A k \in Indices : dag'[k] = dag[k]
      /\ dag'[j].kind = "then" /\ dag'[j].dep = i
  BY <1>5, <1>6, <1>7 DEF Grown, Indices
<1>9. CASE dag[i].acct = acct
  <2>1. yieldJoins' = yieldJoins /\ store' = store /\ hist' = hist
    BY <1>1, <1>9
  <2>2. Pending' = Pending /\ \A k : IsJoin(k)' <=> IsJoin(k)
    BY <1>2, <2>1 DEF Pending, IsJoin
  <2>3. Ledger(store, hist)'
    BY <1>3, <2>1 DEF Parts
  <2>4. IdInv'
    BY <1>2, <1>3, <1>8, <2>1 DEF Parts, IdInv, Yield
  <2>5. MarkInv'
    BY <1>2, <1>3, <1>8, <2>1, <2>2 DEF Parts, MarkInv, Yield
  <2> QED
    BY <1>2, <1>4, <1>6, <1>7, <2>1, <2>2, <2>3, <2>4, <2>5, EntryGrows
<1>10. CASE dag[i].acct # acct
  <2>1. PICK id, w : id = <<tx, j>> /\ w = <<tx, i>>
    OBVIOUS
  <2>2. id \in Ids /\ w \in Ids /\ w[1] = id[1] /\ id[1] = tx /\ id[2] = j /\ NewId = id
    BY <1>5, <1>6, <2>1, IdsIn DEF NewId
  <2>3. /\ yieldJoins' = yieldJoins \cup {j}
        /\ store' = [store EXCEPT !.joins = With(store.joins, j, id)]
        /\ hist' = [hist EXCEPT !.joins = With(hist.joins, id, w)]
    BY <1>1, <1>5, <1>10, <2>1, <2>2
  <2>4. /\ store'.yields = store.yields /\ store'.joins = With(store.joins, j, id)
    BY <1>6, <2>3 DEF Markers
  <2>5. /\ hist'.fired = hist.fired /\ hist'.again = hist.again /\ hist'.opened = hist.opened
        /\ hist'.resumed = hist.resumed /\ hist'.joins = With(hist.joins, id, w)
    BY <1>6, <2>3 DEF Histories
  <2>6. id \notin DOMAIN hist.opened \cup DOMAIN hist.joins \cup hist.fired
    <3>1. ~(tx < tx)
      BY <1>6
    <3> QED
      BY <1>3, <1>6, <2>2, <3>1 DEF Parts, IdInv
  <2>14. w \notin DOMAIN hist.opened
    <3>1. dag[i].kind # "yield" /\ ~(tx < tx)
      BY <1>1, <1>6, <1>10
    <3>2. w[1] = tx /\ w[2] = i
      BY <1>6, <2>1
    <3> QED
      BY <1>3, <3>1, <3>2 DEF Parts, IdInv, Yield
  <2>7. /\ DOMAIN hist'.joins = DOMAIN hist.joins \cup {id} /\ hist'.joins[id] = w
        /\ \A x \in DOMAIN hist.joins : hist'.joins[x] = hist.joins[x]
    BY <2>5, <2>6 DEF With
  <2>8. /\ Pending' = Pending \cup {j} /\ store'.joins[j] = id
        /\ \A x \in Pending : x # j /\ store'.joins[x] = store.joins[x]
    <3>1. \A x \in Pending : x # j
      BY <1>3, <1>6 DEF Parts, MarkInv
    <3> QED
      BY <2>4, <3>1 DEF With, Pending
  <2>9. Ledger(store, hist)'
    <3>1. PICK s, g, st, h : s = store' /\ g = hist' /\ st = store /\ h = hist
      OBVIOUS
    <3>2. /\ Ledger(st, h) /\ s.yields = st.yields /\ g.fired = h.fired /\ g.again = h.again
          /\ g.opened = h.opened /\ g.resumed = h.resumed
          /\ g.joins = With(h.joins, id, w) /\ id \notin DOMAIN h.opened
          /\ id \notin DOMAIN h.joins /\ id \notin h.fired /\ w \notin DOMAIN h.opened
      BY <1>3, <2>4, <2>5, <2>6, <2>14, <3>1 DEF Parts
    <3>3. Ledger(s, g)
      BY <2>2, <3>2, JoinLedger
    <3> QED
      BY <3>1, <3>3
  <2>10. IdInv'
    <3>1. ASSUME NEW x \in DOMAIN hist'.joins
          PROVE  \/ x[1] < tx /\ x \in hist.fired
                 \/ /\ x[1] = tx /\ x[2] \in Indices' /\ dag'[x[2]].kind = "then"
                    /\ hist'.joins[x] = <<tx, dag'[x[2]].dep>>
      <4>1. CASE x = id
        BY <1>8, <2>1, <2>2, <2>7, <4>1
      <4>2. CASE x # id
        <5>1. x \in DOMAIN hist.joins /\ hist'.joins[x] = hist.joins[x]
          BY <2>7, <3>1, <4>2
        <5>2. \/ x[1] < tx /\ x \in hist.fired
              \/ /\ x[1] = tx /\ x[2] \in Indices /\ dag[x[2]].kind = "then"
                 /\ hist.joins[x] = <<tx, dag[x[2]].dep>>
          BY <1>3, <5>1 DEF Parts, IdInv
        <5> QED
          BY <1>8, <5>1, <5>2
      <4> QED
        BY <4>1, <4>2
    <3>2. \A k \in Indices : k \in Indices' /\ (Yield(k)' <=> Yield(k))
      BY <1>8 DEF Yield
    <3> QED
      BY <1>2, <1>3, <2>5, <3>1, <3>2 DEF Parts, IdInv
  <2>11. /\ IsJoin(j)' /\ \A k : IsJoin(k)' <=> (IsJoin(k) \/ k = j)
    <3>1. \A k : <<tx, k>> = <<tx, j>> <=> k = j
      OBVIOUS
    <3> QED
      BY <1>2, <2>1, <2>7, <3>1 DEF IsJoin
  <2>12. MarkInv'
    <3>1. \A y \in DOMAIN store'.yields : y \in Indices' /\ Yield(y)' /\ store'.yields[y] = <<tx, y>>
      BY <1>3, <1>8, <2>4 DEF Parts, MarkInv, Yield
    <3>2. \A k \in Pending' :
            /\ k \in Indices' /\ dag'[k].kind = "then"
            /\ store'.joins[k] = <<tx, k>> /\ IsJoin(k)'
      BY <1>3, <1>8, <2>1, <2>8, <2>11 DEF Parts, MarkInv
    <3>3. \A k \in yieldJoins' : k \in Indices' /\ dag'[k].kind = "then"
      BY <1>3, <1>8, <2>3 DEF Parts, MarkInv
    <3>4. Pending' \subseteq yieldJoins' /\ yieldJoins' \subseteq Pending' \cup memo'
      BY <1>2, <1>3, <2>3, <2>8 DEF Parts, MarkInv
    <3> QED
      BY <1>2, <3>1, <3>2, <3>3, <3>4 DEF MarkInv
  <2>13. /\ Pending \subseteq Pending'
         /\ \A k \in Indices' : IsJoin(k)' => IsJoin(k) \/ k \in Pending'
    BY <2>8, <2>11
  <2> QED
    BY <1>2, <1>4, <1>6, <1>7, <2>5, <2>9, <2>10, <2>12, <2>13, EntryGrows
<1> QED
  BY <1>9, <1>10

LEMMA EntryYieldsStep ==
  ASSUME IInv, EntryYields, Overlap = FALSE
  PROVE  IInv'
<1>1. PICK acct \in Accounts : promise_yield_create(acct, 0, hist)
  BY DEF EntryYields
<1>2. /\ phase = "request" /\ store.yields = Empty
      /\ UNCHANGED <<executed, memo, yieldJoins, current, phase, frames, tx, saved>>
  BY DEF EntryYields
<1>3. TypeInv /\ Parts
  BY <1>2 DEF IInv, Requesting
<1>4. TypeInv'
  BY <1>3, TypeEntry
<1>5. PICK batch, y : batch = Batch("yield", 0, acct) /\ y = Len(dag) + 1
  OBVIOUS
<1>6. /\ current = 0 /\ memo = {} /\ Len(dag) \in Nat /\ y \in Nat /\ y \notin Indices
      /\ tx \in Nat /\ hist \in Histories /\ Indices = 1 .. Len(dag)
  BY <1>2, <1>3, <1>5, FrameFacts DEF Indices, TypeInv, Parts, EntryInv
<1>7. PICK id, o : id = <<tx, y>> /\ o = <<tx, 0>>
  OBVIOUS
<1>8. /\ Grown(batch) /\ yieldOwner' = yieldOwner /\ store'.joins = store.joins
      /\ store'.yields = With(store.yields, y, id) /\ hist'.opened = With(hist.opened, id, o)
      /\ hist'.fired = hist.fired /\ hist'.again = hist.again
      /\ hist'.joins = hist.joins /\ hist'.resumed = hist.resumed
      /\ id \in Ids /\ o \in Ids
  <2>1. /\ Grown(Batch("yield", 0, acct)) /\ (current = 0 => yieldOwner' = yieldOwner)
        /\ store'.joins = store.joins
        /\ store'.yields = With(store.yields, Len(dag) + 1, NewId)
        /\ hist'.opened = With(hist.opened, NewId, <<tx, 0>>)
        /\ hist'.fired = hist.fired /\ hist'.again = hist.again
        /\ hist'.joins = hist.joins /\ hist'.resumed = hist.resumed
        /\ NewId = <<tx, Len(dag) + 1>> /\ NewId \in Ids /\ <<tx, 0>> \in Ids
    BY <1>1, <1>3, <1>6, YieldCreated
  <2> QED
    BY <1>5, <1>6, <1>7, <2>1
<1>9. batch.kind = "yield" /\ batch.dep = 0
  BY <1>5, BatchIn
<1>10. /\ Indices' = Indices \cup {y} /\ \A i \in Indices : dag'[i] = dag[i]
       /\ Yield(y)' /\ \A i \in Indices : Yield(i)' <=> Yield(i)
  BY <1>5, <1>6, <1>8, <1>9 DEF Grown, Indices, Yield
<1>11. /\ DOMAIN store'.yields = {y} /\ store'.yields[y] = id /\ DOMAIN store.yields = {}
  <2>1. DOMAIN store.yields = {}
    BY <1>2 DEF Empty
  <2> QED
    BY <1>8, <2>1 DEF With
<1>12. id \notin DOMAIN hist.opened \cup DOMAIN hist.joins \cup hist.fired /\ id[1] = tx /\ id[2] = y
       /\ o[1] = tx /\ o[2] = 0
  <2>1. id[1] = tx /\ id[2] = y /\ o[1] = tx /\ o[2] = 0 /\ ~(tx < tx)
    BY <1>6, <1>7
  <2> QED
    BY <1>3, <1>6, <2>1 DEF Parts, IdInv
<1>13. \A j \in DOMAIN hist.joins \cap hist.fired : hist.joins[j] # o
  <2>1. SUFFICES ASSUME NEW j \in DOMAIN hist.joins, hist.joins[j] = o PROVE FALSE
    OBVIOUS
  <2>2. j[1] = tx
    BY <1>3, <1>12, <2>1 DEF Parts, Ledger
  <2>3. ~(j[1] < tx)
    BY <1>6, <2>2
  <2>4. j[2] \in Indices /\ dag[j[2]].kind = "then" /\ hist.joins[j] = <<tx, dag[j[2]].dep>>
    BY <1>3, <2>1, <2>3 DEF Parts, IdInv
  <2>5. hist.joins[j][2] = dag[j[2]].dep
    BY <2>4
  <2> QED
    BY <1>3, <1>12, <2>1, <2>4, <2>5 DEF Parts, DagInv
<1>19. \A j \in DOMAIN hist.joins : hist.joins[j] # id
  <2>1. SUFFICES ASSUME NEW j \in DOMAIN hist.joins, hist.joins[j] = id PROVE FALSE
    OBVIOUS
  <2>2. j[1] = tx
    BY <1>3, <1>12, <2>1 DEF Parts, Ledger
  <2>3. ~(j[1] < tx)
    BY <1>6, <2>2
  <2>4. j[2] \in Indices /\ hist.joins[j] = <<tx, dag[j[2]].dep>>
    BY <1>3, <2>1, <2>3 DEF Parts, IdInv
  <2>5. dag[j[2]].dep = y
    BY <1>12, <2>1, <2>4
  <2> QED
    BY <1>3, <1>5, <1>6, <2>4, <2>5 DEF Parts, DagInv
<1>14. Ledger(store, hist)'
  <2>1. PICK s, g, st, h : s = store' /\ g = hist' /\ st = store /\ h = hist
    OBVIOUS
  <2>2. /\ id \in Ids /\ o \in Ids
        /\ Ledger(st, h) /\ DOMAIN st.yields = {} /\ s.yields = With(st.yields, y, id)
        /\ g.fired = h.fired /\ g.again = h.again /\ g.joins = h.joins
        /\ g.resumed = h.resumed /\ g.opened = With(h.opened, id, o)
        /\ id \notin DOMAIN h.opened /\ id \notin DOMAIN h.joins /\ id \notin h.fired
        /\ \A j \in DOMAIN h.joins : h.joins[j] # id
        /\ \A j \in DOMAIN h.joins \cap h.fired : h.joins[j] # o
    BY <1>3, <1>8, <1>11, <1>12, <1>13, <1>19, <2>1 DEF Parts
  <2>3. Ledger(s, g)
    BY <2>2, OpenLedger
  <2> QED
    BY <2>1, <2>3
<1>15. /\ DOMAIN hist'.opened = DOMAIN hist.opened \cup {id} /\ hist'.opened[id] = o
       /\ \A x \in DOMAIN hist.opened : hist'.opened[x] = hist.opened[x]
  BY <1>8, <1>12 DEF With
<1>16. IdInv'
  <2>1. ASSUME NEW x \in DOMAIN hist'.opened
        PROVE  \/ x[1] < tx /\ x \in hist.resumed
               \/ /\ x[1] = tx /\ x[2] \in Indices' /\ Yield(x[2])'
                  /\ hist'.opened[x][1] = tx
                  /\ hist'.opened[x][2] # 0 =>
                       /\ x[2] \in DOMAIN yieldOwner
                       /\ yieldOwner[x[2]] = hist'.opened[x][2]
    <3>1. CASE x = id
      BY <1>10, <1>12, <1>15, <3>1
    <3>2. CASE x # id
      <4>1. x \in DOMAIN hist.opened /\ hist'.opened[x] = hist.opened[x]
        BY <1>15, <2>1, <3>2
      <4>2. \/ x[1] < tx /\ x \in hist.resumed
            \/ /\ x[1] = tx /\ x[2] \in Indices /\ Yield(x[2])
               /\ hist.opened[x][1] = tx
               /\ hist.opened[x][2] # 0 =>
                    /\ x[2] \in DOMAIN yieldOwner
                    /\ yieldOwner[x[2]] = hist.opened[x][2]
        BY <1>3, <4>1 DEF Parts, IdInv
      <4> QED
        BY <1>10, <4>1, <4>2
    <3> QED
      BY <3>1, <3>2
  <2> QED
    BY <1>2, <1>3, <1>8, <1>10, <2>1 DEF Parts, IdInv
<1>17. Pending' = Pending /\ \A j : IsJoin(j)' <=> IsJoin(j)
  BY <1>2, <1>8 DEF Pending, IsJoin
<1>18. MarkInv'
  <2>1. store'.yields[y] = <<tx, y>>
    BY <1>7, <1>11
  <2> QED
    BY <1>2, <1>3, <1>8, <1>10, <1>11, <1>17, <2>1 DEF Parts, MarkInv
<1> QED
  BY <1>2, <1>4, <1>6, <1>8, <1>9, <1>14, <1>16, <1>17, <1>18, EntryGrows

-----------------------------------------------------------------------------
(* The invariant *)

LEMMA InitInv ==
  ASSUME Init
  PROVE  IInv
<1>1. /\ Empty \in Maps(Nat, Ids) /\ Empty \in Maps(Nat, Nat) /\ Empty \in Maps(Ids, Ids)
      /\ DOMAIN Empty = {}
  BY EmptyIn, Zenon
<1>2. store = [yields |-> Empty, owners |-> Empty, joins |-> Empty]
      /\ hist = [fired |-> {}, again |-> {}, opened |-> Empty, joins |-> Empty, resumed |-> {}]
      /\ saved = [store |-> store, hist |-> hist]
  BY DEF Init
<1>3. store \in Markers /\ hist \in Histories /\ saved \in [store : Markers, hist : Histories]
  <2>1. store \in Markers
    BY <1>1, <1>2 DEF Markers
  <2>2. hist \in Histories
    BY <1>1, <1>2 DEF Histories
  <2> QED
    BY <1>2, <2>1, <2>2
<1>4. TypeInv
  <2>1. yieldOwner \in Maps(Nat, Nat)
    BY <1>1 DEF Init
  <2> QED
    BY <1>3, <2>1 DEF Init, TypeInv
<1>5. Settled(store, hist)
  <2>1. /\ DOMAIN store.yields = {} /\ DOMAIN store.joins = {}
        /\ DOMAIN hist.opened = {} /\ DOMAIN hist.joins = {}
        /\ hist.fired = {} /\ hist.again = {} /\ hist.resumed = {}
    BY <1>1, <1>2
  <2>2. Values(store.yields) = {} /\ Values(store.joins) = {}
    BY <2>1 DEF Values
  <2> QED
    BY <2>1, <2>2 DEF Settled, Ledger, JoinMarks, Delivered, Dated
<1> QED
  BY <1>4, <1>5 DEF Init, IInv, IdleInv, ResolveInv, Requesting

LEMMA StutterInv ==
  ASSUME IInv, UNCHANGED vars
  PROVE  IInv'
<1>1. /\ UNCHANGED <<dag, executed, memo, yieldJoins, yieldOwner, current>>
      /\ UNCHANGED <<store, phase, frames, tx, hist, saved>>
  BY DEF vars, threadLocal
<1>2. TypeInv' /\ IdleInv'
  BY <1>1 DEF IInv, TypeInv, IdleInv, Settled
<1>3. ResolveInv'
  BY <1>1 DEF IInv, ResolveInv, Settled
<1>4. ASSUME Requesting' PROVE Parts'
  <2>1. Parts
    BY <1>1, <1>4 DEF IInv, Requesting
  <2>2. /\ Indices' = Indices /\ Pending' = Pending /\ (Joining' <=> Joining)
        /\ \A i : /\ Fired(i)' <=> Fired(i)
                  /\ IsJoin(i)' <=> IsJoin(i)
                  /\ Yield(i)' <=> Yield(i)
                  /\ Waited(i)' <=> Waited(i)
                  /\ Deferred(i)' <=> Deferred(i)
                  /\ deps_own_open_yield(i)' <=> deps_own_open_yield(i)
                  /\ Begun(i)' <=> Begun(i)
                  /\ Ending(i)' <=> Ending(i)
        /\ \A y : OwnerOf(y)' = OwnerOf(y)
        /\ \A k, j : Firing(k, j)' <=> Firing(k, j)
    BY <1>1 DEF Indices, Pending, Joining, Fired, IsJoin, Yield, Waited, Deferred,
                is_yield_join, deps_own_open_yield, Begun, Ending, OwnerOf, Firing
  <2>3. Ledger(store, hist)' /\ DagInv' /\ EntryInv'
    BY <1>1, <2>1, <2>2 DEF Parts, DagInv, EntryInv
  <2>4. IdInv' /\ OwnerInv' /\ MarkInv'
    BY <1>1, <2>1, <2>2 DEF Parts, IdInv, OwnerInv, MarkInv
  <2>5. FiredInv' /\ MemoInv'
    BY <1>1, <2>1, <2>2 DEF Parts, FiredInv, MemoInv
  <2>6. \A k : /\ Placed(k)' <=> Placed(k)
               /\ Over(k)' <=> Over(k)
               /\ RunOK(k)' <=> RunOK(k)
               /\ EndOK(k)' <=> EndOK(k)
               /\ EnterOK(k)' <=> EnterOK(k)
    BY <1>1, <2>2 DEF Placed, Over, RunOK, EndOK, EnterOK
  <2>7. ShapeInv' /\ RunInv'
    BY <1>1, <2>1, <2>2, <2>6 DEF Parts, ShapeInv, RunInv
  <2>8. \A j : Ready(j)' <=> Ready(j)
    BY <1>1, <2>2 DEF Ready
  <2>9. TodoInv'
    BY <1>1, <2>1, <2>2, <2>8 DEF Parts, TodoInv
  <2> QED
    BY <2>3, <2>4, <2>5, <2>7, <2>9 DEF Parts
<1> QED
  BY <1>2, <1>3, <1>4 DEF IInv

\* Between a step and the next the entry runs, or calls of the drain do; a
\* request and a resolver differ in what they deliver.
LEMMA NextInv ==
  ASSUME IInv, Next, Overlap = FALSE, Reuse = FALSE, Chains = FALSE, Direct = FALSE
  PROVE  IInv'
<1>1. CASE BeginRequest
  BY <1>1, BeginRequestStep
<1>2. CASE BeginResolve
  BY <1>2, BeginResolveStep
<1>3. CASE promise_create
  BY <1>3, PromiseCreateStep
<1>4. CASE promise_then
  BY <1>4, PromiseThenStep
<1>5. CASE EntryYields
  BY <1>5, EntryYieldsStep
<1>6. CASE EntryResumes
  BY <1>6, EntryResumesStep
<1>7. CASE EntryReturns
  BY <1>7, EntryReturnsStep
<1>22. CASE EntryReturnsPromise
  BY <1>22, EntryReturnsPromiseStep
<1>8. CASE EntryTraps
  BY <1>8, EntryTrapsStep
<1>9. CASE DrainNext
  BY <1>9, DrainNextStep
<1>10. CASE DrainTakesMarker
  BY <1>10, DrainTakesMarkerStep
<1>11. CASE DrainEnds
  BY <1>11, DrainEndsStep
<1>12. CASE Memoized
  BY <1>12, MemoizedStep
<1>13. CASE JoinDeferred
  BY <1>13, JoinDeferredStep
<1>14. CASE DepsFirst
  BY <1>14, DepsFirstStep
<1>15. CASE YieldInert
  BY <1>15, YieldInertStep
<1>16. CASE CallReturns
  BY <1>16, CallReturnsStep
<1>17. CASE CallYields
  BY <1>17, CallYieldsStep
<1>18. CASE CallResumes
  BY <1>18, CallResumesStep
<1>19. CASE BatchEnds
  BY <1>19, BatchEndsStep
<1>20. CASE JoinFires
  BY <1>20, JoinFiresStep
<1>21. CASE PendingDelivered
  BY <1>21, RequestDelivers, ResolverDelivers
<1> QED
  BY <1>1, <1>2, <1>3, <1>4, <1>5, <1>6, <1>7, <1>8, <1>9, <1>10, <1>11, <1>12, <1>13,
     <1>14, <1>15, <1>16, <1>17, <1>18, <1>19, <1>20, <1>21, <1>22 DEF Next

\* Requests and resumes that come one at a time, each request in a process of
\* its own, whose entry returns nothing or a promise without dependencies and
\* makes its joins on receipts, keep markers, marks and what has run in step.
THEOREM YieldInvariant ==
  ASSUME Overlap = FALSE, Reuse = FALSE, Chains = FALSE, Direct = FALSE
  PROVE  Spec => []IInv
<1>1. Init => IInv
  BY InitInv
<1>2. IInv /\ [Next]_vars => IInv'
  BY NextInv, StutterInv
<1> QED
  BY <1>1, <1>2, PTL DEF Spec

\* What is known at any time, whatever runs.
LEMMA LedgerHolds ==
  ASSUME IInv
  PROVE  Ledger(store, hist)
<1>1. CASE Requesting
  BY <1>1 DEF IInv, Parts
<1>2. CASE ~Requesting
  BY <1>2 DEF IInv, IdleInv, ResolveInv, Requesting, TypeInv, Settled
<1> QED
  BY <1>1, <1>2

\* No join is made on a yield itself, so what a join waits for is what its
\* receipt opened.
LEMMA OfReceipt ==
  ASSUME NEW st, Ledger(st, hist), NEW j \in DOMAIN hist.joins
  PROVE  YieldsBefore(j) = Before(hist, j)
BY DEF Ledger, YieldsBefore, Before

\* promise_then's joins: a join on a receipt that opened a yield runs after the
\* resume, in whatever process and transaction the resume comes.
THEOREM JoinsWait ==
  ASSUME Overlap = FALSE, Reuse = FALSE, Chains = FALSE, Direct = FALSE
  PROVE  Spec => []JoinWaits
<1>1. IInv => JoinWaits
  BY LedgerHolds, OfReceipt DEF Ledger, JoinWaits
<1> QED
  BY <1>1, YieldInvariant, PTL

\* The drain, the joins of a resume and the markers of the state run no callback
\* twice between them.
THEOREM NothingTwice ==
  ASSUME Overlap = FALSE, Reuse = FALSE, Chains = FALSE, Direct = FALSE
  PROVE  Spec => []FiresOnce
<1>1. IInv => FiresOnce
  BY LedgerHolds DEF Ledger, FiresOnce
<1> QED
  BY <1>1, YieldInvariant, PTL

\* No join is lost: when a transaction has ended, what no open yield holds back
\* has run.
THEOREM NoJoinLost ==
  ASSUME Overlap = FALSE, Reuse = FALSE, Chains = FALSE, Direct = FALSE
  PROVE  Spec => []JoinsDelivered
<1>1. IInv => JoinsDelivered
  BY OfReceipt DEF IInv, IdleInv, Settled, Delivered, JoinsDelivered
<1> QED
  BY <1>1, YieldInvariant, PTL

\* The markers a later transaction, of this process or another, finds in the
\* state are those of the open yields and of the joins that have not run.
THEOREM MarkersAreExact ==
  ASSUME Overlap = FALSE, Reuse = FALSE, Chains = FALSE, Direct = FALSE
  PROVE  Spec => []MarkersExact
<1>1. IInv => MarkersExact
  BY DEF IInv, IdleInv, Settled, Ledger, JoinMarks, Values, MarkersExact
<1> QED
  BY <1>1, YieldInvariant, PTL

=============================================================================
