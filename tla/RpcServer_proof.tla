-------------------------- MODULE RpcServer_proof --------------------------
(***************************************************************************)
(* near-mock serve: types, replay protection, durability of what was       *)
(* answered and the feed of blocks, for every set of accounts, keys and    *)
(* signed transactions and any number of requests and crashes.             *)
(***************************************************************************)
EXTENDS RpcServer, SequenceTheorems, WellFoundedInduction, NaturalsInduction,
        TLAPS

-----------------------------------------------------------------------------
(* Natural numbers *)

\* A nonempty set of natural numbers has a least element.
LEMMA Least ==
  ASSUME NEW T, T \subseteq Nat, T # {}
  PROVE  \E x \in T : \A y \in T : x =< y
<1> DEFINE R == OpToRel(<, Nat)
<1>1. IsWellFoundedOn(R, Nat)
  BY NatLessThanWellFounded
<1>2. \A x, y \in Nat : <<y, x>> \in R <=> y < x
  BY DEF OpToRel
<1> HIDE DEF R
<1>3. PICK x \in T : \A y \in T : ~(<<y, x>> \in R)
  BY <1>1, WFMin
<1>4. ASSUME NEW y \in T PROVE x =< y
  <2>1. x \in Nat /\ y \in Nat
    OBVIOUS
  <2>2. ~(y < x)
    BY <1>2, <1>3, <2>1
  <2> QED
    BY <2>1, <2>2
<1> QED
  BY <1>4

\* Max, which finds the last block with events, picks a member.
LEMMA MaxIn ==
  ASSUME NEW n \in Nat, NEW T, T \subseteq 1..n, T # {}
  PROVE  Max(T) \in T
<1> DEFINE U == {n - x : x \in T}
<1>0. U \subseteq Nat
  OBVIOUS
<1>1. U # {}
  OBVIOUS
<1>2. PICK u \in U : \A y \in U : u =< y
  BY <1>0, <1>1, Least
<1>3. PICK x \in T : u = n - x
  BY <1>2
<1>4. ASSUME NEW y \in T PROVE x >= y
  <2>1. x \in Int /\ y \in Int
    OBVIOUS
  <2>2. n - x =< n - y
    BY <1>2, <1>3
  <2> QED
    BY <2>1, <2>2
<1> QED
  BY <1>4 DEF Max

\* r is the run of a loop of n rounds from b, whose round i maps a state x of R
\* to F[i, x].
LoopRun(r, n, b, R, F) ==
  /\ r \in [0..n -> R] /\ r[0] = b
  /\ \A i \in 1..n : r[i] = F[<<i, r[i - 1]>>]

\* Every loop has a run.
LEMMA LoopExists ==
  ASSUME NEW m \in Nat, NEW R, NEW b \in R,
         NEW F \in [(1..m) \X R -> R]
  PROVE  \E r : LoopRun(r, m, b, R, F)
<1> DEFINE T == {n \in 0..m : ~\E r : LoopRun(r, n, b, R, F)}
<1>1. SUFFICES ASSUME T # {} PROVE FALSE
  BY m \in 0..m
<1>2. T \subseteq Nat
  OBVIOUS
<1>3. PICK n \in T : \A y \in T : n =< y
  BY <1>1, <1>2, Least
<1>4. n \in 0..m /\ ~\E r : LoopRun(r, n, b, R, F)
  BY <1>3
<1>5. CASE n = 0
  <2>1. LoopRun([i \in 0..0 |-> b], 0, b, R, F)
    BY DEF LoopRun
  <2> QED
    BY <1>4, <1>5, <2>1
<1>6. CASE n # 0
  <2>1. n \in Nat /\ n - 1 \in 0..m /\ ~(n =< n - 1) /\ n \in 1..m
    BY <1>4, <1>6
  <2>2. PICK r : LoopRun(r, n - 1, b, R, F)
    BY <1>3, <2>1
  <2>0. /\ r \in [0..(n - 1) -> R] /\ r[0] = b
        /\ \A i \in 1..(n - 1) : r[i] = F[<<i, r[i - 1]>>]
    BY <2>2 DEF LoopRun
  <2> DEFINE q == [i \in 0..n |-> IF i = n THEN F[<<n, r[n - 1]>>] ELSE r[i]]
  <2>3. r[n - 1] \in R
    BY <2>1, <2>0
  <2>4. F[<<n, r[n - 1]>>] \in R
    <3>1. <<n, r[n - 1]>> \in (1..m) \X R
      BY <2>1, <2>3
    <3> QED
      BY <3>1
  <2>5. \A i \in 0..n : i # n => i \in 0..(n - 1)
    BY <2>1
  <2>6. q \in [0..n -> R]
    BY <2>0, <2>4, <2>5
  <2>7. q[0] = b
    BY <2>1, <2>0
  <2>8. ASSUME NEW i \in 1..n PROVE q[i] = F[<<i, q[i - 1]>>]
    <3>1. i - 1 \in 0..n /\ i - 1 # n /\ i \in 0..n
      BY <2>1
    <3>2. q[i - 1] = r[i - 1]
      BY <3>1
    <3>3. CASE i = n
      BY <3>1, <3>2, <3>3
    <3>4. CASE i # n
      <4>1. i \in 1..(n - 1)
        BY <2>1, <3>4
      <4>2. r[i] = F[<<i, r[i - 1]>>]
        BY <2>0, <4>1
      <4> QED
        BY <3>1, <3>2, <3>4, <4>2
    <3> QED
      BY <3>3, <3>4
  <2> HIDE DEF q
  <2>9. LoopRun(q, n, b, R, F)
    BY <2>6, <2>7, <2>8 DEF LoopRun
  <2> QED
    BY <1>4, <2>9
<1> QED
  BY <1>5, <1>6

\* What holds before a loop and is kept by each round holds at its end.
LEMMA LoopKeeps ==
  ASSUME NEW m \in Nat, NEW R, NEW r, r[0] \in R,
         \A i \in 1..m : r[i - 1] \in R => r[i] \in R
  PROVE  r[m] \in R
<1> DEFINE T == {i \in 0..m : r[i] \notin R}
<1>1. SUFFICES ASSUME T # {} PROVE FALSE
  OBVIOUS
<1>2. T \subseteq Nat
  OBVIOUS
<1>3. PICK n \in T : \A y \in T : n =< y
  BY <1>1, <1>2, Least
<1>4. n \in 0..m /\ r[n] \notin R
  BY <1>3
<1>5. n # 0
  BY <1>4
<1>6. n \in 1..m /\ n - 1 \in 0..m /\ ~(n =< n - 1)
  BY <1>4, <1>5
<1>7. r[n - 1] \in R
  BY <1>3, <1>6
<1> QED
  BY <1>4, <1>6, <1>7

-----------------------------------------------------------------------------
(* Chains whose used nonces are below the nonce stored for their key *)

NonceInv(m) ==
  /\ m.again = {}
  /\ \A u \in m.used :
       /\ m.nonce[<<u[1], u[2]>>] # None
       /\ u[3] <= m.nonce[<<u[1], u[2]>>]

\* Such chains that have done at least D.
Good(D) == {m \in Chains : NonceInv(m) /\ D \subseteq m.done}

\* The states of the loops of apply_account_semantics and of the calls.
Runs(D) == [ok : BOOLEAN, m : Good(D), signer_bal : Nat]
CallRuns(D) == [m : Good(D), events : Nat, stop : BOOLEAN]

TxSet == [signer : Accounts, key : Keys, nonce : Nat, receiver : Accounts,
          acts : Seq([k : ActionKinds, n : Nat, key : Keys, to : Accounts]),
          deposits : Seq(Nat)]

\* The balance of an account.
LEMMA BalanceType ==
  ASSUME NEW m \in Chains, NEW a \in Accounts
  PROVE  Balance(m, a) \in Nat
<1>1. m.bal[a] \in Nat \cup {None}
  BY DEF Chains
<1> QED
  BY <1>1 DEF Balance

\* A chain that differs only in balances and existing accounts is as good.
LEMMA PaidGood ==
  ASSUME NEW D, NEW m \in Good(D), NEW n \in Chains,
         n.nonce = m.nonce, n.used = m.used, n.again = m.again, n.done = m.done
  PROVE  n \in Good(D)
BY DEF Good, NonceInv

\* Writing a balance and a set of existing accounts.
LEMMA WriteGood ==
  ASSUME NEW D, NEW m \in Good(D), NEW a \in Accounts, NEW x \in Nat \cup {None},
         NEW E \in SUBSET Accounts
  PROVE  /\ [m EXCEPT !.bal = [m.bal EXCEPT ![a] = x]] \in Good(D)
         /\ [m EXCEPT !.bal = [m.bal EXCEPT ![a] = x], !.exists = E] \in Good(D)
         /\ [m EXCEPT !.exists = E] \in Good(D)
<1> DEFINE b == [m.bal EXCEPT ![a] = x]
<1>0. m \in Chains
  BY DEF Good
<1>1. b \in [Accounts -> Nat \cup {None}]
  BY <1>0 DEF Chains
<1> HIDE DEF b
<1>2. /\ [m EXCEPT !.bal = b] \in Chains
      /\ [m EXCEPT !.bal = b].nonce = m.nonce
      /\ [m EXCEPT !.bal = b].used = m.used
      /\ [m EXCEPT !.bal = b].again = m.again
      /\ [m EXCEPT !.bal = b].done = m.done
  BY <1>0, <1>1 DEF Chains
<1>3. /\ [m EXCEPT !.bal = b, !.exists = E] \in Chains
      /\ [m EXCEPT !.bal = b, !.exists = E].nonce = m.nonce
      /\ [m EXCEPT !.bal = b, !.exists = E].used = m.used
      /\ [m EXCEPT !.bal = b, !.exists = E].again = m.again
      /\ [m EXCEPT !.bal = b, !.exists = E].done = m.done
  BY <1>0, <1>1 DEF Chains
<1>4. /\ [m EXCEPT !.exists = E] \in Chains
      /\ [m EXCEPT !.exists = E].nonce = m.nonce
      /\ [m EXCEPT !.exists = E].used = m.used
      /\ [m EXCEPT !.exists = E].again = m.again
      /\ [m EXCEPT !.exists = E].done = m.done
  BY <1>0 DEF Chains
<1>5. [m EXCEPT !.bal = b] \in Good(D)
  BY <1>2, PaidGood
<1>6. [m EXCEPT !.bal = b, !.exists = E] \in Good(D)
  BY <1>3, PaidGood
<1>7. [m EXCEPT !.exists = E] \in Good(D)
  BY <1>4, PaidGood
<1> QED
  BY <1>5, <1>6, <1>7 DEF b

\* Granting the genesis balance.
LEMMA FundedGood ==
  ASSUME NEW D, NEW m \in Good(D), NEW t \in TxSet
  PROVE  Funded(m, t) \in Good(D) /\ Funded(m, t).bal[t.signer] \in Nat
<1>0. m \in Chains /\ t.signer \in Accounts /\ Grant \in Nat
  BY ServerAssumption DEF Good, TxSet
<1> DEFINE a == t.signer
<1>1. CASE m.bal[a] = None
  <2> DEFINE b == [m.bal EXCEPT ![a] = Grant]
             E == m.exists \cup {a}
  <2>1. Funded(m, t) = [m EXCEPT !.bal = b, !.exists = E]
    BY <1>0, <1>1 DEF Funded, Chains
  <2>2. E \in SUBSET Accounts /\ b[a] = Grant
    BY <1>0 DEF Chains
  <2> HIDE DEF E
  <2>3. Funded(m, t) \in Good(D)
    <3>1. a \in Accounts /\ Grant \in Nat \cup {None}
      BY <1>0
    <3> HIDE DEF a
    <3>2. [m EXCEPT !.bal = b, !.exists = E] \in Good(D)
      BY <2>2, <3>1, WriteGood
    <3> QED
      BY <2>1, <3>2
  <2> HIDE DEF b
  <2>4. Funded(m, t).bal = b
    BY <1>0, <2>1 DEF Chains
  <2> QED
    BY <1>0, <2>2, <2>3, <2>4
<1>2. CASE m.bal[a] # None
  <2>1. m.bal[a] \in Nat
    BY <1>0, <1>2 DEF Chains
  <2> QED
    BY <1>2, <2>1 DEF Funded
<1> QED
  BY <1>1, <1>2

\* A transaction that passes the nonce check was not used since its key was
\* registered, and moves the nonce of the key to its own.
LEMMA RegisteredGood ==
  ASSUME NEW D, NEW m \in Good(D), NEW t \in TxSet, NonceOK(m, t)
  PROVE  Registered(m, t) \in Good(D \cup {Use(t)})
         /\ Registered(m, t).bal = m.bal
<1> DEFINE s == <<t.signer, t.key>>
           u == <<t.signer, t.key, t.nonce>>
           n == [m.nonce EXCEPT ![s] = t.nonce]
           g == m.again \cup ({u} \cap m.used)
           q == [m EXCEPT !.nonce = n, !.used = m.used \cup {u}, !.again = g,
                          !.done = m.done \cup {u}]
<1>0. m \in Chains /\ NonceInv(m) /\ D \subseteq m.done
  BY DEF Good
<1>1. /\ s \in Accounts \X Keys /\ u \in Uses /\ t.nonce \in Nat
      /\ u[1] = t.signer /\ u[2] = t.key /\ u[3] = t.nonce
  BY DEF TxSet, Uses
<1>2. Registered(m, t) = q
  BY <1>0 DEF Registered, Slot, Use, Chains
<1>3. m.nonce[s] = None \/ t.nonce > m.nonce[s]
  BY DEF NonceOK, Slot
<1>4. m.nonce \in [Accounts \X Keys -> Nat \cup {None}] /\ m.used \subseteq Uses
  BY <1>0 DEF Chains
<1>5. u \notin m.used
  <2> SUFFICES ASSUME u \in m.used PROVE FALSE
    OBVIOUS
  <2>1. m.nonce[s] # None /\ t.nonce <= m.nonce[s]
    BY <1>0, <1>1 DEF NonceInv
  <2>2. m.nonce[s] \in Nat
    BY <1>1, <1>4, <2>1
  <2> QED
    BY <1>1, <1>3, <2>1, <2>2
<1>6. g = {}
  BY <1>0, <1>5 DEF NonceInv
<1>7. n \in [Accounts \X Keys -> Nat \cup {None}]
  BY <1>1, <1>4
<1>8. ASSUME NEW v \in m.used \cup {u}
      PROVE  n[<<v[1], v[2]>>] # None /\ v[3] <= n[<<v[1], v[2]>>]
  <2>1. v \in Uses /\ <<v[1], v[2]>> \in Accounts \X Keys /\ v[3] \in Nat
    BY <1>1, <1>4 DEF Uses
  <2> DEFINE w == <<v[1], v[2]>>
  <2>2. CASE w = s
    <3>1. n[w] = t.nonce /\ t.nonce # None
      BY <1>1, <1>4, <2>1, <2>2 DEF None
    <3>2. v \in m.used => v[3] <= t.nonce
      <4> SUFFICES ASSUME v \in m.used PROVE v[3] <= t.nonce
        OBVIOUS
      <4>1. m.nonce[w] # None /\ v[3] <= m.nonce[w]
        BY <1>0 DEF NonceInv
      <4>2. m.nonce[w] \in Nat
        BY <1>4, <2>1, <4>1
      <4>3. t.nonce > m.nonce[w]
        BY <1>3, <2>2, <4>1
      <4> HIDE DEF w
      <4> QED
        BY <1>1, <2>1, <4>1, <4>2, <4>3
    <3>3. v = u => v[3] <= t.nonce
      BY <1>1
    <3> QED
      BY <3>1, <3>2, <3>3
  <2>3. CASE w # s
    <3>1. n[w] = m.nonce[w]
      BY <1>4, <2>1, <2>3
    <3>2. v \in m.used
      BY <1>1, <2>3
    <3> QED
      BY <1>0, <3>1, <3>2 DEF NonceInv
  <2> QED
    BY <2>2, <2>3
<1> HIDE DEF n, g, u, s
<1>9. /\ q.nonce = n /\ q.used = m.used \cup {u} /\ q.again = g
      /\ q.done = m.done \cup {u} /\ q.bal = m.bal
  BY <1>0 DEF Chains
<1>10. q \in Chains
  BY <1>0, <1>1, <1>6, <1>7 DEF Chains
<1> HIDE DEF q
<1>11. NonceInv(q)
  BY <1>6, <1>8, <1>9 DEF NonceInv
<1>12. D \cup {u} \subseteq q.done
  BY <1>0, <1>9
<1>13. Use(t) = u
  BY DEF Use, u
<1> QED
  BY <1>2, <1>9, <1>10, <1>11, <1>12, <1>13 DEF Good

\* AddKey and DeleteKey forget the uses of the key they reset.
LEMMA ResetGood ==
  ASSUME NEW D, NEW m \in Good(D), NEW s \in Accounts \X Keys,
         NEW x \in Nat \cup {None}
  PROVE  ResetKey(m, s, x) \in Good(D)
<1> DEFINE n == [m.nonce EXCEPT ![s] = x]
           v == {u \in m.used : <<u[1], u[2]>> # s}
           q == [m EXCEPT !.nonce = n, !.used = v]
<1>0. m \in Chains /\ NonceInv(m) /\ D \subseteq m.done
  BY DEF Good
<1>1. ResetKey(m, s, x) = q
  BY <1>0 DEF ResetKey, Chains
<1>2. m.nonce \in [Accounts \X Keys -> Nat \cup {None}] /\ m.used \subseteq Uses
  BY <1>0 DEF Chains
<1>3. n \in [Accounts \X Keys -> Nat \cup {None}] /\ v \subseteq Uses
  BY <1>2
<1>4. ASSUME NEW u \in v
      PROVE  n[<<u[1], u[2]>>] # None /\ u[3] <= n[<<u[1], u[2]>>]
  <2>1. <<u[1], u[2]>> \in Accounts \X Keys /\ u \in m.used
    BY <1>2 DEF Uses
  <2>2. n[<<u[1], u[2]>>] = m.nonce[<<u[1], u[2]>>]
    BY <1>2, <2>1
  <2> HIDE DEF n
  <2> QED
    BY <1>0, <2>1, <2>2 DEF NonceInv
<1> HIDE DEF n, v
<1>5. /\ q.nonce = n /\ q.used = v /\ q.again = m.again /\ q.done = m.done
      /\ q \in Chains
  BY <1>0, <1>3 DEF Chains
<1> HIDE DEF q
<1>6. NonceInv(q)
  BY <1>0, <1>4, <1>5 DEF NonceInv
<1> QED
  BY <1>0, <1>1, <1>5, <1>6 DEF Good

-----------------------------------------------------------------------------
(* The loops *)

ActSet == [k : ActionKinds, n : Nat, key : Keys, to : Accounts]

\* Failing keeps what was done.
LEMMA FailedRun ==
  ASSUME NEW D, NEW r \in Runs(D)
  PROVE  Failed(r) \in Runs(D)
BY DEF Failed, Runs

\* One account action.
LEMMA AccountActionRun ==
  ASSUME NEW D, NEW r \in Runs(D), NEW t \in TxSet, NEW act \in ActSet
  PROVE  AccountAction(r, t, act) \in Runs(D)
<1>0. /\ r.m \in Good(D) /\ r.m \in Chains /\ r.signer_bal \in Nat
      /\ r.ok \in BOOLEAN
  BY DEF Runs, Good
<1>1. /\ t.receiver \in Accounts /\ t.signer \in Accounts /\ act.to \in Accounts
      /\ act.n \in Nat /\ act.key \in Keys /\ act.k \in ActionKinds
  BY DEF TxSet, ActSet
<1>2. r.m.exists \subseteq Accounts
  BY <1>0 DEF Chains
<1>3. ASSUME NEW q \in Good(D)
      PROVE  [r EXCEPT !.m = q] \in Runs(D)
  BY DEF Runs
<1>4. ASSUME NEW q \in Good(D), NEW x \in Nat
      PROVE  [r EXCEPT !.signer_bal = x, !.m = q] \in Runs(D)
  BY DEF Runs
<1>5. CreateAccount(r, t) \in Runs(D)
  <2> DEFINE E == r.m.exists \cup {t.receiver}
             q == [r.m EXCEPT !.exists = E]
  <2>1. CreateAccount(r, t) = Failed(r) \/ CreateAccount(r, t) = [r EXCEPT !.m = q]
    BY <1>0 DEF CreateAccount, Runs, Chains
  <2>2. E \in SUBSET Accounts
    BY <1>1, <1>2
  <2> HIDE DEF E
  <2>3. q \in Good(D)
    BY <1>0, <1>1, <2>2, WriteGood
  <2> HIDE DEF q
  <2> QED
    BY <1>3, <2>1, <2>3, FailedRun
<1>6. Transfer(r, t, act.n) \in Runs(D)
  <2> DEFINE a == t.receiver
             y == Balance(r.m, a) + act.n
             E == r.m.exists \cup {a}
             b == [r.m.bal EXCEPT ![a] = y]
             q == [r.m EXCEPT !.bal = b, !.exists = E]
             x == r.signer_bal - act.n
  <2>1. \/ Transfer(r, t, act.n) = Failed(r)
        \/ /\ ~(act.n > r.signer_bal)
           /\ Transfer(r, t, act.n) = [r EXCEPT !.signer_bal = x, !.m = q]
    BY <1>0 DEF Transfer, Runs, Chains
  <2>2. ~(act.n > r.signer_bal) => x \in Nat
    BY <1>0, <1>1
  <2>3. y \in Nat
    BY <1>0, <1>1, BalanceType
  <2>4. E \in SUBSET Accounts /\ a \in Accounts
    BY <1>1, <1>2
  <2> HIDE DEF a, y, E
  <2>5. q \in Good(D)
    BY <1>0, <2>3, <2>4, WriteGood
  <2> HIDE DEF q, x
  <2> QED
    BY <1>4, <2>1, <2>2, <2>5, FailedRun
<1>7. \A x \in Nat \cup {None} :
        [r EXCEPT !.m = ResetKey(r.m, <<t.signer, act.key>>, x)] \in Runs(D)
  BY <1>0, <1>1, <1>3, ResetGood
<1>8. DeleteAccount(r, t, act.to) \in Runs(D)
  <2> DEFINE a == t.signer
             c == act.to
             E == r.m.exists \ {a}
             b == [r.m.bal EXCEPT ![a] = None]
             gone == [r.m EXCEPT !.bal = b, !.exists = E]
             y == Balance(gone, c) + r.signer_bal
             d == [gone.bal EXCEPT ![c] = y]
             q == [gone EXCEPT !.bal = d]
  <2>1. gone = [r.m EXCEPT !.bal[t.signer] = None, !.exists = @ \ {t.signer}]
    BY <1>0 DEF Chains
  <2>2. E \in SUBSET Accounts /\ a \in Accounts /\ c \in Accounts
    BY <1>1, <1>2
  <2>3. gone \in Good(D)
    <3> HIDE DEF a, E
    <3> QED
      BY <1>0, <2>2, WriteGood
  <2>4. gone \in Chains
    BY <2>3 DEF Good
  <2> HIDE DEF gone
  <2>5. q = [gone EXCEPT !.bal[act.to] = Balance(gone, act.to) + r.signer_bal]
    BY <2>4 DEF Chains
  <2>6. DeleteAccount(r, t, act.to) = [r EXCEPT !.m = q]
    BY <2>1, <2>5 DEF DeleteAccount
  <2>7. y \in Nat
    BY <1>0, <2>2, <2>4, BalanceType
  <2> HIDE DEF y, c
  <2>8. q \in Good(D)
    BY <2>2, <2>3, <2>7, WriteGood
  <2> HIDE DEF q
  <2> QED
    BY <1>3, <2>6, <2>8
<1>9. CASE ~r.ok
  BY <1>9 DEF AccountAction
<1>10. CASE r.ok
  <2>1. CASE act.k = "CreateAccount"
    BY <1>5, <1>10, <2>1 DEF AccountAction
  <2>2. CASE act.k = "Transfer"
    BY <1>6, <1>10, <2>2 DEF AccountAction
  <2>3. CASE act.k = "AddKey"
    BY <1>7, <1>10, <2>3 DEF AccountAction
  <2>4. CASE act.k = "DeleteKey"
    BY <1>7, <1>10, <2>4 DEF AccountAction
  <2>5. CASE act.k = "DeleteAccount"
    BY <1>8, <1>10, <2>5 DEF AccountAction
  <2> QED
    BY <1>1, <2>1, <2>2, <2>3, <2>4, <2>5 DEF ActionKinds
<1> QED
  BY <1>9, <1>10

\* The deposit of one call.
LEMMA AttachedDepositRun ==
  ASSUME NEW D, NEW r \in Runs(D), NEW d \in Nat
  PROVE  AttachedDeposit(r, d) \in Runs(D)
<1>1. r.signer_bal \in Nat
  BY DEF Runs
<1>2. CASE ~r.ok \/ d > r.signer_bal
  BY <1>2, FailedRun DEF AttachedDeposit
<1>3. CASE ~(~r.ok \/ d > r.signer_bal)
  <2>1. AttachedDeposit(r, d) = [r EXCEPT !.signer_bal = r.signer_bal - d]
    BY <1>3 DEF AttachedDeposit
  <2>2. r.signer_bal - d \in Nat
    BY <1>1, <1>3
  <2> QED
    BY <2>1, <2>2 DEF Runs
<1> QED
  BY <1>2, <1>3

\* One function call.
LEMMA CallRun ==
  ASSUME NEW D, NEW c \in CallRuns(D), NEW end, NEW t \in TxSet, NEW d \in Nat
  PROVE  Call(c, end, t, d) \in CallRuns(D)
<1>1. c.m \in Good(D) /\ c.m \in Chains /\ c.events \in Nat
  BY DEF CallRuns, Good
<1> DEFINE a == t.receiver
           y == Balance(c.m, a) + d
           b == [c.m.bal EXCEPT ![a] = y]
<1>2. Credited(c.m, a, d) = [c.m EXCEPT !.bal = b]
  BY <1>1 DEF Credited, Chains
<1>3. a \in Accounts /\ y \in Nat
  <2>1. a \in Accounts
    BY DEF TxSet
  <2> QED
    BY <1>1, <2>1, BalanceType
<1> HIDE DEF a, y
<1>4. Credited(c.m, a, d) \in Good(D)
  <2>1. c.m.exists \in SUBSET Accounts
    BY <1>1 DEF Chains
  <2>2. [c.m EXCEPT !.bal = b] \in Good(D)
    BY <1>1, <1>3, <2>1, WriteGood
  <2> QED
    BY <1>2, <2>2
<1> DEFINE q == IF end = "trap" \/ d = 0 THEN c.m ELSE Credited(c.m, a, d)
           e == IF end = "event" THEN c.events + 1 ELSE c.events
           s == end \in {"missing", "trap"}
<1>5. q \in Good(D) /\ e \in Nat /\ s \in BOOLEAN
  BY <1>1, <1>4
<1>6. Call(c, end, t, d) = IF c.stop THEN c ELSE [m |-> q, events |-> e, stop |-> s]
  BY DEF Call, a
<1> HIDE DEF q, e, s
<1> QED
  BY <1>5, <1>6 DEF CallRuns

\* All account actions of a transaction.
LEMMA ActedRun ==
  ASSUME NEW D, NEW b \in Runs(D), NEW t \in TxSet
  PROVE  Acted(b, t) \in Runs(D)
<1> DEFINE n == Len(t.acts)
           R == Runs(D)
           F == [p \in (1..n) \X R |-> AccountAction(p[2], t, t.acts[p[1]])]
           Loop(r) == r = [i \in 0..n |->
                             IF i = 0 THEN b ELSE AccountAction(r[i - 1], t, t.acts[i])]
<1>1. t.acts \in Seq(ActSet) /\ n \in Nat
  BY LenProperties DEF TxSet, ActSet
<1>2. ASSUME NEW i \in 1..n, NEW r \in R
      PROVE  /\ AccountAction(r, t, t.acts[i]) \in R
             /\ F[<<i, r>>] = AccountAction(r, t, t.acts[i])
  <2>1. t.acts[i] \in ActSet
    BY <1>1, ElementOfSeq
  <2>2. <<i, r>> \in (1..n) \X R /\ <<i, r>>[1] = i /\ <<i, r>>[2] = r
    OBVIOUS
  <2>3. AccountAction(r, t, t.acts[i]) \in R
    BY <2>1, AccountActionRun
  <2> HIDE DEF n, R
  <2> QED
    BY <2>2, <2>3
<1> HIDE DEF n, R, F
<1>3. PICK q : LoopRun(q, n, b, R, F)
  <2>1. ASSUME NEW p \in (1..n) \X R
        PROVE  AccountAction(p[2], t, t.acts[p[1]]) \in R
    BY <1>2
  <2>2. F \in [(1..n) \X R -> R]
    BY <2>1 DEF F
  <2>3. b \in R /\ n \in Nat
    BY <1>1 DEF R
  <2> QED
    BY <2>2, <2>3, LoopExists
<1>4. Loop(q)
  <2>0. /\ q \in [0..n -> R] /\ q[0] = b
        /\ \A i \in 1..n : q[i] = F[<<i, q[i - 1]>>]
    BY <1>3 DEF LoopRun
  <2>1. ASSUME NEW i \in 0..n
        PROVE  q[i] = IF i = 0 THEN b ELSE AccountAction(q[i - 1], t, t.acts[i])
    <3>1. CASE i = 0
      BY <2>0, <3>1
    <3>2. CASE i # 0
      <4>1. i \in 1..n /\ i - 1 \in 0..n
        BY <1>1, <3>2
      <4>2. q[i] = F[<<i, q[i - 1]>>] /\ q[i - 1] \in R
        BY <2>0, <4>1
      <4> QED
        BY <1>2, <3>2, <4>1, <4>2
    <3> QED
      BY <3>1, <3>2
  <2>2. q = [i \in 0..n |-> q[i]]
    BY <2>0
  <2> QED
    BY <2>1, <2>2
<1> DEFINE r == CHOOSE f : Loop(f)
<1>5. Loop(r)
  BY <1>4
<1>6. Acted(b, t) = r[n]
  BY DEF Acted, n
<1> HIDE DEF r
<1>7. r[0] = b /\ \A i \in 1..n : r[i] = AccountAction(r[i - 1], t, t.acts[i])
  <2>1. \A i \in 0..n :
          r[i] = IF i = 0 THEN b ELSE AccountAction(r[i - 1], t, t.acts[i])
    BY <1>5, Zenon
  <2>2. 0 \in 0..n /\ \A i \in 1..n : i \in 0..n /\ i # 0
    BY <1>1
  <2> QED
    BY <2>1, <2>2
<1>8. r[n] \in R
  <2>1. \A i \in 1..n : r[i - 1] \in R => r[i] \in R
    BY <1>2, <1>7
  <2>2. r[0] \in R
    BY <1>7 DEF R
  <2> QED
    BY <1>1, <2>1, <2>2, LoopKeeps
<1> QED
  BY <1>6, <1>8 DEF R

\* The deposits of all calls of a transaction.
LEMMA PaidRun ==
  ASSUME NEW D, NEW b \in Runs(D), NEW t \in TxSet
  PROVE  Paid(b, t) \in Runs(D)
<1> DEFINE n == Len(t.deposits)
           R == Runs(D)
           F == [p \in (1..n) \X R |-> AttachedDeposit(p[2], t.deposits[p[1]])]
           Loop(r) == r = [i \in 0..n |->
                             IF i = 0 THEN b ELSE AttachedDeposit(r[i - 1], t.deposits[i])]
<1>1. t.deposits \in Seq(Nat) /\ n \in Nat
  BY LenProperties DEF TxSet
<1>2. ASSUME NEW i \in 1..n, NEW r \in R
      PROVE  /\ AttachedDeposit(r, t.deposits[i]) \in R
             /\ F[<<i, r>>] = AttachedDeposit(r, t.deposits[i])
  <2>1. t.deposits[i] \in Nat
    BY <1>1, ElementOfSeq
  <2>2. <<i, r>> \in (1..n) \X R /\ <<i, r>>[1] = i /\ <<i, r>>[2] = r
    OBVIOUS
  <2>3. AttachedDeposit(r, t.deposits[i]) \in R
    BY <2>1, AttachedDepositRun
  <2> HIDE DEF n, R
  <2> QED
    BY <2>2, <2>3
<1> HIDE DEF n, R, F
<1>3. PICK q : LoopRun(q, n, b, R, F)
  <2>1. ASSUME NEW p \in (1..n) \X R
        PROVE  AttachedDeposit(p[2], t.deposits[p[1]]) \in R
    BY <1>2
  <2>2. F \in [(1..n) \X R -> R]
    BY <2>1 DEF F
  <2>3. b \in R /\ n \in Nat
    BY <1>1 DEF R
  <2> QED
    BY <2>2, <2>3, LoopExists
<1>4. Loop(q)
  <2>0. /\ q \in [0..n -> R] /\ q[0] = b
        /\ \A i \in 1..n : q[i] = F[<<i, q[i - 1]>>]
    BY <1>3 DEF LoopRun
  <2>1. ASSUME NEW i \in 0..n
        PROVE  q[i] = IF i = 0 THEN b ELSE AttachedDeposit(q[i - 1], t.deposits[i])
    <3>1. CASE i = 0
      BY <2>0, <3>1
    <3>2. CASE i # 0
      <4>1. i \in 1..n /\ i - 1 \in 0..n
        BY <1>1, <3>2
      <4>2. q[i] = F[<<i, q[i - 1]>>] /\ q[i - 1] \in R
        BY <2>0, <4>1
      <4> QED
        BY <1>2, <3>2, <4>1, <4>2
    <3> QED
      BY <3>1, <3>2
  <2>2. q = [i \in 0..n |-> q[i]]
    BY <2>0
  <2> QED
    BY <2>1, <2>2
<1> DEFINE r == CHOOSE f : Loop(f)
<1>5. Loop(r)
  BY <1>4
<1>6. Paid(b, t) = r[n]
  BY DEF Paid, n
<1> HIDE DEF r
<1>7. r[0] = b /\ \A i \in 1..n : r[i] = AttachedDeposit(r[i - 1], t.deposits[i])
  <2>1. \A i \in 0..n :
          r[i] = IF i = 0 THEN b ELSE AttachedDeposit(r[i - 1], t.deposits[i])
    BY <1>5, Zenon
  <2>2. 0 \in 0..n /\ \A i \in 1..n : i \in 0..n /\ i # 0
    BY <1>1
  <2> QED
    BY <2>1, <2>2
<1>8. r[n] \in R
  <2>1. \A i \in 1..n : r[i - 1] \in R => r[i] \in R
    BY <1>2, <1>7
  <2>2. r[0] \in R
    BY <1>7 DEF R
  <2> QED
    BY <1>1, <2>1, <2>2, LoopKeeps
<1> QED
  BY <1>6, <1>8 DEF R

\* All calls of a transaction, whatever they do.
LEMMA CallsRun ==
  ASSUME NEW D, NEW m \in Good(D), NEW t \in TxSet, NEW ends
  PROVE  Calls(m, t, ends) \in CallRuns(D)
<1> DEFINE n == Len(t.deposits)
           R == CallRuns(D)
           b == [m |-> m, events |-> 0, stop |-> FALSE]
           F == [p \in (1..n) \X R |-> Call(p[2], ends[p[1]], t, t.deposits[p[1]])]
           Loop(r) == r = [i \in 0..n |->
                             IF i = 0 THEN b ELSE Call(r[i - 1], ends[i], t, t.deposits[i])]
<1>0. b \in R
  BY DEF CallRuns
<1>1. t.deposits \in Seq(Nat) /\ n \in Nat
  BY LenProperties DEF TxSet
<1>2. ASSUME NEW i \in 1..n, NEW r \in R
      PROVE  /\ Call(r, ends[i], t, t.deposits[i]) \in R
             /\ F[<<i, r>>] = Call(r, ends[i], t, t.deposits[i])
  <2>1. t.deposits[i] \in Nat
    BY <1>1, ElementOfSeq
  <2>2. <<i, r>> \in (1..n) \X R /\ <<i, r>>[1] = i /\ <<i, r>>[2] = r
    OBVIOUS
  <2>3. Call(r, ends[i], t, t.deposits[i]) \in R
    BY <2>1, CallRun
  <2> HIDE DEF n, R
  <2> QED
    BY <2>2, <2>3
<1> HIDE DEF n, R, F, b
<1>3. PICK q : LoopRun(q, n, b, R, F)
  <2>1. ASSUME NEW p \in (1..n) \X R
        PROVE  Call(p[2], ends[p[1]], t, t.deposits[p[1]]) \in R
    BY <1>2
  <2>2. F \in [(1..n) \X R -> R]
    BY <2>1 DEF F
  <2>3. b \in R /\ n \in Nat
    BY <1>0, <1>1
  <2> QED
    BY <2>2, <2>3, LoopExists
<1>4. Loop(q)
  <2>0. /\ q \in [0..n -> R] /\ q[0] = b
        /\ \A i \in 1..n : q[i] = F[<<i, q[i - 1]>>]
    BY <1>3 DEF LoopRun
  <2>1. ASSUME NEW i \in 0..n
        PROVE  q[i] = IF i = 0 THEN b ELSE Call(q[i - 1], ends[i], t, t.deposits[i])
    <3>1. CASE i = 0
      BY <2>0, <3>1
    <3>2. CASE i # 0
      <4>1. i \in 1..n /\ i - 1 \in 0..n
        BY <1>1, <3>2
      <4>2. q[i] = F[<<i, q[i - 1]>>] /\ q[i - 1] \in R
        BY <2>0, <4>1
      <4> QED
        BY <1>2, <3>2, <4>1, <4>2
    <3> QED
      BY <3>1, <3>2
  <2>2. q = [i \in 0..n |-> q[i]]
    BY <2>0
  <2> QED
    BY <2>1, <2>2
<1> DEFINE r == CHOOSE f : Loop(f)
<1>5. Loop(r)
  BY <1>4
<1>6. Calls(m, t, ends) = r[n]
  BY DEF Calls, n, b
<1> HIDE DEF r
<1>7. r[0] = b /\ \A i \in 1..n : r[i] = Call(r[i - 1], ends[i], t, t.deposits[i])
  <2>1. \A i \in 0..n :
          r[i] = IF i = 0 THEN b ELSE Call(r[i - 1], ends[i], t, t.deposits[i])
    BY <1>5, Zenon
  <2>2. 0 \in 0..n /\ \A i \in 1..n : i \in 0..n /\ i # 0
    BY <1>1
  <2> QED
    BY <2>1, <2>2
<1>8. r[n] \in R
  <2>1. \A i \in 1..n : r[i - 1] \in R => r[i] \in R
    BY <1>2, <1>7
  <2>2. r[0] \in R
    BY <1>0, <1>7
  <2> QED
    BY <1>1, <2>1, <2>2, LoopKeeps
<1> QED
  BY <1>6, <1>8 DEF R

\* apply_account_semantics on a good chain leaves a good one that has lost
\* nothing it had done, and has done the transaction if it answers Ok.
LEMMA ApplyGood ==
  ASSUME NEW m \in Good({}), NEW t \in TxSet
  PROVE  LET r == apply_account_semantics(m, t)
         IN  /\ r.m \in Good(m.done)
             /\ r.ok => Use(t) \in r.m.done
<1> DEFINE D == m.done
           funded == Funded(m, t)
           b == [ok |-> TRUE, m |-> Registered(funded, t),
                 signer_bal |-> funded.bal[t.signer]]
           paid == Paid(Acted(b, t), t)
           r == apply_account_semantics(m, t)
<1>1. m \in Good(D)
  BY DEF Good
<1>2. funded \in Good(D) /\ funded.bal[t.signer] \in Nat
  BY <1>1, FundedGood
<1>3. r = IF ~NonceOK(funded, t) THEN [ok |-> FALSE, m |-> funded, signer_bal |-> 0]
          ELSE IF paid.ok THEN [paid EXCEPT !.m.bal[t.signer] = paid.signer_bal]
          ELSE paid
  BY DEF apply_account_semantics
<1> HIDE DEF r, funded, D
<1>4. CASE ~NonceOK(funded, t)
  <2>1. r = [ok |-> FALSE, m |-> funded, signer_bal |-> 0]
    BY <1>3, <1>4
  <2>2. r.m = funded /\ r.ok = FALSE
    BY <2>1
  <2> QED
    BY <1>2, <2>2 DEF r, D
<1>5. CASE NonceOK(funded, t)
  <2> DEFINE E == D \cup {Use(t)}
  <2>1. Registered(funded, t) \in Good(E)
    BY <1>2, <1>5, RegisteredGood
  <2> HIDE DEF E
  <2>2. b \in Runs(E)
    BY <1>2, <2>1 DEF Runs
  <2> HIDE DEF b
  <2>3. paid \in Runs(E)
    BY <2>2, ActedRun, PaidRun
  <2> HIDE DEF paid
  <2>4. paid.m \in Good(E) /\ paid.m \in Chains /\ paid.signer_bal \in Nat
    BY <2>3 DEF Runs, Good
  <2> DEFINE a == t.signer
             x == paid.signer_bal
             q == [paid.m EXCEPT !.bal = [paid.m.bal EXCEPT ![a] = x]]
  <2>5. a \in Accounts /\ x \in Nat \cup {None} /\ paid.m.exists \in SUBSET Accounts
    BY <2>4 DEF TxSet, Chains
  <2>6. [paid EXCEPT !.m.bal[t.signer] = paid.signer_bal] = [paid EXCEPT !.m = q]
    BY <2>3, <2>4 DEF Runs, Chains
  <2> HIDE DEF a, x
  <2>7. q \in Good(E)
    BY <2>4, <2>5, WriteGood
  <2> HIDE DEF q
  <2>8. r = IF paid.ok THEN [paid EXCEPT !.m = q] ELSE paid
    BY <1>3, <1>5, <2>6
  <2>9. r.m \in Good(E)
    BY <2>3, <2>4, <2>7, <2>8 DEF Runs
  <2>10. r.m \in Good(D) /\ Use(t) \in r.m.done
    BY <2>9 DEF Good, E
  <2> QED
    BY <2>10 DEF r, D
<1> QED
  BY <1>4, <1>5

\* The new chain starts good, and no chain is the torn file.
LEMMA EmptyGood ==
  EmptyChain \in Good({}) /\ Torn \notin Chains
<1>1. EmptyChain \in Chains
  BY DEF EmptyChain, Chains
<1>2. EmptyChain \in Good({})
  BY <1>1 DEF EmptyChain, Good, NonceInv
<1>3. Torn.exists = Accounts \cup {None}
  BY DEF Torn, EmptyChain
<1>4. ASSUME Torn \in Chains PROVE FALSE
  BY <1>3, <1>4, ServerAssumption DEF Chains
<1> QED
  BY <1>2, <1>4

-----------------------------------------------------------------------------
(* The invariants *)

\* The chain in memory and the one in the file are good.
ChainsInv == mem \in Good({}) /\ disk \in Good({}) \cup {Torn}

SInv == TypeOK /\ ChainsInv

\* What the transactions of clients look like.
LEMMA TxTyped ==
  ASSUME NEW t \in Txs
  PROVE  t \in TxSet /\ Use(t) \in Uses /\ Len(t.deposits) \in Nat
<1>1. t \in TxSet
  BY TxsAssumption DEF TxSet
<1> QED
  BY <1>1, LenProperties DEF TxSet, Use, Uses

\* What a request does to the chain in memory and to the feed.
LEMMA RequestFacts ==
  ASSUME SInv, NEW t \in Txs, Refuse(t) \/ Execute(t)
  PROVE  /\ mem' \in Good(mem.done) /\ step = "listen"
         /\ UNCHANGED <<disk, reader, acked, unsaved, crashes>>
         /\ sends' = sends + 1
         /\ \/ UNCHANGED <<step, tx, records, height>>
            \/ /\ step' = "save" /\ tx' = t /\ Use(t) \in mem'.done
               /\ \E n \in Nat : record_events(n)
<1> DEFINE r == apply_account_semantics(mem, t)
<1>1. r.m \in Good(mem.done) /\ (r.ok => Use(t) \in r.m.done)
  BY TxTyped, ApplyGood DEF SInv, ChainsInv
<1>2. CASE Refuse(t)
  <2>1. mem' = r.m /\ step = "listen" /\ sends' = sends + 1
        /\ UNCHANGED <<disk, step, tx, records, height, reader, acked, unsaved,
                       crashes>>
    BY <1>2 DEF Refuse
  <2> HIDE DEF r
  <2> QED
    BY <1>1, <2>1
<1>3. CASE Execute(t)
  <2>1. /\ r.ok /\ step = "listen" /\ step' = "save" /\ tx' = t
        /\ sends' = sends + 1
        /\ UNCHANGED <<disk, reader, acked, unsaved, crashes>>
        /\ \E ends \in [1 .. Len(t.deposits) -> Outcomes] :
             /\ mem' = Calls(r.m, t, ends).m
             /\ record_events(Calls(r.m, t, ends).events)
    BY <1>3 DEF Execute
  <2> HIDE DEF r
  <2>2. PICK ends : /\ mem' = Calls(r.m, t, ends).m
                    /\ record_events(Calls(r.m, t, ends).events)
    BY <2>1
  <2> DEFINE D == mem.done \cup {Use(t)}
             c == Calls(r.m, t, ends)
  <2>3. r.m \in Good(D)
    BY <1>1, <2>1 DEF Good
  <2> HIDE DEF D
  <2>4. c \in CallRuns(D)
    BY <2>3, TxTyped, CallsRun
  <2> HIDE DEF c
  <2>5. mem' \in Good(D) /\ c.events \in Nat /\ record_events(c.events)
    BY <2>2, <2>4 DEF CallRuns, c
  <2>6. mem' \in Good(mem.done) /\ Use(t) \in mem'.done
    BY <2>5 DEF Good, D
  <2> QED
    BY <2>1, <2>5, <2>6
<1> QED
  BY <1>2, <1>3

\* Every step keeps the types and the nonces.
LEMMA ServerStep ==
  ASSUME SInv, [Next]_vars
  PROVE  SInv'
<1>0. /\ mem \in Chains /\ mem \in Good({}) /\ disk \in Good({}) \cup {Torn}
      /\ Good({}) \subseteq Chains
  BY DEF SInv, ChainsInv, Good
<1>1. CASE UNCHANGED vars
  BY <1>1 DEF vars, SInv, TypeOK, ChainsInv
<1>2. ASSUME NEW t \in Txs, Refuse(t) \/ Execute(t)
      PROVE  SInv'
  <2>1. /\ mem' \in Good(mem.done)
        /\ UNCHANGED <<disk, reader, acked, unsaved, crashes>>
        /\ sends' = sends + 1
        /\ \/ UNCHANGED <<step, tx, records, height>>
           \/ /\ step' = "save" /\ tx' = t
              /\ \E n \in Nat : record_events(n)
    BY <1>2, RequestFacts
  <2>2. mem' \in Good({}) /\ mem' \in Chains
    BY <2>1 DEF Good
  <2>3. records' \subseteq Nat /\ height' \in Nat
    <3>1. CASE UNCHANGED <<records, height>>
      BY <3>1 DEF SInv, TypeOK
    <3>2. ASSUME NEW n \in Nat, record_events(n)
          PROVE  records' \subseteq Nat /\ height' \in Nat
      <4>1. records \subseteq Nat /\ height \in Nat
        BY DEF SInv, TypeOK
      <4>2. \A i \in 1..n : height + i \in Nat
        BY <4>1
      <4>3. height + n \in Nat
        BY <4>1
      <4> QED
        BY <3>2, <4>1, <4>2, <4>3 DEF record_events
    <3> QED
      BY <2>1, <3>1, <3>2
  <2>4. ChainsInv'
    BY <2>1, <2>2 DEF SInv, ChainsInv
  <2>5. TypeOK'
    BY <2>1, <2>2, <2>3 DEF SInv, TypeOK
  <2> QED
    BY <2>4, <2>5 DEF SInv
<1>3. CASE Server
  <2>1. /\ UNCHANGED <<mem, tx, records, height, reader, sends, crashes>>
        /\ disk' \in {Torn, mem, disk} /\ step' \in {"write", "answer", "listen"}
        /\ acked' = acked \/ acked' = acked \cup {Use(tx)}
        /\ unsaved' \subseteq unsaved \cup {Use(tx)}
    BY <1>3 DEF Server, SaveBegins, SaveEnds, SaveFails, Answer
  <2>2. acked' \subseteq Uses /\ unsaved' \subseteq Uses
    BY <2>1, TxTyped DEF SInv, TypeOK
  <2>3. disk' \in Good({}) \cup {Torn} /\ disk' \in Chains \cup {Torn}
    BY <1>0, <2>1
  <2>4. ChainsInv'
    BY <1>0, <2>1, <2>3 DEF ChainsInv
  <2>5. TypeOK'
    BY <2>1, <2>2, <2>3 DEF SInv, TypeOK
  <2> QED
    BY <2>4, <2>5 DEF SInv
<1>4. CASE Crash
  <2>1. /\ mem' = (IF disk = Torn THEN EmptyChain ELSE disk)
        /\ step' = "listen" /\ records' = {} /\ height' = 0 /\ reader' = Away
        /\ crashes' = crashes + 1 /\ UNCHANGED <<disk, tx, acked, unsaved, sends>>
    BY <1>4 DEF Crash
  <2>2. mem' \in Good({}) /\ mem' \in Chains
    BY <1>0, <2>1, EmptyGood
  <2>3. reader' \in [cursor : Nat \cup {None}, from : Nat, seen : SUBSET Nat]
    BY <2>1 DEF Away
  <2>4. ChainsInv'
    BY <1>0, <2>1, <2>2 DEF ChainsInv
  <2>5. TypeOK'
    BY <2>1, <2>2, <2>3 DEF SInv, TypeOK
  <2> QED
    BY <2>4, <2>5 DEF SInv
<1>5. CASE Worker
  <2>1. UNCHANGED <<mem, disk, step, tx, records, height, acked, unsaved, sends,
                    crashes>>
    BY <1>5 DEF Worker, Attach, neardata_block
  <2>2. reader' \in [cursor : Nat \cup {None}, from : Nat, seen : SUBSET Nat]
    <3>1. CASE Attach
      BY <3>1 DEF Attach, SInv, TypeOK
    <3>2. CASE neardata_block
      <4> DEFINE c == reader.cursor + 1
                 e == reader.seen \cup ({reader.cursor} \cap records)
      <4>1. reader' = [reader EXCEPT !.cursor = c, !.seen = e]
        BY <3>2 DEF neardata_block
      <4>2. /\ reader \in [cursor : Nat \cup {None}, from : Nat, seen : SUBSET Nat]
            /\ reader.cursor # None /\ records \subseteq Nat
        BY <3>2 DEF neardata_block, SInv, TypeOK
      <4>3. c \in Nat /\ e \in SUBSET Nat
        BY <4>2
      <4> HIDE DEF c, e
      <4> QED
        BY <4>1, <4>2, <4>3
    <3> QED
      BY <1>5, <3>1, <3>2 DEF Worker
  <2> QED
    BY <2>1, <2>2 DEF SInv, TypeOK, ChainsInv
<1> QED
  BY <1>1, <1>2, <1>3, <1>4, <1>5 DEF Next

\* The server starts with a new chain.
LEMMA ServerInit ==
  ASSUME Init
  PROVE  SInv
<1>1. tx \in Txs
  BY TxsAssumption DEF Init
<1>2. EmptyChain \in Chains
  BY EmptyGood DEF Good
<1>3. reader \in [cursor : Nat \cup {None}, from : Nat, seen : SUBSET Nat]
  BY DEF Init, Away
<1> QED
  BY <1>1, <1>2, <1>3, EmptyGood DEF Init, SInv, TypeOK, ChainsInv

\* Type correctness of the server, for every instance: no balance goes below
\* zero, whatever transfers, deletions and deposits a transaction combines.
THEOREM ServerTypeCorrect == Spec => []TypeOK
<1>1. Init => SInv
  BY ServerInit
<1>2. SInv /\ [Next]_vars => SInv'
  BY ServerStep
<1>3. SInv => TypeOK
  BY DEF SInv
<1> QED
  BY <1>1, <1>2, <1>3, PTL DEF Spec

\* Replay protection, for every instance: no signed transaction passes the
\* nonce check twice while its key stays registered, however often clients
\* send it, whatever keys are added and deleted in between, and across any
\* number of crashes, torn state files included.
THEOREM ServerRefusesReplays == Spec => []ReplayRefused
<1>1. Init => SInv
  BY ServerInit
<1>2. SInv /\ [Next]_vars => SInv'
  BY ServerStep
<1>3. SInv => ReplayRefused
  BY DEF SInv, ChainsInv, Good, NonceInv, ReplayRefused
<1> QED
  BY <1>1, <1>2, <1>3, PTL DEF Spec

-----------------------------------------------------------------------------
(* What was answered is durable *)

\* The file is torn exactly while it is written, and holds what is answered but
\* for what could not be saved.
DurableInv ==
  /\ AnsweredDurable
  /\ disk # Torn => acked \subseteq disk.done \cup unsaved
  /\ step = "write" <=> disk = Torn
  /\ step = "answer" => Use(tx) \in disk.done \cup unsaved
  /\ step # "listen" => Use(tx) \in mem.done

\* Every step keeps it, when crashes and errors leave the file whole.
LEMMA DurableStep ==
  ASSUME TornWrites = FALSE, SInv, DurableInv, [Next]_vars
  PROVE  DurableInv'
<1>0. mem # Torn
  BY EmptyGood DEF SInv, TypeOK
<1>1. CASE UNCHANGED vars
  BY <1>1 DEF vars, DurableInv, AnsweredDurable
<1>2. ASSUME NEW t \in Txs, Refuse(t) \/ Execute(t)
      PROVE  DurableInv'
  <2>1. /\ mem' \in Good(mem.done) /\ step = "listen"
        /\ UNCHANGED <<disk, acked, unsaved>>
        /\ \/ step' = step
           \/ step' = "save" /\ tx' = t /\ Use(t) \in mem'.done
    BY <1>2, RequestFacts
  <2>2. mem.done \subseteq mem'.done
    BY <2>1 DEF Good
  <2>3. step' # "listen" => Use(tx') \in mem'.done
    BY <2>1
  <2>4. acked' \subseteq mem'.done \cup unsaved'
    BY <2>1, <2>2 DEF DurableInv, AnsweredDurable
  <2> QED
    BY <2>1, <2>3, <2>4 DEF DurableInv, AnsweredDurable
<1>3. CASE SaveBegins
  BY <1>3 DEF SaveBegins, DurableInv, AnsweredDurable, Use
<1>4. CASE SaveEnds
  <2>1. /\ disk' = mem /\ unsaved' = unsaved \ mem.done /\ step = "write"
        /\ step' = "answer" /\ UNCHANGED <<mem, tx, acked>>
    BY <1>4 DEF SaveEnds
  <2>2. acked \subseteq mem.done \cup unsaved /\ Use(tx) \in mem.done
    BY <2>1 DEF DurableInv, AnsweredDurable
  <2> QED
    BY <1>0, <2>1, <2>2 DEF DurableInv, AnsweredDurable, Use
<1>5. CASE SaveFails
  <2>1. /\ unsaved' = unsaved \cup {Use(tx)} /\ step = "save"
        /\ step' = "answer" /\ UNCHANGED <<mem, disk, tx, acked>>
    BY <1>5 DEF SaveFails
  <2> QED
    BY <2>1 DEF DurableInv, AnsweredDurable, Use
<1>6. CASE Answer
  BY <1>0, <1>6 DEF Answer, DurableInv, AnsweredDurable
<1>7. CASE Crash
  <2>1. step # "write" /\ disk # Torn
    BY <1>7 DEF Crash, DurableInv
  <2>2. mem' = disk /\ step' = "listen" /\ UNCHANGED <<disk, acked, unsaved>>
    BY <1>7, <2>1 DEF Crash
  <2> QED
    BY <2>1, <2>2 DEF DurableInv, AnsweredDurable
<1>8. CASE Worker
  <2>1. UNCHANGED <<mem, disk, step, tx, acked, unsaved>>
    BY <1>8 DEF Worker, Attach, neardata_block
  <2> QED
    BY <2>1 DEF DurableInv, AnsweredDurable
<1> QED
  BY <1>1, <1>2, <1>3, <1>4, <1>5, <1>6, <1>7, <1>8 DEF Next, Server

\* What a client was told is final survives every crash, once its own save or a
\* later one has succeeded, for every instance; crashes and errors that leave
\* the file half written are excepted.
THEOREM ServerAnswersAreDurable ==
  ASSUME TornWrites = FALSE
  PROVE  Spec => []AnsweredDurable
<1>1. Init => SInv /\ DurableInv
  <2> SUFFICES ASSUME Init PROVE SInv /\ DurableInv
    OBVIOUS
  <2>1. SInv
    BY ServerInit
  <2>2. disk # Torn
    BY EmptyGood DEF Init, Good
  <2> QED
    BY <2>1, <2>2 DEF Init, DurableInv, AnsweredDurable
<1>2. SInv /\ DurableInv /\ [Next]_vars => SInv' /\ DurableInv'
  BY ServerStep, DurableStep
<1>3. DurableInv => AnsweredDurable
  BY DEF DurableInv
<1> QED
  BY <1>1, <1>2, <1>3, PTL DEF Spec

-----------------------------------------------------------------------------
(* The feed *)

\* No event lies above the height, and the worker asks for at most the height
\* after it.
FeedInv ==
  /\ records \subseteq 1..height
  /\ reader.cursor # None => reader.cursor <= height + 1
  /\ FeedComplete

\* Every step keeps the feed.
LEMMA FeedStep ==
  ASSUME SInv, FeedInv, [Next]_vars
  PROVE  FeedInv'
<1>0. /\ height \in Nat /\ reader.cursor \in Nat \cup {None} /\ reader.from \in Nat
      /\ reader \in [cursor : Nat \cup {None}, from : Nat, seen : SUBSET Nat]
      /\ records \subseteq 1..height
  BY DEF SInv, TypeOK, FeedInv
<1>1. ASSUME UNCHANGED <<records, height, reader>>
      PROVE  FeedInv'
  BY <1>1 DEF FeedInv, FeedComplete
<1>2. ASSUME NEW t \in Txs, Refuse(t) \/ Execute(t)
      PROVE  FeedInv'
  <2>1. /\ UNCHANGED reader
        /\ \/ UNCHANGED <<records, height>>
           \/ \E n \in Nat : record_events(n)
    BY <1>2, RequestFacts
  <2>2. ASSUME NEW n \in Nat, record_events(n)
        PROVE  FeedInv'
    <3>1. /\ records' = records \cup {height + i : i \in 1 .. n}
          /\ height' = height + n
      BY <2>2 DEF record_events
    <3>2. \A i \in 1..n : height + i \in 1..(height + n) /\ height + i >= height + 1
      BY <1>0
    <3>3. records' \subseteq 1..height'
      <4>1. \A h \in 1..height : h \in 1..(height + n)
        BY <1>0
      <4>2. \A h \in records : h \in 1..(height + n)
        BY <1>0, <4>1
      <4> QED
        BY <3>1, <3>2, <4>2
    <3>4. reader'.cursor # None => reader'.cursor <= height' + 1
      BY <1>0, <2>1, <3>1 DEF FeedInv
    <3>5. ASSUME NEW h \in records', reader.from <= h, h < reader.cursor
          PROVE  h \in reader.seen
      <4>1. h \in Nat /\ reader.cursor \in Nat /\ reader.cursor <= height + 1
        <5>1. h \in 1..height'
          BY <3>3
        <5>2. h \in Nat
          BY <1>0, <3>1, <5>1
        <5>3. reader.cursor \in Nat
          BY <1>0, <3>5, <5>2 DEF None
        <5>4. reader.cursor <= height + 1
          BY <5>3 DEF FeedInv, None
        <5> QED
          BY <5>2, <5>3, <5>4
      <4>2. ASSUME NEW i \in 1..n, h = height + i PROVE FALSE
        <5>1. h < height + 1
          BY <1>0, <3>5, <4>1
        <5> QED
          BY <1>0, <4>2, <5>1
      <4>3. h \in records
        BY <3>1, <4>2
      <4> QED
        BY <3>5, <4>3 DEF FeedInv, FeedComplete
    <3> QED
      BY <2>1, <3>3, <3>4, <3>5 DEF FeedInv, FeedComplete
  <2> QED
    BY <1>1, <2>1, <2>2
<1>3. CASE Server
  BY <1>1, <1>3 DEF Server, SaveBegins, SaveEnds, SaveFails, Answer
<1>4. CASE Crash
  BY <1>4 DEF Crash, Away, FeedInv, FeedComplete
<1>5. CASE Attach
  <2>1. /\ reader' = [cursor |-> height, from |-> height, seen |-> {}]
        /\ UNCHANGED <<records, height>>
    BY <1>5 DEF Attach
  <2>2. \A h \in records : ~(height <= h /\ h < height)
    BY <1>0
  <2>3. reader'.cursor <= height' + 1
    BY <1>0, <2>1
  <2> QED
    BY <1>0, <2>1, <2>2, <2>3 DEF FeedInv, FeedComplete
<1>6. CASE neardata_block
  <2> DEFINE c == reader.cursor
             e == reader.seen \cup ({c} \cap records)
  <2>1. /\ c # None /\ (c \in records \/ c <= known_max)
        /\ reader' = [reader EXCEPT !.cursor = c + 1, !.seen = e]
        /\ UNCHANGED <<records, height>>
    BY <1>6 DEF neardata_block
  <2>2. c \in Nat
    BY <1>0, <2>1
  <2>3. c <= height
    <3>1. CASE c \in records
      <4>1. c \in 1..height
        BY <1>0, <3>1
      <4> HIDE DEF c
      <4> QED
        BY <1>0, <4>1
    <3>2. CASE c <= known_max
      <4>1. records # {}
        BY <2>2, <3>2 DEF known_max, None
      <4>2. Max(records) \in records
        BY <1>0, <4>1, MaxIn
      <4>3. known_max \in 1..height
        BY <1>0, <4>1, <4>2 DEF known_max
      <4> QED
        BY <1>0, <2>2, <3>2, <4>3
    <3> QED
      BY <2>1, <3>1, <3>2
  <2> HIDE DEF e
  <2>4. /\ reader'.cursor = c + 1 /\ reader'.from = reader.from
        /\ reader'.seen = e
    BY <1>0, <2>1
  <2>5. reader'.cursor <= height' + 1
    BY <1>0, <2>1, <2>2, <2>3, <2>4
  <2>6. ASSUME NEW h \in records, reader.from <= h, h < c + 1
        PROVE  h \in e
    <3>1. h = c \/ h < c
      BY <1>0, <2>2, <2>6
    <3>2. h < c => h \in reader.seen
      BY <2>6 DEF FeedInv, FeedComplete
    <3> QED
      BY <3>1, <3>2 DEF e
  <2> QED
    BY <1>0, <2>1, <2>4, <2>5, <2>6 DEF FeedInv, FeedComplete
<1> QED
  BY <1>1, <1>2, <1>3, <1>4, <1>5, <1>6 DEF Next, Worker, vars

\* The worker misses no event of the blocks it has passed, for every instance
\* and any number of requests and crashes.
THEOREM ServerFeedIsComplete == Spec => []FeedComplete
<1>1. Init => SInv /\ FeedInv
  BY ServerInit DEF Init, Away, FeedInv, FeedComplete
<1>2. SInv /\ FeedInv /\ [Next]_vars => SInv' /\ FeedInv'
  BY ServerStep, FeedStep
<1>3. FeedInv => FeedComplete
  BY DEF FeedInv
<1> QED
  BY <1>1, <1>2, <1>3, PTL DEF Spec

=============================================================================
