---------------------------- MODULE MCRpcServer ----------------------------
(* Bounded transactions for RpcServer. *)
EXTENDS RpcServer

CONSTANTS alice, bob, k1, k2

Act(k, n, key, to) == [k |-> k, n |-> n, key |-> key, to |-> to]
Pay(n) == Act("Transfer", n, k1, bob)

Tx(s, k, n, to, acts, deposits) ==
  [signer |-> s, key |-> k, nonce |-> n, receiver |-> to, acts |-> acts, deposits |-> deposits]

(* Of alice: every kind of account action, alone and before or after a     *)
(* payment that may be too large, and up to two calls.                     *)
AccountActs ==
  {<<Act("CreateAccount", 0, k1, bob)>>, <<Pay(1)>>, <<Pay(1), Pay(2)>>,
   <<Pay(2), Pay(2)>>,
   <<Act("AddKey", 0, k1, bob)>>, <<Act("DeleteKey", 0, k1, bob)>>,
   <<Act("DeleteAccount", 0, k1, bob)>>}

MCTxs ==
  {Tx(alice, k1, n, bob, acts, << >>) : n \in {1, 2}, acts \in AccountActs}
  \cup {Tx(alice, k1, n, bob, << >>, d) : n \in {1, 2}, d \in {<<0>>, <<1, 2>>}}
  \cup {Tx(bob, k2, 1, alice, <<Pay(1)>>, <<0>>)}
=============================================================================
