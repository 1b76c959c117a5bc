---------------------------- MODULE VaultPromise ----------------------------
(***************************************************************************)
(* What the example vault promises its users, without storage, TTLs and    *)
(* ledgers: a balance that only deposits, withdrawals and claims change,   *)
(* and at most one pending grant, claimed at most once.                    *)
(***************************************************************************)
EXTENDS Integers

CONSTANTS Users

VARIABLES balance, pending

Init ==
  /\ balance = [u \in Users |-> 0]
  /\ pending = [u \in Users |-> 0]

\* The new balance, or pending grant, of one user; nobody else's changes.
Becomes(f, u, n) == f' = [f EXCEPT ![u] = n]

Deposit(u) ==
  /\ balance'[u] \in Nat /\ balance'[u] > balance[u]
  /\ Becomes(balance, u, balance'[u])
  /\ UNCHANGED pending

Withdraw(u) ==
  /\ balance'[u] \in 0 .. balance[u] - 1
  /\ Becomes(balance, u, balance'[u])
  /\ UNCHANGED pending

Grant(u) ==
  /\ pending'[u] \in Nat \ {0}
  /\ Becomes(pending, u, pending'[u])
  /\ UNCHANGED balance

Claim(u) ==
  /\ pending[u] > 0
  /\ balance' = [balance EXCEPT ![u] = @ + pending[u]]
  /\ pending' = [pending EXCEPT ![u] = 0]

Next == \E u \in Users : Deposit(u) \/ Withdraw(u) \/ Grant(u) \/ Claim(u)

Spec == Init /\ [][Next]_<<balance, pending>>
=============================================================================
