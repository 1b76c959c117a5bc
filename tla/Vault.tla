------------------------------- MODULE Vault --------------------------------
(***************************************************************************)
(* The example contract (example-contract/src/lib.rs) on the storage       *)
(* operations of StorageOps, while ledgers close and entries are deleted,  *)
(* archived and restored.  A method is one transaction: it takes effect as *)
(* a whole, or, when it panics or reaches an archived entry, not at all.   *)
(* Authorization is left out: a method is called by whom it requires.      *)
(***************************************************************************)
EXTENDS StorageOps

CONSTANTS
  Users,
  Amounts,       \* amounts passed to deposit, withdraw and grant
  Nonces,        \* nonces passed to consume_nonce
  MaxI128,       \* i128::MAX, scaled down
  GrantTtl,      \* the 14 days of grant, in (scaled) ledgers
  PolicyOf,      \* PolicyOf[kind of key]: its TtlPolicy, <<threshold, extend_to>>
  AdminAddress,  \* the admin given to the constructor
  MaxLedger,     \* bound: the last ledger the model closes
  MaxFunding     \* bound: deposits and grants in one behaviour

\* enum StorageKey
Balance(u) == <<"Balance", u>>
Nonce(u) == <<"Nonce", u>>
GrantOf(u) == <<"Grant", u>>
Admin == <<"Admin">>

VaultKeys == {Admin} \cup
             UNION {{Balance(u), Nonce(u), GrantOf(u)} : u \in Users}

\* The storage! declarations.
VaultLifecycle ==
  [k \in VaultKeys |-> CASE k[1] \in {"Balance", "Grant"} -> "persistent"
                         [] k[1] = "Nonce"                -> "temporary"
                         [] k[1] = "Admin"                -> "instance"]

\* i128 arithmetic of a release build, which has no overflow checks.
I128 == -(MaxI128 + 1) .. MaxI128
Wrapped(x) == ((x + MaxI128 + 1) % (2 * (MaxI128 + 1))) - (MaxI128 + 1)

VaultValues == I128 \cup {AdminAddress}
VaultThreshold == [k \in VaultKeys |-> PolicyOf[k[1]][1]]
VaultExtendTo == [k \in VaultKeys |-> PolicyOf[k[1]][2]]

\* What storage! generates for these declarations.
ASSUME DeclarationsAssumption ==
  /\ Keys = VaultKeys /\ AutoBump = VaultKeys
  /\ Lifecycle = VaultLifecycle
  /\ Values = VaultValues
  /\ Threshold = VaultThreshold /\ ExtendTo = VaultExtendTo

\* Amounts are i128, nonces no negative ones; an address is no number.  The
\* default policy of a nonce bumps to more than its threshold (ttl.rs).
ASSUME VaultAssumption ==
  /\ MaxI128 \in Nat /\ AdminAddress \notin I128
  /\ Amounts \subseteq I128 /\ Nonces \subseteq 0 .. MaxI128
  /\ GrantTtl \in Nat
  /\ MaxLedger \in Nat \ {0} /\ MaxFunding \in Nat
  /\ PolicyOf["Nonce"][1] <=
       Lower(Lower(PolicyOf["Nonce"][2], MAX_TEMP_TTL), MaxTtl["temporary"])

VARIABLES
  ledger,      \* the current ledger
  store,       \* the contract's storage
  funding,     \* deposits and grants so far
  nonceSeen    \* history: the greatest nonce consumed, and when last

vars == <<ledger, store, funding, nonceSeen>>

Unwrap(k) == IF Has(store, k) THEN store.value[k] ELSE 0   \* unwrap_or(0)

\* __constructor, in the transaction that deploys the contract.
Init ==
  /\ ledger = 1
  /\ store = Set([value |-> [k \in VaultKeys |-> Absent],
                  live  |-> [s \in VaultKeys \cup {Instance} |->
                               IF s = Instance THEN 1 + MinTtl["instance"]
                                               ELSE 0]],
                 1, Admin, AdminAddress)
  /\ funding = 0
  /\ nonceSeen = [u \in Users |-> [nonce |-> 0, at |-> 0]]

\* A transaction that reads and writes keys runs in the current ledger.
Invoke(keys) ==
  /\ \A k \in keys : Accessible(store, ledger, k)
  /\ UNCHANGED ledger

\* The closure |old| old.unwrap_or(0) + amount.
Plus(amount) == [old \in I128 \cup {Absent} |->
                   Wrapped((IF old = Absent THEN 0 ELSE old) + amount)]

Fund == funding < MaxFunding /\ funding' = funding + 1

Deposit(u, amount) ==
  /\ amount > 0
  /\ Invoke({Balance(u)})
  /\ store' = Update(store, ledger, Balance(u), Plus(amount))
  /\ Fund
  /\ UNCHANGED nonceSeen

Withdraw(u, amount) ==
  /\ amount > 0
  /\ Invoke({Balance(u)})
  /\ amount <= Unwrap(Balance(u))
  /\ store' = Set(Get(store, ledger, Balance(u)), ledger, Balance(u),
                  Unwrap(Balance(u)) - amount)
  /\ UNCHANGED <<funding, nonceSeen>>

\* balance and admin only read, and bump.
Read(k) ==
  /\ Invoke({k})
  /\ k = Admin => Has(store, k)
  /\ store' = Get(store, ledger, k)
  /\ UNCHANGED <<funding, nonceSeen>>

Grant(u, amount) ==
  /\ amount > 0
  /\ Invoke({Admin, GrantOf(u)})
  /\ Has(store, Admin)
  /\ store' = SetTtl(Get(store, ledger, Admin), ledger, GrantOf(u), amount,
                     GrantTtl)
  /\ Fund
  /\ UNCHANGED nonceSeen

\* Mutant: the grant is not removed.
MutClaim(u) ==
  /\ Invoke({GrantOf(u), Balance(u)})
  /\ Unwrap(GrantOf(u)) # 0
  /\ store' = Update(Get(store, ledger, GrantOf(u)), ledger, Balance(u),
                     Plus(Unwrap(GrantOf(u))))
  /\ UNCHANGED <<funding, nonceSeen>>

Claim(u) ==
  /\ Invoke({GrantOf(u), Balance(u)})
  /\ Unwrap(GrantOf(u)) # 0
  /\ store' = Update(Remove(Get(store, ledger, GrantOf(u)), GrantOf(u)),
                     ledger, Balance(u),
                     Plus(Unwrap(GrantOf(u))))
  /\ UNCHANGED <<funding, nonceSeen>>

\* Mutant: an accepted nonce is not recorded over an existing one.
MutConsumeNonce(u, nonce) ==
  /\ Invoke({Nonce(u)})
  /\ nonce > Unwrap(Nonce(u))
  /\ store' = IF Has(store, Nonce(u)) THEN Get(store, ledger, Nonce(u))
              ELSE Set(store, ledger, Nonce(u), nonce)
  /\ nonceSeen' = [nonceSeen EXCEPT ![u] = [nonce |-> nonce, at |-> ledger]]
  /\ UNCHANGED funding

ConsumeNonce(u, nonce) ==
  /\ Invoke({Nonce(u)})
  /\ nonce > Unwrap(Nonce(u))
  /\ store' = Set(Get(store, ledger, Nonce(u)), ledger, Nonce(u), nonce)
  /\ nonceSeen' = [nonceSeen EXCEPT ![u] = [nonce |-> nonce, at |-> ledger]]
  /\ UNCHANGED funding

CloseLedger ==
  /\ ledger < MaxLedger
  /\ ledger' = ledger + 1
  /\ store' = Expire(store, ledger')
  /\ UNCHANGED <<funding, nonceSeen>>

\* An archived entry in use, or the instance, is restored.
Restore(k) ==
  /\ VaultLifecycle[k] # "temporary" /\ Has(store, k)
  /\ store.live[Slot(k)] < ledger
  /\ store' = Restored(store, ledger, Slot(k), VaultLifecycle[k])
  /\ UNCHANGED <<ledger, funding, nonceSeen>>

Next ==
  \/ \E u \in Users :
       \/ \E a \in Amounts : Deposit(u, a) \/ Withdraw(u, a) \/ Grant(u, a)
       \/ Claim(u)
       \/ \E n \in Nonces : ConsumeNonce(u, n)
       \/ Read(Balance(u))
  \/ Read(Admin)
  \/ CloseLedger
  \/ \E k \in VaultKeys : Restore(k)

Spec == Init /\ [][Next]_vars
-----------------------------------------------------------------------------
(* Properties *)

\* The type of every variable; a balance is an i128 and never the admin.
TypeOK ==
  /\ ledger \in 1 .. MaxLedger
  /\ store \in Stores
  /\ \A k \in VaultKeys \ {Admin} : store.value[k] \in I128 \cup {Absent}
  /\ funding \in 0 .. MaxFunding
  /\ nonceSeen \in [Users -> [nonce: Nat, at: Nat]]

(***************************************************************************)
(* The vault keeps the promise of VaultPromise: archival, restoration,     *)
(* expiry of nonces and bumping never change a balance or a grant, a grant *)
(* is claimed at most once, and no balance is overdrawn (within i128).     *)
(***************************************************************************)
Promise == INSTANCE VaultPromise WITH
  balance <- [u \in Users |-> Unwrap(Balance(u))],
  pending <- [u \in Users |-> Unwrap(GrantOf(u))]

KeepsPromise == Promise!Spec

(***************************************************************************)
(* A nonce protects against replay at least for the nonce policy's         *)
(* threshold (a day) after the last one was consumed: until then nothing   *)
(* at or below it is accepted (consume_nonce, auto-bump of the entry).     *)
(***************************************************************************)
NoncesHoldForADay ==
  [][\A u \in Users :
       nonceSeen'[u] # nonceSeen[u]
         /\ nonceSeen'[u].nonce <= nonceSeen[u].nonce =>
           ledger > nonceSeen[u].at + PolicyOf["Nonce"][1]]_vars

(***************************************************************************)
(* deposit "Adds amount to user's balance" (lib.rs:60): a deposit that     *)
(* takes effect makes the balance grow.  The code does not keep this.      *)
(***************************************************************************)
DepositsAdd ==
  [][\A u \in Users, a \in Amounts : Deposit(u, a) =>
       Unwrap(Balance(u))' > Unwrap(Balance(u))]_vars
=============================================================================
