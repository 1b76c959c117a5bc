----------------------------- MODULE Vault_proofs -----------------------------
(***************************************************************************)
(* Theorems about the example contract, for all users, amounts, nonces,    *)
(* TTL policies and network TTLs.                                          *)
(***************************************************************************)
EXTENDS Vault, StorageOps_proofs

\* The keys the contract declares, and what storage! knows of them.
LEMMA KeyFacts ==
  ASSUME NEW u \in Users
  PROVE  /\ Balance(u) \in Keys /\ Nonce(u) \in Keys /\ GrantOf(u) \in Keys
         /\ Admin \in Keys
         /\ Lifecycle[Balance(u)] = "persistent"
         /\ Lifecycle[GrantOf(u)] = "persistent"
         /\ Lifecycle[Nonce(u)] = "temporary"
         /\ Lifecycle[Admin] = "instance"
<1>1. /\ Balance(u) \in VaultKeys /\ Nonce(u) \in VaultKeys
      /\ GrantOf(u) \in VaultKeys /\ Admin \in VaultKeys
  BY DEF VaultKeys
<1>2. /\ Balance(u)[1] = "Balance" /\ Nonce(u)[1] = "Nonce"
      /\ GrantOf(u)[1] = "Grant" /\ Admin[1] = "Admin"
  BY DEF Balance, Nonce, GrantOf, Admin
<1> QED
  BY <1>1, <1>2, DeclarationsAssumption DEF VaultLifecycle

\* No two of them are the same.
LEMMA KeysDiffer ==
  ASSUME NEW u \in Users, NEW v \in Users
  PROVE  /\ Balance(u) # Nonce(v) /\ Balance(u) # GrantOf(v)
         /\ Nonce(u) # GrantOf(v)
         /\ Balance(u) # Admin /\ Nonce(u) # Admin /\ GrantOf(u) # Admin
         /\ Balance(u) = Balance(v) => u = v
         /\ Nonce(u) = Nonce(v) => u = v
         /\ GrantOf(u) = GrantOf(v) => u = v
<1>1. /\ Balance(u)[1] = "Balance" /\ Balance(v)[1] = "Balance"
      /\ Nonce(u)[1] = "Nonce" /\ Nonce(v)[1] = "Nonce"
      /\ GrantOf(u)[1] = "Grant" /\ GrantOf(v)[1] = "Grant"
      /\ Admin[1] = "Admin"
  BY DEF Balance, Nonce, GrantOf, Admin
<1>2. /\ Balance(u) = Balance(v) => u = v
      /\ Nonce(u) = Nonce(v) => u = v
      /\ GrantOf(u) = GrantOf(v) => u = v
  BY DEF Balance, Nonce, GrantOf
<1> QED
  BY <1>1, <1>2

\* Every key is the admin's or one of a user's three.
LEMMA KeyIs ==
  ASSUME NEW k \in Keys
  PROVE  k = Admin \/ \E u \in Users : k \in {Balance(u), Nonce(u), GrantOf(u)}
BY DeclarationsAssumption DEF VaultKeys

\* i128 arithmetic stays within i128, and is exact where the result fits.
LEMMA WrappedFacts ==
  ASSUME NEW x \in Int
  PROVE  /\ Wrapped(x) \in I128 /\ Wrapped(x) \in Values
         /\ x \in I128 => Wrapped(x) = x
<1> DEFINE n == 2 * (MaxI128 + 1)
           y == x + MaxI128 + 1
<1>1. MaxI128 \in Nat
  BY VaultAssumption
<1>2. n \in Nat \ {0} /\ y \in Int /\ (x \in I128 => y \in 0 .. n - 1)
  BY <1>1 DEF I128
<1>3. y % n \in 0 .. n - 1 /\ (y \in 0 .. n - 1 => y % n = y)
  <2> HIDE DEF n, y
  <2> QED
    BY <1>2
<1> QED
  BY <1>1, <1>2, <1>3, DeclarationsAssumption DEF Wrapped, I128, VaultValues

\* A balance or a grant is a number, 0 if there is none.
LEMMA UnwrapType ==
  ASSUME TypeOK, NEW k \in Keys \ {Admin}
  PROVE  Unwrap(k) \in I128 /\ Unwrap(k) \in Int
<1>1. store.value[k] \in I128 \cup {Absent} /\ 0 \in I128 /\ I128 \subseteq Int
  BY DeclarationsAssumption, VaultAssumption DEF TypeOK, I128
<1> QED
  BY <1>1 DEF Unwrap, Has

-----------------------------------------------------------------------------
(* What each method does *)

\* From store s to store t no value changes; slots outside S stay.
Reads(s, t, S) ==
  /\ t \in Stores
  /\ t.value = s.value
  /\ \A slot \in Slots \ S : t.live[slot] = s.live[slot]

\* From store s to store t key k gets the value v; slots outside S stay.
Writes(s, t, k, v, S) ==
  /\ t \in Stores
  /\ t.value = [s.value EXCEPT ![k] = v]
  /\ \A slot \in Slots \ S : t.live[slot] = s.live[slot]

\* get is a read, set and set_ttl are writes, and set bumps.
LEMMA OpsAre ==
  ASSUME NEW s \in Stores, NEW now \in Nat, NEW k \in Keys
  PROVE  /\ Reads(s, Get(s, now, k), {Slot(k)})
         /\ Writes(s, Remove(s, k), k, Absent, {})
         /\ \A v \in Values :
              /\ Writes(s, Set(s, now, k, v), k, v, {Slot(k)})
              /\ Bumped(Set(s, now, k, v), now, k)
         /\ \A v \in Values, ttl \in Nat :
              Writes(s, SetTtl(s, now, k, v, ttl), k, v, {Slot(k)})
<1>1. Reads(s, Get(s, now, k), {Slot(k)})
  <2> DEFINE t == Get(s, now, k)
  <2>1. ActsOn(s, t, k) /\ t.value = s.value
    BY GetFacts DEF PolicyExtends, OnlyExtends
  <2> HIDE DEF t
  <2>2. Reads(s, t, {Slot(k)})
    BY <2>1 DEF ActsOn, Reads
  <2> QED
    BY <2>2 DEF t
<1>2. Writes(s, Remove(s, k), k, Absent, {})
  <2> DEFINE t == Remove(s, k)
  <2>1. /\ ActsOn(s, t, k) /\ t.value = [s.value EXCEPT ![k] = Absent]
        /\ t.live = s.live
    BY RemoveFacts
  <2> HIDE DEF t
  <2>2. Writes(s, t, k, Absent, {})
    BY <2>1 DEF ActsOn, Writes
  <2> QED
    BY <2>2 DEF t
<1>3. ASSUME NEW v \in Values
      PROVE  /\ Writes(s, Set(s, now, k, v), k, v, {Slot(k)})
             /\ Bumped(Set(s, now, k, v), now, k)
  <2> DEFINE t == Set(s, now, k, v)
  <2>1. /\ ActsOn(s, t, k) /\ t.value = [s.value EXCEPT ![k] = v]
        /\ Bumped(t, now, k)
    BY SetFacts, DeclarationsAssumption
  <2> HIDE DEF t
  <2>2. Writes(s, t, k, v, {Slot(k)}) /\ Bumped(t, now, k)
    BY <2>1 DEF ActsOn, Writes
  <2> QED
    BY <2>2 DEF t
<1>4. ASSUME NEW v \in Values, NEW ttl \in Nat
      PROVE  Writes(s, SetTtl(s, now, k, v, ttl), k, v, {Slot(k)})
  <2> DEFINE t == SetTtl(s, now, k, v, ttl)
  <2>1. ActsOn(s, t, k) /\ t.value = [s.value EXCEPT ![k] = v]
    BY SetTtlFacts
  <2> HIDE DEF t
  <2>2. Writes(s, t, k, v, {Slot(k)})
    BY <2>1 DEF ActsOn, Writes
  <2> QED
    BY <2>2 DEF t
<1> QED
  BY <1>1, <1>2, <1>3, <1>4

\* A read and then a write of it is a write.
LEMMA ReadThenWrite ==
  ASSUME NEW s, NEW t, NEW u, NEW k, NEW v, NEW S, NEW T,
         Reads(s, t, S), Writes(t, u, k, v, T)
  PROVE  Writes(s, u, k, v, S \cup T)
BY DEF Reads, Writes

\* What every method starts from.
LEMMA StartFacts ==
  ASSUME TypeOK, NEW u \in Users
  PROVE  /\ store \in Stores /\ ledger \in Nat
         /\ Balance(u) \in Keys \ {Admin} /\ Slot(Balance(u)) = Balance(u)
         /\ GrantOf(u) \in Keys \ {Admin} /\ Slot(GrantOf(u)) = GrantOf(u)
         /\ Nonce(u) \in Keys \ {Admin} /\ Slot(Nonce(u)) = Nonce(u)
         /\ Admin \in Keys /\ Slot(Admin) = Instance
         /\ Amounts \subseteq Int /\ Amounts \subseteq Values /\ GrantTtl \in Nat
         /\ I128 \subseteq Values
<1>1. store \in Stores /\ ledger \in Nat
  BY DEF TypeOK
<1>2. /\ Amounts \subseteq Int /\ Amounts \subseteq Values /\ GrantTtl \in Nat
      /\ I128 \subseteq Values
  BY VaultAssumption, DeclarationsAssumption DEF I128, VaultValues
<1> QED
  BY <1>1, <1>2, KeyFacts, KeysDiffer, SlotFacts

\* update with the closure of deposit adds to what was there.
LEMMA UpdateAdds ==
  ASSUME NEW s, NEW now, NEW k, NEW a \in Int, NEW n \in Int,
         \/ s.value[k] = Absent /\ n = 0
         \/ s.value[k] \in I128 /\ n = s.value[k]
  PROVE  Update(s, now, k, Plus(a)) = Set(s, now, k, Wrapped(n + a))
<1>1. Absent \notin I128
  BY NamesAssumption, DeclarationsAssumption DEF VaultValues
<1>2. Plus(a)[s.value[k]] = Wrapped(n + a)
  BY <1>1 DEF Plus
<1> QED
  BY <1>2, UpdateIsSet

\* The value of a key and what Unwrap makes of it.
LEMMA UnwrapIs ==
  ASSUME TypeOK, NEW k \in Keys \ {Admin}
  PROVE  \/ store.value[k] = Absent /\ Unwrap(k) = 0
         \/ store.value[k] \in I128 /\ Unwrap(k) = store.value[k]
BY DeclarationsAssumption DEF TypeOK, Unwrap, Has

\* deposit adds the amount to the balance, in i128.
LEMMA DepositEffect ==
  ASSUME TypeOK, NEW u \in Users, NEW a \in Amounts, Deposit(u, a)
  PROVE  LET v == Wrapped(Unwrap(Balance(u)) + a) IN
         Writes(store, store', Balance(u), v, {Balance(u)}) /\ v \in I128
<1> DEFINE v == Wrapped(Unwrap(Balance(u)) + a)
<1> USE StartFacts
<1>1. Unwrap(Balance(u)) \in Int /\ a \in Int
  BY UnwrapType
<1>2. v \in I128 /\ v \in Values
  BY <1>1, WrappedFacts
<1>3. store' = Set(store, ledger, Balance(u), v)
  BY <1>1, UnwrapIs, UpdateAdds DEF Deposit
<1> HIDE DEF v
<1>4. Writes(store, store', Balance(u), v, {Balance(u)})
  BY <1>2, <1>3, OpsAre
<1> QED
  BY <1>2, <1>4 DEF v

\* withdraw takes it off a balance that covers it.
LEMMA WithdrawEffect ==
  ASSUME TypeOK, NEW u \in Users, NEW a \in Amounts, Withdraw(u, a)
  PROVE  LET v == Unwrap(Balance(u)) - a IN
         Writes(store, store', Balance(u), v, {Balance(u)}) /\ v \in I128
<1> DEFINE v == Unwrap(Balance(u)) - a
           t == Get(store, ledger, Balance(u))
<1> USE StartFacts
<1>1. v \in I128
  <2>1. /\ Unwrap(Balance(u)) \in I128 /\ a \in Int
        /\ a > 0 /\ a <= Unwrap(Balance(u))
    BY UnwrapType DEF Withdraw
  <2> QED
    BY <2>1, VaultAssumption DEF I128
<1>2. Reads(store, t, {Balance(u)}) /\ t \in Stores
  <2>1. Reads(store, t, {Balance(u)})
    BY OpsAre
  <2> QED
    BY <2>1 DEF Reads
<1>3. store' = Set(t, ledger, Balance(u), v)
  BY DEF Withdraw
<1> HIDE DEF v, t
<1>4. Writes(t, store', Balance(u), v, {Balance(u)})
  BY <1>1, <1>2, <1>3, OpsAre
<1>5. Writes(store, store', Balance(u), v, {Balance(u)} \cup {Balance(u)})
  BY <1>2, <1>4, ReadThenWrite
<1> QED
  BY <1>1, <1>5 DEF v

\* grant writes the amount, over a grant that may be pending.
LEMMA GrantEffect ==
  ASSUME TypeOK, NEW u \in Users, NEW a \in Amounts, Grant(u, a)
  PROVE  Writes(store, store', GrantOf(u), a, {Instance, GrantOf(u)})
<1> DEFINE t == Get(store, ledger, Admin)
<1> USE StartFacts
<1>1. Reads(store, t, {Instance}) /\ t \in Stores
  <2>1. Reads(store, t, {Instance})
    BY OpsAre
  <2> QED
    BY <2>1 DEF Reads
<1>2. store' = SetTtl(t, ledger, GrantOf(u), a, GrantTtl)
  BY DEF Grant
<1> HIDE DEF t
<1>3. Writes(t, store', GrantOf(u), a, {GrantOf(u)})
  BY <1>1, <1>2, OpsAre
<1>4. Writes(store, store', GrantOf(u), a, {Instance} \cup {GrantOf(u)})
  BY <1>1, <1>3, ReadThenWrite
<1>5. {Instance} \cup {GrantOf(u)} = {Instance, GrantOf(u)}
  OBVIOUS
<1> QED
  BY <1>4, <1>5

\* claim removes the grant and adds its amount to the balance, in i128.
LEMMA ClaimEffect ==
  ASSUME TypeOK, NEW u \in Users, Claim(u)
  PROVE  LET v == Wrapped(Unwrap(Balance(u)) + Unwrap(GrantOf(u))) IN
         /\ store' \in Stores /\ v \in I128
         /\ store'.value = [[store.value EXCEPT ![GrantOf(u)] = Absent]
                              EXCEPT ![Balance(u)] = v]
         /\ \A slot \in Slots \ {Balance(u), GrantOf(u)} :
              store'.live[slot] = store.live[slot]
<1> DEFINE g == Unwrap(GrantOf(u))
           n == Unwrap(Balance(u))
           v == Wrapped(n + g)
           t == Get(store, ledger, GrantOf(u))
           r == Remove(t, GrantOf(u))
<1> USE StartFacts
<1>1. g \in Int /\ n \in Int
  BY UnwrapType
<1>2. v \in I128 /\ v \in Values
  <2> HIDE DEF g, n
  <2> QED
    BY <1>1, WrappedFacts
<1>3. Reads(store, t, {GrantOf(u)}) /\ t \in Stores
  <2>1. Reads(store, t, {GrantOf(u)})
    BY OpsAre
  <2> QED
    BY <2>1 DEF Reads
<1>4. Writes(t, r, GrantOf(u), Absent, {}) /\ r \in Stores
  <2> HIDE DEF t
  <2> QED
    BY <1>3, OpsAre DEF Writes
<1>5. store' = Update(r, ledger, Balance(u), Plus(g))
  BY DEF Claim
<1>6. \/ store.value[Balance(u)] = Absent /\ n = 0
      \/ store.value[Balance(u)] \in I128 /\ n = store.value[Balance(u)]
  BY UnwrapIs
<1> HIDE DEF g, n, t, r
<1>7. r.value[Balance(u)] = store.value[Balance(u)]
  <2>1. Balance(u) # GrantOf(u)
    BY KeysDiffer
  <2>2. r.value = [store.value EXCEPT ![GrantOf(u)] = Absent]
    BY <1>3, <1>4 DEF Reads, Writes
  <2>3. store.value \in [Keys -> Values \cup {Absent}]
    BY StoreIs
  <2> QED
    BY <2>1, <2>2, <2>3
<1>8. store' = Set(r, ledger, Balance(u), v)
  BY <1>1, <1>5, <1>6, <1>7, UpdateAdds
<1>9. Writes(r, store', Balance(u), v, {Balance(u)})
  <2> HIDE DEF v
  <2> QED
    BY <1>2, <1>4, <1>8, OpsAre
<1>10. /\ store' \in Stores
       /\ store'.value = [[store.value EXCEPT ![GrantOf(u)] = Absent]
                            EXCEPT ![Balance(u)] = v]
       /\ \A slot \in Slots \ {Balance(u), GrantOf(u)} :
            store'.live[slot] = store.live[slot]
  <2> HIDE DEF v
  <2> QED
    BY <1>3, <1>4, <1>9 DEF Reads, Writes
<1> QED
  BY <1>2, <1>10 DEF v, n, g

\* consume_nonce records the nonce and bumps its entry.
LEMMA ConsumeEffect ==
  ASSUME TypeOK, NEW u \in Users, NEW n \in Nonces, ConsumeNonce(u, n)
  PROVE  /\ Writes(store, store', Nonce(u), n, {Nonce(u)}) /\ n \in I128
         /\ Bumped(store', ledger, Nonce(u))
<1> DEFINE t == Get(store, ledger, Nonce(u))
<1> USE StartFacts
<1>1. n \in I128 /\ n \in Values
  BY VaultAssumption DEF I128
<1>2. Reads(store, t, {Nonce(u)}) /\ t \in Stores
  <2>1. Reads(store, t, {Nonce(u)})
    BY OpsAre
  <2> QED
    BY <2>1 DEF Reads
<1>3. store' = Set(t, ledger, Nonce(u), n)
  BY DEF ConsumeNonce
<1> HIDE DEF t
<1>4. Writes(t, store', Nonce(u), n, {Nonce(u)}) /\ Bumped(store', ledger, Nonce(u))
  BY <1>1, <1>2, <1>3, OpsAre
<1>5. Writes(store, store', Nonce(u), n, {Nonce(u)} \cup {Nonce(u)})
  BY <1>2, <1>4, ReadThenWrite
<1> QED
  BY <1>1, <1>4, <1>5

\* balance and admin only read.
LEMMA ReadEffect ==
  ASSUME TypeOK, NEW k \in Keys, Read(k)
  PROVE  Reads(store, store', {Slot(k)})
BY OpsAre DEF Read, TypeOK

\* A closing ledger deletes nonces past their TTL and changes nothing else.
LEMMA CloseEffect ==
  ASSUME TypeOK, CloseLedger
  PROVE  /\ store' \in Stores /\ store'.live = store.live
         /\ ledger' = ledger + 1 /\ ledger' \in 1 .. MaxLedger
         /\ \A k \in Keys :
              store'.value[k] = IF Lifecycle[k] = "temporary"
                                   /\ store.live[k] < ledger'
                                  THEN Absent ELSE store.value[k]
<1>1. /\ ledger' = ledger + 1 /\ ledger' \in 1 .. MaxLedger /\ ledger' \in Nat
      /\ store \in Stores /\ store' = Expire(store, ledger')
  BY VaultAssumption DEF CloseLedger, TypeOK
<1> QED
  BY <1>1, ExpireFacts

\* A restoration changes no value, and no TTL of a nonce.
LEMMA RestoreEffect ==
  ASSUME TypeOK, NEW k \in Keys, Restore(k)
  PROVE  /\ Reads(store, store', {Slot(k)})
         /\ Lifecycle[k] # "temporary"
<1> DEFINE slot == Slot(k)
           kind == Lifecycle[k]
<1>1. /\ store \in Stores /\ ledger \in Nat /\ kind \in Kinds
      /\ kind # "temporary" /\ slot \in Slots
      /\ store' = Restored(store, ledger, slot, kind)
  BY SlotFacts, DeclarationsAssumption DEF Restore, TypeOK
<1>2. \A j \in Keys : Lifecycle[j] = "instance" => slot # j
  BY SlotFacts
<1> HIDE DEF slot, kind
<1>3. /\ store' \in Stores /\ store'.value = store.value
      /\ store'.live = [store.live EXCEPT ![slot] = ledger + MinTtl[kind]]
  BY <1>1, <1>2, RestoredFacts
<1>4. store.live \in [Slots -> Nat]
  BY <1>1, StoreIs
<1>5. Reads(store, store', {slot})
  BY <1>1, <1>3, <1>4 DEF Reads
<1> QED
  BY <1>1, <1>5 DEF slot, kind

\* The values after a write.
LEMMA WrittenValues ==
  ASSUME NEW s \in Stores, NEW t, NEW k \in Keys, NEW v, NEW S,
         Writes(s, t, k, v, S)
  PROVE  \A j \in Keys : t.value[j] = IF j = k THEN v ELSE s.value[j]
<1>1. s.value \in [Keys -> Values \cup {Absent}]
  BY StoreIs
<1> QED
  BY <1>1 DEF Writes

\* The values after a claim.
LEMMA ClaimedValues ==
  ASSUME TypeOK, NEW u \in Users, Claim(u), NEW j \in Keys
  PROVE  store'.value[j] =
           IF j = Balance(u)
             THEN Wrapped(Unwrap(Balance(u)) + Unwrap(GrantOf(u)))
             ELSE IF j = GrantOf(u) THEN Absent ELSE store.value[j]
<1>1. store.value \in [Keys -> Values \cup {Absent}]
  BY StoreIs DEF TypeOK
<1>2. store'.value = [[store.value EXCEPT ![GrantOf(u)] = Absent]
                        EXCEPT ![Balance(u)] =
                          Wrapped(Unwrap(Balance(u)) + Unwrap(GrantOf(u)))]
  BY ClaimEffect
<1> QED
  BY <1>1, <1>2

\* Unwrap depends on the value of its key alone.
LEMMA UnwrapAfter ==
  ASSUME NEW k \in Keys
  PROVE  /\ store'.value[k] = store.value[k] => Unwrap(k)' = Unwrap(k)
         /\ \A v \in I128 : store'.value[k] = v => Unwrap(k)' = v
         /\ store'.value[k] = Absent => Unwrap(k)' = 0
<1>1. Absent \notin I128
  BY NamesAssumption, DeclarationsAssumption DEF VaultValues
<1> QED
  BY <1>1 DEF Unwrap, Has
-----------------------------------------------------------------------------
(* Type correctness *)

\* A step is a method's transaction, a closing ledger or a restoration.
LEMMA StepIs ==
  ASSUME [Next]_vars
  PROVE  \/ \E u \in Users, a \in Amounts :
              Deposit(u, a) \/ Withdraw(u, a) \/ Grant(u, a)
         \/ \E u \in Users : Claim(u)
         \/ \E u \in Users, n \in Nonces : ConsumeNonce(u, n)
         \/ \E k \in Keys : Read(k) /\ Lifecycle[k] # "temporary"
         \/ CloseLedger
         \/ \E k \in Keys : Restore(k)
         \/ UNCHANGED vars
<1>1. ASSUME NEW u \in Users, Read(Balance(u))
      PROVE  \E k \in Keys : Read(k) /\ Lifecycle[k] # "temporary"
  BY <1>1, KeyFacts
<1>2. Admin \in Keys /\ VaultKeys = Keys /\ Lifecycle[Admin] # "temporary"
  BY DeclarationsAssumption DEF VaultKeys, VaultLifecycle, Admin
<1> QED
  BY <1>1, <1>2 DEF Next

\* Values that are numbers stay numbers.
LEMMA NumbersStay ==
  ASSUME TypeOK, [Next]_vars
  PROVE  /\ store' \in Stores
         /\ \A j \in Keys \ {Admin} : store'.value[j] \in I128 \cup {Absent}
<1>1. /\ store \in Stores
      /\ \A j \in Keys \ {Admin} : store.value[j] \in I128 \cup {Absent}
  BY DeclarationsAssumption DEF TypeOK
<1>2. ASSUME NEW k \in Keys, NEW v \in I128, NEW S, Writes(store, store', k, v, S)
      PROVE  /\ store' \in Stores
             /\ \A j \in Keys \ {Admin} : store'.value[j] \in I128 \cup {Absent}
  BY <1>1, <1>2, WrittenValues DEF Writes
<1>3. ASSUME NEW S, Reads(store, store', S)
      PROVE  /\ store' \in Stores
             /\ \A j \in Keys \ {Admin} : store'.value[j] \in I128 \cup {Absent}
  BY <1>1, <1>3 DEF Reads
<1>4. ASSUME NEW u \in Users, NEW a \in Amounts, Deposit(u, a)
      PROVE  \E k \in Keys, v \in I128 : Writes(store, store', k, v, {k})
  BY <1>4, StartFacts, DepositEffect
<1>5. ASSUME NEW u \in Users, NEW a \in Amounts, Withdraw(u, a)
      PROVE  \E k \in Keys, v \in I128 : Writes(store, store', k, v, {k})
  BY <1>5, StartFacts, WithdrawEffect
<1>6. ASSUME NEW u \in Users, NEW a \in Amounts, Grant(u, a)
      PROVE  \E k \in Keys, v \in I128 : Writes(store, store', k, v, {Instance, k})
  BY <1>6, StartFacts, GrantEffect, VaultAssumption
<1>7. ASSUME NEW u \in Users, Claim(u)
      PROVE  /\ store' \in Stores
             /\ \A j \in Keys \ {Admin} : store'.value[j] \in I128 \cup {Absent}
  BY <1>1, <1>7, ClaimEffect, ClaimedValues
<1>8. ASSUME NEW u \in Users, NEW n \in Nonces, ConsumeNonce(u, n)
      PROVE  \E k \in Keys, v \in I128 : Writes(store, store', k, v, {k})
  BY <1>8, StartFacts, ConsumeEffect
<1>9. ASSUME NEW k \in Keys, Read(k) \/ Restore(k)
      PROVE  Reads(store, store', {Slot(k)})
  BY <1>9, ReadEffect, RestoreEffect
<1>10. CASE CloseLedger
  BY <1>1, <1>10, CloseEffect
<1>11. CASE UNCHANGED vars
  BY <1>1, <1>11 DEF vars
<1> QED
  BY <1>2, <1>3, <1>4, <1>5, <1>6, <1>7, <1>8, <1>9, <1>10, <1>11, StepIs

\* Every step keeps the types.
LEMMA TypeStep ==
  ASSUME TypeOK, [Next]_vars
  PROVE  TypeOK'
<1>1. /\ store' \in Stores
      /\ \A j \in VaultKeys \ {Admin} : store'.value[j] \in I128 \cup {Absent}
  BY NumbersStay, DeclarationsAssumption
<1>2. ledger' \in 1 .. MaxLedger
  BY VaultAssumption DEF TypeOK, Next, vars, Deposit, Withdraw, Grant, Claim,
     ConsumeNonce, Read, CloseLedger, Restore, Invoke
<1>3. funding' \in 0 .. MaxFunding
  <2>1. Fund => funding' \in 0 .. MaxFunding
    BY VaultAssumption DEF Fund, TypeOK
  <2>2. funding' = funding => funding' \in 0 .. MaxFunding
    BY DEF TypeOK
  <2>3. Fund \/ funding' = funding
    BY DEF Next, vars, Deposit, Withdraw, Grant, Claim, ConsumeNonce, Read,
       CloseLedger, Restore
  <2> QED
    BY <2>1, <2>2, <2>3
<1>4. nonceSeen' \in [Users -> [nonce: Nat, at: Nat]]
  <2>1. ASSUME NEW u \in Users, NEW n \in Nonces, ConsumeNonce(u, n)
        PROVE  nonceSeen' \in [Users -> [nonce: Nat, at: Nat]]
    <3>1. n \in Nat /\ ledger \in Nat
      BY VaultAssumption DEF TypeOK
    <3> QED
      BY <2>1, <3>1 DEF ConsumeNonce, TypeOK
  <2> QED
    BY <2>1 DEF TypeOK, Next, vars, Deposit, Withdraw, Grant, Claim, Read,
       CloseLedger, Restore
<1> QED
  BY <1>1, <1>2, <1>3, <1>4 DEF TypeOK

\* The store of a contract just deployed.
LEMMA Deployed ==
  ASSUME Init
  PROVE  /\ store \in Stores
         /\ \A j \in Keys \ {Admin} : store.value[j] = Absent
<1> DEFINE s == [value |-> [k \in VaultKeys |-> Absent],
                 live  |-> [k \in VaultKeys \cup {Instance} |->
                              IF k = Instance THEN 1 + MinTtl["instance"]
                                              ELSE 0]]
<1>1. MinTtl["instance"] \in Nat /\ Keys = VaultKeys /\ Slots = VaultKeys \cup {Instance}
      /\ Instance \notin Keys /\ Admin \in Keys /\ AdminAddress \in Values
  BY OpsAssumption, NamesAssumption, DeclarationsAssumption
  DEF Kinds, Slots, VaultKeys, VaultValues
<1>2. /\ s.value = [k \in Keys |-> Absent]
      /\ s.live = [k \in Slots |-> IF k = Instance THEN 1 + MinTtl["instance"]
                                                   ELSE 0]
      /\ s = [value |-> s.value, live |-> s.live]
  BY <1>1
<1>3. store = Set(s, 1, Admin, AdminAddress)
  BY DEF Init
<1> HIDE DEF s
<1>4. s \in Stores
  <2>1. s.value \in [Keys -> Values \cup {Absent}]
    BY <1>2
  <2>2. s.live \in [Slots -> Nat]
    BY <1>1, <1>2
  <2>3. \A k \in Keys : s.live[k] = 0
    BY <1>1, <1>2
  <2> QED
    BY <1>2, <2>1, <2>2, <2>3, StoreIs
<1>5. Writes(s, store, Admin, AdminAddress, {Slot(Admin)})
  BY <1>1, <1>3, <1>4, OpsAre
<1> QED
  BY <1>1, <1>2, <1>4, <1>5, WrittenValues DEF Writes

(***************************************************************************)
(* Type correctness: whatever is deposited, granted, claimed and consumed, *)
(* and whatever expires or is restored, a balance and a grant are i128 and *)
(* never the admin's address, and every TTL is a ledger number.            *)
(***************************************************************************)
THEOREM TypeCorrect == Spec => []TypeOK
<1>1. Init => TypeOK
  <2> SUFFICES ASSUME Init PROVE TypeOK
    OBVIOUS
  <2>1. /\ store \in Stores
        /\ \A j \in VaultKeys \ {Admin} : store.value[j] \in I128 \cup {Absent}
    BY Deployed, DeclarationsAssumption
  <2>2. ledger \in 1 .. MaxLedger /\ funding \in 0 .. MaxFunding
    BY VaultAssumption DEF Init
  <2>3. nonceSeen \in [Users -> [nonce: Nat, at: Nat]]
    BY DEF Init
  <2> QED
    BY <2>1, <2>2, <2>3 DEF TypeOK
<1>2. TypeOK /\ [Next]_vars => TypeOK'
  BY TypeStep
<1> QED
  BY <1>1, <1>2, PTL DEF Spec
-----------------------------------------------------------------------------
(* Users' money *)

\* What a user has in the vault, and what waits to be claimed.
Bal(u) == Unwrap(Balance(u))
Pend(u) == Unwrap(GrantOf(u))

\* User u has b and p now, and nobody else's money changed.
Moved(u, b, p) ==
  /\ Bal(u)' = b /\ Pend(u)' = p
  /\ \A v \in Users \ {u} : Bal(v)' = Bal(v) /\ Pend(v)' = Pend(v)

\* Nobody's money changed.
Kept == \A v \in Users : Bal(v)' = Bal(v) /\ Pend(v)' = Pend(v)

\* A write of a user's balance moves it and nothing else.
LEMMA BalanceWritten ==
  ASSUME TypeOK, NEW u \in Users, NEW n \in I128, NEW S,
         Writes(store, store', Balance(u), n, S)
  PROVE  Moved(u, n, Pend(u))
<1>1. \A j \in Keys : store'.value[j] = IF j = Balance(u) THEN n
                                                          ELSE store.value[j]
  <2>1. store.value \in [Keys -> Values \cup {Absent}] /\ Balance(u) \in Keys
    BY StartFacts, StoreIs
  <2> QED
    BY <2>1 DEF Writes
<1>2. Bal(u)' = n
  BY <1>1, StartFacts, UnwrapAfter DEF Bal
<1>3. \A v \in Users : Pend(v)' = Pend(v)
  BY <1>1, StartFacts, KeysDiffer, UnwrapAfter DEF Pend
<1>4. \A v \in Users \ {u} : Bal(v)' = Bal(v)
  BY <1>1, StartFacts, KeysDiffer, UnwrapAfter DEF Bal
<1> QED
  BY <1>2, <1>3, <1>4 DEF Moved

\* So does a write of a user's grant.
LEMMA GrantWritten ==
  ASSUME TypeOK, NEW u \in Users, NEW n \in I128, NEW S,
         Writes(store, store', GrantOf(u), n, S)
  PROVE  Moved(u, Bal(u), n)
<1>1. \A j \in Keys : store'.value[j] = IF j = GrantOf(u) THEN n
                                                          ELSE store.value[j]
  <2>1. store.value \in [Keys -> Values \cup {Absent}] /\ GrantOf(u) \in Keys
    BY StartFacts, StoreIs
  <2> QED
    BY <2>1 DEF Writes
<1>2. Pend(u)' = n
  BY <1>1, StartFacts, UnwrapAfter DEF Pend
<1>3. \A v \in Users : Bal(v)' = Bal(v)
  BY <1>1, StartFacts, KeysDiffer, UnwrapAfter DEF Bal
<1>4. \A v \in Users \ {u} : Pend(v)' = Pend(v)
  BY <1>1, StartFacts, KeysDiffer, UnwrapAfter DEF Pend
<1> QED
  BY <1>2, <1>3, <1>4 DEF Moved

\* A claim moves the grant into the balance, in i128.
LEMMA ClaimMoves ==
  ASSUME TypeOK, NEW u \in Users, Claim(u)
  PROVE  Moved(u, Wrapped(Bal(u) + Pend(u)), 0)
<1>1. \A j \in Keys : store'.value[j] =
        IF j = Balance(u) THEN Wrapped(Bal(u) + Pend(u))
                          ELSE IF j = GrantOf(u) THEN Absent ELSE store.value[j]
  BY ClaimedValues DEF Bal, Pend
<1>2. Wrapped(Bal(u) + Pend(u)) \in I128
  BY StartFacts, UnwrapType, WrappedFacts DEF Bal, Pend
<1>3. Bal(u)' = Wrapped(Bal(u) + Pend(u))
  BY <1>1, <1>2, StartFacts, UnwrapAfter DEF Bal
<1>4. Pend(u)' = 0
  BY <1>1, StartFacts, KeysDiffer, UnwrapAfter DEF Pend
<1>5. \A v \in Users \ {u} : Bal(v)' = Bal(v)
  BY <1>1, StartFacts, KeysDiffer, UnwrapAfter DEF Bal
<1>6. \A v \in Users \ {u} : Pend(v)' = Pend(v)
  BY <1>1, StartFacts, KeysDiffer, UnwrapAfter DEF Pend
<1> QED
  BY <1>3, <1>4, <1>5, <1>6 DEF Moved

\* A nonce consumed, a read, a closing ledger, a restoration: no money moves.
LEMMA OthersKeep ==
  ASSUME TypeOK,
         \/ \E u \in Users, n \in Nonces : ConsumeNonce(u, n)
         \/ \E k \in Keys : Read(k) \/ Restore(k)
         \/ CloseLedger
         \/ UNCHANGED vars
  PROVE  Kept /\ funding' = funding
<1>1. ASSUME \A u \in Users : /\ store'.value[Balance(u)] = store.value[Balance(u)]
                              /\ store'.value[GrantOf(u)] = store.value[GrantOf(u)]
      PROVE  Kept
  BY <1>1, StartFacts, UnwrapAfter DEF Kept, Bal, Pend
<1>2. ASSUME NEW u \in Users, NEW n \in Nonces, ConsumeNonce(u, n)
      PROVE  Kept
  <2>1. \A j \in Keys : store'.value[j] = IF j = Nonce(u) THEN n ELSE store.value[j]
    <3>1. /\ store.value \in [Keys -> Values \cup {Absent}] /\ Nonce(u) \in Keys
          /\ Writes(store, store', Nonce(u), n, {Nonce(u)})
      BY <1>2, StartFacts, StoreIs, ConsumeEffect
    <3> QED
      BY <3>1 DEF Writes
  <2> QED
    BY <1>1, <2>1, StartFacts, KeysDiffer
<1>3. ASSUME NEW k \in Keys, Read(k) \/ Restore(k)
      PROVE  Kept
  BY <1>1, <1>3, ReadEffect, RestoreEffect DEF Reads
<1>4. ASSUME CloseLedger PROVE Kept
  <2>1. ASSUME NEW k \in Keys, Lifecycle[k] = "persistent"
        PROVE  store'.value[k] = store.value[k]
    BY <1>4, <2>1, CloseEffect
  <2>2. \A u \in Users : /\ store'.value[Balance(u)] = store.value[Balance(u)]
                          /\ store'.value[GrantOf(u)] = store.value[GrantOf(u)]
    BY <2>1, KeyFacts
  <2> QED
    BY <1>1, <2>2
<1>5. ASSUME UNCHANGED vars PROVE Kept
  BY <1>1, <1>5 DEF vars
<1>6. funding' = funding
  BY DEF ConsumeNonce, Read, Restore, CloseLedger, vars
<1> QED
  BY <1>2, <1>3, <1>4, <1>5, <1>6

\* A step is a deposit, a grant, a withdrawal, a claim, or moves no money.
LEMMA MoneyMoves ==
  ASSUME TypeOK, [Next]_vars
  PROVE  \/ \E u \in Users, a \in Amounts :
              \/ a > 0 /\ Deposit(u, a) /\ Fund /\ Moved(u, Wrapped(Bal(u) + a), Pend(u))
              \/ a > 0 /\ Fund /\ Moved(u, Bal(u), a)
              \/ a > 0 /\ a <= Bal(u) /\ funding' = funding
                 /\ Moved(u, Bal(u) - a, Pend(u))
         \/ \E u \in Users : Claim(u) /\ Pend(u) # 0 /\ funding' = funding
                             /\ Moved(u, Wrapped(Bal(u) + Pend(u)), 0)
         \/ Kept /\ funding' = funding
<1>1. ASSUME NEW u \in Users, NEW a \in Amounts, Deposit(u, a)
      PROVE  a > 0 /\ Fund /\ Moved(u, Wrapped(Bal(u) + a), Pend(u))
  <2>1. a > 0 /\ Fund
    BY <1>1 DEF Deposit
  <2> QED
    BY <1>1, <2>1, DepositEffect, BalanceWritten DEF Bal
<1>2. ASSUME NEW u \in Users, NEW a \in Amounts, Grant(u, a)
      PROVE  a > 0 /\ Fund /\ Moved(u, Bal(u), a)
  <2>1. a > 0 /\ Fund /\ a \in I128
    BY <1>2, VaultAssumption DEF Grant
  <2> QED
    BY <1>2, <2>1, GrantEffect, GrantWritten
<1>3. ASSUME NEW u \in Users, NEW a \in Amounts, Withdraw(u, a)
      PROVE  a > 0 /\ a <= Bal(u) /\ funding' = funding
             /\ Moved(u, Bal(u) - a, Pend(u))
  <2>1. a > 0 /\ a <= Bal(u) /\ funding' = funding
    BY <1>3 DEF Withdraw, Bal
  <2> QED
    BY <1>3, <2>1, WithdrawEffect, BalanceWritten DEF Bal
<1>4. ASSUME NEW u \in Users, Claim(u)
      PROVE  Pend(u) # 0 /\ funding' = funding
             /\ Moved(u, Wrapped(Bal(u) + Pend(u)), 0)
  <2>1. Pend(u) # 0 /\ funding' = funding
    BY <1>4 DEF Claim, Pend
  <2> QED
    BY <1>4, <2>1, ClaimMoves
<1> QED
  BY <1>1, <1>2, <1>3, <1>4, OthersKeep, StepIs

(***************************************************************************)
(* No addition of deposit or claim passes i128::MAX.  Where one does, a    *)
(* release build wraps and the promise is broken (DepositsAdd).            *)
(***************************************************************************)
NoOverflow ==
  \A u \in Users :
    /\ \A a \in Amounts : Deposit(u, a) => Bal(u) + a <= MaxI128
    /\ Claim(u) => Bal(u) + Pend(u) <= MaxI128

\* The inductive invariant: no balance and no grant is negative.
NotInDebt == \A u \in Users : Bal(u) \in Nat /\ Pend(u) \in Nat

\* What money is.
LEMMA MoneyType ==
  ASSUME TypeOK, NotInDebt, NEW u \in Users
  PROVE  /\ Bal(u) \in 0 .. MaxI128 /\ Pend(u) \in 0 .. MaxI128
         /\ MaxI128 \in Nat /\ Amounts \subseteq Int
<1>1. Bal(u) \in I128 /\ Pend(u) \in I128
  BY StartFacts, UnwrapType DEF Bal, Pend
<1> QED
  BY <1>1, VaultAssumption, StartFacts DEF NotInDebt, I128

\* Addition without overflow is addition.
LEMMA AddIsExact ==
  ASSUME NEW x \in 0 .. MaxI128
  PROVE  Wrapped(x) = x
<1>1. x \in Int /\ x \in I128
  BY VaultAssumption DEF I128
<1> QED
  BY <1>1, WrappedFacts

(***************************************************************************)
(* What a step is to the users as long as nothing overflows: a deposit, a  *)
(* grant, a withdrawal or a claim of one of them, and of the amounts it    *)
(* says.                                                                   *)
(***************************************************************************)
MoneyStep ==
  \/ \E u \in Users, a \in Amounts :
       \/ a > 0 /\ Fund /\ Moved(u, Bal(u) + a, Pend(u))
       \/ a > 0 /\ Fund /\ Moved(u, Bal(u), a)
       \/ a > 0 /\ a <= Bal(u) /\ funding' = funding /\ Moved(u, Bal(u) - a, Pend(u))
  \/ \E u \in Users : /\ Pend(u) # 0 /\ funding' = funding
                      /\ Moved(u, Bal(u) + Pend(u), 0)
  \/ Kept /\ funding' = funding

\* Every step is one.
LEMMA StepMovesMoney ==
  ASSUME TypeOK, NotInDebt, NoOverflow, [Next]_vars
  PROVE  MoneyStep
<1>1. ASSUME NEW u \in Users, NEW a \in Amounts, a > 0, Deposit(u, a)
      PROVE  Wrapped(Bal(u) + a) = Bal(u) + a
  <2>1. Bal(u) + a \in 0 .. MaxI128
    BY <1>1, MoneyType DEF NoOverflow
  <2> QED
    BY <2>1, AddIsExact
<1>2. ASSUME NEW u \in Users, Claim(u)
      PROVE  Wrapped(Bal(u) + Pend(u)) = Bal(u) + Pend(u)
  <2>1. Bal(u) + Pend(u) \in 0 .. MaxI128
    BY <1>2, MoneyType DEF NoOverflow
  <2> QED
    BY <2>1, AddIsExact
<1> QED
  BY <1>1, <1>2, MoneyMoves DEF MoneyStep

\* And leaves nobody in debt.
LEMMA DebtStep ==
  ASSUME TypeOK, NotInDebt, MoneyStep
  PROVE  NotInDebt'
<1>1. ASSUME NEW u \in Users, NEW b \in Nat, NEW p \in Nat, Moved(u, b, p)
      PROVE  NotInDebt'
  BY <1>1 DEF Moved, NotInDebt
<1>2. \A u \in Users : Bal(u) \in Nat /\ Pend(u) \in Nat
  BY DEF NotInDebt
<1>3. Amounts \subseteq Int
  BY VaultAssumption DEF I128
<1>4. ASSUME NEW u \in Users, NEW a \in Amounts, a > 0
      PROVE  Bal(u) + a \in Nat /\ a \in Nat /\ (a <= Bal(u) => Bal(u) - a \in Nat)
  BY <1>2, <1>3, <1>4
<1>5. CASE Kept
  BY <1>5 DEF Kept, NotInDebt
<1>6. \A u \in Users : Bal(u) + Pend(u) \in Nat
  BY <1>2
<1> QED
  BY <1>1, <1>2, <1>4, <1>5, <1>6 DEF MoneyStep

\* The balances and the grants of all users, as VaultPromise has them.
balances == [u \in Users |-> Bal(u)]
grants == [u \in Users |-> Pend(u)]

\* In terms of the two functions.
LEMMA MovedMeans ==
  ASSUME NEW u \in Users, NEW b, NEW p, Moved(u, b, p)
  PROVE  /\ balances' = [balances EXCEPT ![u] = b]
         /\ grants' = [grants EXCEPT ![u] = p]
         /\ balances'[u] = b /\ grants'[u] = p
         /\ balances[u] = Bal(u) /\ grants[u] = Pend(u)
         /\ (b = Bal(u) => balances' = balances)
         /\ (p = Pend(u) => grants' = grants)
BY DEF Moved, balances, grants

\* Every such step is one of VaultPromise.
LEMMA PromiseStep ==
  ASSUME TypeOK, NotInDebt, MoneyStep
  PROVE  [Promise!Next]_<<balances, grants>>
<1>1. \A u \in Users : Bal(u) \in Nat /\ Pend(u) \in Nat
  BY DEF NotInDebt
<1>2. Amounts \subseteq Int
  BY VaultAssumption DEF I128
<1>3. ASSUME NEW u \in Users, NEW a \in Amounts, a > 0, Moved(u, Bal(u) + a, Pend(u))
      PROVE  Promise!Deposit(u)
  <2>1. /\ balances' = [balances EXCEPT ![u] = Bal(u) + a] /\ grants' = grants
        /\ balances'[u] = Bal(u) + a /\ balances[u] = Bal(u)
    BY <1>3, MovedMeans
  <2>2. Bal(u) + a \in Nat /\ Bal(u) + a > Bal(u)
    BY <1>1, <1>2, <1>3
  <2> QED
    BY <2>1, <2>2 DEF Promise!Deposit, Promise!Becomes, balances, grants, Bal, Pend
<1>4. ASSUME NEW u \in Users, NEW a \in Amounts, a > 0, Moved(u, Bal(u), a)
      PROVE  Promise!Grant(u)
  <2>1. /\ grants' = [grants EXCEPT ![u] = a] /\ balances' = balances
        /\ grants'[u] = a /\ a \in Nat \ {0}
    BY <1>2, <1>4, MovedMeans
  <2> QED
    BY <2>1 DEF Promise!Grant, Promise!Becomes, balances, grants, Bal, Pend
<1>5. ASSUME NEW u \in Users, NEW a \in Amounts, a > 0, a <= Bal(u),
             Moved(u, Bal(u) - a, Pend(u))
      PROVE  Promise!Withdraw(u)
  <2>1. /\ balances' = [balances EXCEPT ![u] = Bal(u) - a] /\ grants' = grants
        /\ balances'[u] = Bal(u) - a /\ balances[u] = Bal(u)
    BY <1>5, MovedMeans
  <2>2. Bal(u) - a \in 0 .. Bal(u) - 1
    BY <1>1, <1>2, <1>5
  <2> QED
    BY <2>1, <2>2 DEF Promise!Withdraw, Promise!Becomes, balances, grants, Bal, Pend
<1>6. ASSUME NEW u \in Users, Pend(u) # 0, Moved(u, Bal(u) + Pend(u), 0)
      PROVE  Promise!Claim(u)
  <2>1. /\ balances' = [balances EXCEPT ![u] = Bal(u) + Pend(u)]
        /\ grants' = [grants EXCEPT ![u] = 0]
        /\ balances[u] = Bal(u) /\ grants[u] = Pend(u)
    BY <1>6, MovedMeans
  <2>2. Pend(u) > 0
    BY <1>1, <1>6
  <2>3. balances' = [balances EXCEPT ![u] = @ + grants[u]]
    BY <2>1
  <2> QED
    BY <2>1, <2>2, <2>3 DEF Promise!Claim, balances, grants, Bal, Pend
<1>7. CASE Kept
  <2>1. balances' = balances /\ grants' = grants
    BY <1>7 DEF Kept, balances, grants
  <2> QED
    BY <2>1
<1> QED
  BY <1>3, <1>4, <1>5, <1>6, <1>7 DEF MoneyStep, Promise!Next

\* The promise starts with nothing.
LEMMA PromiseInit ==
  ASSUME Init
  PROVE  Promise!Init /\ NotInDebt /\ \A u \in Users : Bal(u) = 0 /\ Pend(u) = 0
<1>1. \A u \in Users : Bal(u) = 0 /\ Pend(u) = 0
  <2> SUFFICES ASSUME NEW u \in Users PROVE Bal(u) = 0 /\ Pend(u) = 0
    OBVIOUS
  <2>1. Balance(u) \in Keys \ {Admin} /\ GrantOf(u) \in Keys \ {Admin}
    BY KeyFacts, KeysDiffer
  <2> QED
    BY <2>1, Deployed DEF Bal, Pend, Unwrap, Has
<1>2. Promise!Init
  BY <1>1 DEF Promise!Init, Bal, Pend
<1> QED
  BY <1>1, <1>2 DEF NotInDebt

(***************************************************************************)
(* As long as no addition overflows an i128, the vault keeps the promise   *)
(* of VaultPromise, for all users, amounts and policies, and whatever is   *)
(* archived, expires or is restored in between (lib.rs).                   *)
(***************************************************************************)
THEOREM PromiseUnlessOverflow == Spec /\ [][NoOverflow]_vars => KeepsPromise
<1>1. Init => Promise!Init /\ NotInDebt
  BY PromiseInit
<1>2. TypeOK /\ NotInDebt /\ [Next]_vars /\ [NoOverflow]_vars =>
        NotInDebt' /\ [Promise!Next]_<<balances, grants>>
  <2> SUFFICES ASSUME TypeOK, NotInDebt, [Next]_vars, [NoOverflow]_vars
               PROVE  NotInDebt' /\ [Promise!Next]_<<balances, grants>>
    OBVIOUS
  <2>1. CASE NoOverflow
    BY <2>1, StepMovesMoney, DebtStep, PromiseStep
  <2>2. CASE UNCHANGED vars
    <3>1. Kept /\ funding' = funding
      BY <2>2, OthersKeep
    <3>2. MoneyStep
      BY <3>1 DEF MoneyStep
    <3> QED
      BY <3>2, DebtStep, PromiseStep
  <2> QED
    BY <2>1, <2>2
<1>3. [Promise!Next]_<<balances, grants>> =>
        [Promise!Next]_<<[u \in Users |-> Unwrap(Balance(u))],
                         [u \in Users |-> Unwrap(GrantOf(u))]>>
  BY DEF balances, grants, Bal, Pend
<1> QED
  BY <1>1, <1>2, <1>3, TypeCorrect, PTL DEF Spec, KeepsPromise, Promise!Spec

(***************************************************************************)
(* What the users have and may claim is at most what was put in: with      *)
(* amounts up to most, no more than the deposits and grants times most.    *)
(***************************************************************************)
WithinFunds(most) == \A u \in Users : Bal(u) + Pend(u) <= funding * most

\* Products with the same factor compare as the others do.
LEMMA MostMonotone ==
  ASSUME NEW m \in Nat, NEW n \in Nat, NEW most \in Nat, m <= n
  PROVE  m * most <= n * most
<1>1. n * most = m * most + (n - m) * most
  OBVIOUS
<1>2. (n - m) * most \in Nat /\ m * most \in Nat
  <2>1. n - m \in Nat
    OBVIOUS
  <2> QED
    BY <2>1
<1> QED
  BY <1>1, <1>2

\* Where that fits into an i128 nothing overflows, and every step keeps it.
LEMMA FundsStep ==
  ASSUME NEW most \in Nat, \A a \in Amounts : a <= most,
         MaxFunding * most <= MaxI128,
         TypeOK, NotInDebt, WithinFunds(most), [Next]_vars
  PROVE  NoOverflow /\ (MoneyStep => WithinFunds(most)')
<1>1. /\ funding \in Nat /\ MaxFunding \in Nat /\ funding <= MaxFunding
      /\ Amounts \subseteq Int
      /\ \A u \in Users : Bal(u) \in Nat /\ Pend(u) \in Nat
  BY VaultAssumption DEF TypeOK, NotInDebt, I128
<1>2. /\ (funding + 1) * most = funding * most + most
      /\ funding * most \in Nat
  BY <1>1
<1>3. funding * most <= MaxFunding * most
  BY <1>1, MostMonotone
<1>4. funding < MaxFunding => (funding + 1) * most <= MaxFunding * most
  BY <1>1, MostMonotone
<1> DEFINE put == funding * most
           cap == MaxFunding * most
<1>5. put \in Nat /\ cap \in Nat /\ put <= cap /\ cap <= MaxI128 /\ MaxI128 \in Nat
  BY <1>1, <1>2, <1>3, VaultAssumption
<1>6. funding < MaxFunding => put + most <= cap
  BY <1>2, <1>4
<1>7. \A u \in Users : Bal(u) + Pend(u) <= put
  BY DEF WithinFunds
<1>8. Fund => funding < MaxFunding /\ funding' * most = put + most
  BY <1>2 DEF Fund
<1> HIDE DEF put, cap
<1>9. NoOverflow
  <2>1. ASSUME NEW u \in Users, NEW a \in Amounts, Deposit(u, a)
        PROVE  Bal(u) + a <= MaxI128
    <3>1. funding < MaxFunding
      BY <2>1 DEF Deposit, Fund
    <3> QED
      BY <1>1, <1>5, <1>6, <1>7, <3>1
  <2>2. ASSUME NEW u \in Users PROVE Bal(u) + Pend(u) <= MaxI128
    BY <1>1, <1>5, <1>7
  <2> QED
    BY <2>1, <2>2 DEF NoOverflow
<1>10. ASSUME MoneyStep PROVE WithinFunds(most)'
  <2>1. ASSUME NEW u \in Users, NEW b \in Nat, NEW p \in Nat, Moved(u, b, p),
               NEW n \in Nat, n >= put, b + p <= n
        PROVE  \A v \in Users : Bal(v)' + Pend(v)' <= n
    <3>1. CASE n = put
      BY <1>1, <1>5, <1>7, <2>1 DEF Moved
    <3> QED
      BY <1>1, <1>5, <1>7, <2>1 DEF Moved
  <2>2. ASSUME NEW u \in Users, NEW a \in Amounts, a > 0, Fund,
               Moved(u, Bal(u) + a, Pend(u)) \/ Moved(u, Bal(u), a)
        PROVE  WithinFunds(most)'
    <3>1. /\ Bal(u) \in Nat /\ Pend(u) \in Nat /\ a \in Nat /\ a <= most
          /\ Bal(u) + Pend(u) <= put
      BY <1>1, <1>7, <2>2
    <3>2. /\ Bal(u) + a \in Nat /\ put + most \in Nat /\ put + most >= put
          /\ Bal(u) + a + Pend(u) <= put + most /\ Bal(u) + a <= put + most
      BY <1>5, <3>1
    <3>3. \A v \in Users : Bal(v)' + Pend(v)' <= put + most
      BY <2>1, <2>2, <3>1, <3>2
    <3> QED
      BY <1>8, <2>2, <3>3 DEF WithinFunds
  <2>3. ASSUME NEW u \in Users, NEW b \in Nat, NEW p \in Nat, Moved(u, b, p),
               b + p <= Bal(u) + Pend(u), funding' = funding
        PROVE  WithinFunds(most)'
    <3>1. b + p <= put
      BY <1>1, <1>5, <1>7, <2>3
    <3>2. \A v \in Users : Bal(v)' + Pend(v)' <= put
      BY <1>5, <2>1, <2>3, <3>1
    <3> QED
      BY <2>3, <3>2 DEF WithinFunds, put
  <2>4. ASSUME NEW u \in Users, NEW a \in Amounts, a > 0, a <= Bal(u),
               funding' = funding, Moved(u, Bal(u) - a, Pend(u))
        PROVE  WithinFunds(most)'
    <3>1. /\ Bal(u) - a \in Nat /\ Pend(u) \in Nat
          /\ (Bal(u) - a) + Pend(u) <= Bal(u) + Pend(u)
      BY <1>1, <2>4
    <3> QED
      BY <2>3, <2>4, <3>1
  <2>5. ASSUME NEW u \in Users, funding' = funding,
               Moved(u, Bal(u) + Pend(u), 0)
        PROVE  WithinFunds(most)'
    <3>1. /\ Bal(u) + Pend(u) \in Nat
          /\ (Bal(u) + Pend(u)) + 0 <= Bal(u) + Pend(u)
      BY <1>1
    <3> QED
      BY <2>3, <2>5, <3>1
  <2>6. CASE Kept /\ funding' = funding
    BY <1>7, <2>6 DEF Kept, WithinFunds, put
  <2> QED
    BY <1>10, <2>2, <2>4, <2>5, <2>6 DEF MoneyStep
<1> QED
  BY <1>9, <1>10

(***************************************************************************)
(* The vault keeps the promise of VaultPromise wherever all that is put in *)
(* fits into an i128 (as in the run): for all users, amounts and policies, *)
(* and whatever is archived, expires or is restored in between (lib.rs).   *)
(***************************************************************************)
THEOREM PromiseWithinFunds ==
  ASSUME NEW most \in Nat, \A a \in Amounts : a <= most,
         MaxFunding * most <= MaxI128
  PROVE  Spec => KeepsPromise
<1>1. Init => NotInDebt /\ WithinFunds(most)
  <2> SUFFICES ASSUME Init PROVE NotInDebt /\ WithinFunds(most)
    OBVIOUS
  <2>1. NotInDebt /\ \A u \in Users : Bal(u) = 0 /\ Pend(u) = 0
    BY PromiseInit
  <2>2. funding = 0 /\ 0 * most = 0
    BY DEF Init
  <2> QED
    BY <2>1, <2>2 DEF WithinFunds
<1>2. TypeOK /\ NotInDebt /\ WithinFunds(most) /\ [Next]_vars =>
        NotInDebt' /\ WithinFunds(most)' /\ [NoOverflow]_vars
  BY FundsStep, StepMovesMoney, DebtStep
<1> QED
  BY <1>1, <1>2, TypeCorrect, PromiseUnlessOverflow, PTL DEF Spec
-----------------------------------------------------------------------------
(* Nonces *)

\* What a nonce's entry is bumped to is the threshold of its policy, at least.
LEMMA NonceGuarantee ==
  ASSUME NEW u \in Users
  PROVE  Guaranteed(Nonce(u)) = PolicyOf["Nonce"][1] /\ PolicyOf["Nonce"][1] \in Nat
<1>1. Nonce(u) \in VaultKeys /\ Nonce(u) \in Keys /\ Nonce(u)[1] = "Nonce"
      /\ Lifecycle[Nonce(u)] = "temporary"
  BY KeyFacts DEF VaultKeys, Nonce
<1>2. /\ Threshold[Nonce(u)] = PolicyOf["Nonce"][1]
      /\ ExtendTo[Nonce(u)] = PolicyOf["Nonce"][2]
  BY <1>1, DeclarationsAssumption DEF VaultThreshold, VaultExtendTo
<1>3. PolicyOf["Nonce"][1] \in Nat
  BY <1>1, <1>2, PolicyFacts
<1>4. Target(Nonce(u)) = Lower(Lower(PolicyOf["Nonce"][2], MAX_TEMP_TTL),
                               MaxTtl["temporary"])
  BY <1>1, <1>2 DEF Target, ClampedExtendTo, MaxFor
<1>5. PolicyOf["Nonce"][1] <= Target(Nonce(u))
  BY <1>4, VaultAssumption
<1> QED
  BY <1>2, <1>3, <1>5 DEF Guaranteed, Lower

(***************************************************************************)
(* The inductive invariant: the greatest nonce consumed is in the store,   *)
(* with a day to live from when it was, or that day is over.               *)
(***************************************************************************)
Remembered(u) ==
  /\ Has(store, Nonce(u))
  /\ store.value[Nonce(u)] = nonceSeen[u].nonce
  /\ store.live[Nonce(u)] >= nonceSeen[u].at + PolicyOf["Nonce"][1]

DayOver(u) == ledger > nonceSeen[u].at + PolicyOf["Nonce"][1]

NonceInv ==
  \A u \in Users : /\ Unwrap(Nonce(u)) >= 0
                   /\ nonceSeen[u].nonce > 0 => Remembered(u) \/ DayOver(u)

\* Operations that leave a nonce's entry alone leave it remembered.
LEMMA NonceKept ==
  ASSUME TypeOK, NonceInv, NEW u \in Users,
         store'.value[Nonce(u)] = store.value[Nonce(u)],
         store'.live[Nonce(u)] = store.live[Nonce(u)],
         nonceSeen'[u] = nonceSeen[u], ledger' \in Nat, ledger' >= ledger
  PROVE  /\ Unwrap(Nonce(u))' >= 0
         /\ nonceSeen'[u].nonce > 0 => Remembered(u)' \/ DayOver(u)'
<1>1. /\ ledger \in Nat /\ nonceSeen[u].at \in Nat
      /\ PolicyOf["Nonce"][1] \in Nat
  BY NonceGuarantee DEF TypeOK
<1>2. Unwrap(Nonce(u))' = Unwrap(Nonce(u))
  BY KeyFacts, UnwrapAfter
<1> QED
  BY <1>1, <1>2 DEF NonceInv, Remembered, DayOver, Has

\* A consumed nonce is greater than one that is remembered.
LEMMA ConsumedIsGreater ==
  ASSUME TypeOK, NonceInv, NEW u \in Users, NEW n \in Nonces, ConsumeNonce(u, n)
  PROVE  n > nonceSeen[u].nonce \/ DayOver(u)
<1>1. /\ n > Unwrap(Nonce(u)) /\ n \in Nat /\ nonceSeen[u].nonce \in Nat
      /\ Unwrap(Nonce(u)) \in Int
  BY VaultAssumption, StartFacts, UnwrapType DEF ConsumeNonce, TypeOK
<1>2. CASE nonceSeen[u].nonce = 0
  BY <1>1, <1>2 DEF NonceInv
<1>3. CASE nonceSeen[u].nonce > 0 /\ Remembered(u)
  <2>1. Unwrap(Nonce(u)) = nonceSeen[u].nonce
    BY <1>3 DEF Unwrap, Remembered
  <2> QED
    BY <1>1, <2>1
<1> QED
  BY <1>1, <1>2, <1>3 DEF NonceInv

\* Consuming a nonce remembers it.
LEMMA ConsumeRemembers ==
  ASSUME TypeOK, NonceInv, NEW u \in Users, NEW n \in Nonces, ConsumeNonce(u, n)
  PROVE  /\ Unwrap(Nonce(u))' >= 0
         /\ nonceSeen'[u].nonce > 0 => Remembered(u)'
<1>1. /\ n \in I128 /\ n \in Nat
      /\ store'.value[Nonce(u)] = n
      /\ store'.live[Nonce(u)] >= ledger + PolicyOf["Nonce"][1]
  <2>1. /\ Writes(store, store', Nonce(u), n, {Nonce(u)})
        /\ Bumped(store', ledger, Nonce(u)) /\ n \in I128 /\ n \in Nat
    BY ConsumeEffect, VaultAssumption
  <2>2. store.value \in [Keys -> Values \cup {Absent}] /\ Nonce(u) \in Keys
        /\ Slot(Nonce(u)) = Nonce(u)
    BY StartFacts, StoreIs
  <2>3. store'.value[Nonce(u)] = n
    BY <2>1, <2>2 DEF Writes
  <2> QED
    BY <2>1, <2>2, <2>3, NonceGuarantee DEF Bumped
<1>2. nonceSeen'[u] = [nonce |-> n, at |-> ledger]
  BY DEF ConsumeNonce, TypeOK
<1>3. Unwrap(Nonce(u))' = n
  BY <1>1, KeyFacts, UnwrapAfter
<1>4. Has(store, Nonce(u))'
  BY <1>1, NamesAssumption, DeclarationsAssumption DEF Has, VaultValues
<1> QED
  BY <1>1, <1>2, <1>3, <1>4 DEF Remembered

\* Steps that write another key leave a user's nonce alone.
LEMMA OtherWrites ==
  ASSUME TypeOK, NEW u \in Users, NEW k \in Keys, NEW v, NEW S,
         Writes(store, store', k, v, S), k # Nonce(u), Nonce(u) \notin S
  PROVE  /\ store'.value[Nonce(u)] = store.value[Nonce(u)]
         /\ store'.live[Nonce(u)] = store.live[Nonce(u)]
<1>1. /\ store.value \in [Keys -> Values \cup {Absent}]
      /\ Nonce(u) \in Keys /\ Nonce(u) \in Slots
  BY StartFacts, StoreIs DEF Slots
<1> QED
  BY <1>1 DEF Writes

\* Every step keeps it for every user.
LEMMA NonceStep ==
  ASSUME TypeOK, TypeOK', NonceInv, [Next]_vars
  PROVE  NonceInv'
<1> SUFFICES ASSUME NEW u \in Users
             PROVE  /\ Unwrap(Nonce(u))' >= 0
                    /\ nonceSeen'[u].nonce > 0 => Remembered(u)' \/ DayOver(u)'
  BY DEF NonceInv
<1>1. ledger \in Nat /\ ledger' \in Nat
  BY DEF TypeOK
<1>2. /\ Nonce(u) \in Keys /\ Nonce(u) \in Slots /\ Nonce(u) # Instance
      /\ Lifecycle[Nonce(u)] = "temporary"
  BY KeyFacts, NamesAssumption DEF Slots
<1>3. \A w \in Users : /\ Balance(w) \in Keys /\ GrantOf(w) \in Keys
                       /\ Nonce(w) \in Keys
                       /\ Balance(w) # Nonce(u) /\ GrantOf(w) # Nonce(u)
                       /\ (w # u => Nonce(w) # Nonce(u))
  BY KeyFacts, KeysDiffer
<1>4. ASSUME NEW w \in Users, NEW a \in Amounts,
             Deposit(w, a) \/ Withdraw(w, a) \/ Grant(w, a)
      PROVE  /\ store'.value[Nonce(u)] = store.value[Nonce(u)]
             /\ store'.live[Nonce(u)] = store.live[Nonce(u)]
             /\ UNCHANGED <<ledger, nonceSeen>>
  <2>1. UNCHANGED <<ledger, nonceSeen>>
    BY <1>4 DEF Deposit, Withdraw, Grant, Invoke
  <2>2. \/ \E v : Writes(store, store', Balance(w), v, {Balance(w)})
        \/ Writes(store, store', GrantOf(w), a, {Instance, GrantOf(w)})
    BY <1>4, DepositEffect, WithdrawEffect, GrantEffect
  <2> QED
    BY <1>2, <1>3, <2>1, <2>2, OtherWrites
<1>5. ASSUME NEW w \in Users, Claim(w)
      PROVE  /\ store'.value[Nonce(u)] = store.value[Nonce(u)]
             /\ store'.live[Nonce(u)] = store.live[Nonce(u)]
             /\ UNCHANGED <<ledger, nonceSeen>>
  <2>1. UNCHANGED <<ledger, nonceSeen>>
    BY <1>5 DEF Claim, Invoke
  <2>2. store'.value[Nonce(u)] = store.value[Nonce(u)]
    BY <1>2, <1>3, <1>5, ClaimedValues
  <2>3. store'.live[Nonce(u)] = store.live[Nonce(u)]
    BY <1>2, <1>3, <1>5, ClaimEffect
  <2> QED
    BY <2>1, <2>2, <2>3
<1>6. ASSUME NEW k \in Keys, Lifecycle[k] # "temporary", Read(k) \/ Restore(k)
      PROVE  /\ store'.value[Nonce(u)] = store.value[Nonce(u)]
             /\ store'.live[Nonce(u)] = store.live[Nonce(u)]
             /\ UNCHANGED <<ledger, nonceSeen>>
  <2>1. UNCHANGED <<ledger, nonceSeen>>
    BY <1>6 DEF Read, Restore, Invoke
  <2>2. Reads(store, store', {Slot(k)})
    BY <1>6, ReadEffect, RestoreEffect
  <2>3. Slot(k) # Nonce(u)
    BY <1>2, <1>6, SlotFacts
  <2> QED
    BY <1>2, <2>1, <2>2, <2>3 DEF Reads
<1>7. ASSUME NEW w \in Users, NEW n \in Nonces, ConsumeNonce(w, n), w # u
      PROVE  /\ store'.value[Nonce(u)] = store.value[Nonce(u)]
             /\ store'.live[Nonce(u)] = store.live[Nonce(u)]
             /\ ledger' = ledger /\ nonceSeen'[u] = nonceSeen[u]
  <2>1. ledger' = ledger /\ nonceSeen'[u] = nonceSeen[u]
    BY <1>7 DEF ConsumeNonce, Invoke, TypeOK
  <2>2. Writes(store, store', Nonce(w), n, {Nonce(w)})
    BY <1>7, ConsumeEffect
  <2> QED
    BY <1>3, <1>7, <2>1, <2>2, OtherWrites
<1>8. CASE CloseLedger
  <2>1. /\ ledger' = ledger + 1 /\ store'.live = store.live
        /\ nonceSeen' = nonceSeen
        /\ store'.value[Nonce(u)] = IF store.live[Nonce(u)] < ledger'
                                      THEN Absent ELSE store.value[Nonce(u)]
    BY <1>2, <1>8, CloseEffect DEF CloseLedger
  <2>2. CASE ~(store.live[Nonce(u)] < ledger')
    BY <1>1, <2>1, <2>2, NonceKept
  <2>3. CASE store.live[Nonce(u)] < ledger'
    <3>1. Unwrap(Nonce(u))' = 0
      BY <1>2, <2>1, <2>3, UnwrapAfter
    <3>2. /\ store.live[Nonce(u)] \in Nat /\ nonceSeen[u].at \in Nat
          /\ PolicyOf["Nonce"][1] \in Nat
      BY <1>2, StoreIs, NonceGuarantee DEF TypeOK
    <3>3. nonceSeen[u].nonce > 0 => DayOver(u)'
      BY <1>1, <2>1, <2>3, <3>2 DEF NonceInv, Remembered, DayOver
    <3> QED
      BY <2>1, <3>1, <3>3
  <2> QED
    BY <2>2, <2>3
<1>9. CASE UNCHANGED vars
  BY <1>1, <1>9, NonceKept DEF vars
<1>10. ASSUME NEW n \in Nonces, ConsumeNonce(u, n)
       PROVE  /\ Unwrap(Nonce(u))' >= 0
              /\ nonceSeen'[u].nonce > 0 => Remembered(u)' \/ DayOver(u)'
  BY <1>10, ConsumeRemembers
<1>11. ASSUME store'.value[Nonce(u)] = store.value[Nonce(u)],
              store'.live[Nonce(u)] = store.live[Nonce(u)],
              ledger' = ledger, nonceSeen'[u] = nonceSeen[u]
       PROVE  /\ Unwrap(Nonce(u))' >= 0
              /\ nonceSeen'[u].nonce > 0 => Remembered(u)' \/ DayOver(u)'
  BY <1>1, <1>11, NonceKept
<1>12. \A k \in Keys : Restore(k) => Lifecycle[k] # "temporary"
  BY RestoreEffect
<1> QED
  BY <1>4, <1>5, <1>6, <1>7, <1>8, <1>9, <1>10, <1>11, <1>12, StepIs

(***************************************************************************)
(* A nonce protects against replay for at least the threshold of its       *)
(* policy after the last one was consumed, whatever it is, although its    *)
(* entry is temporary and deleted in the end: for all users, nonces and    *)
(* policies within the network maximum (lib.rs consume_nonce, ops.rs).     *)
(***************************************************************************)
THEOREM NoncesProtect == Spec => NoncesHoldForADay
<1>1. Init => NonceInv
  <2> SUFFICES ASSUME Init PROVE NonceInv
    OBVIOUS
  <2>1. \A u \in Users : nonceSeen[u].nonce = 0
    BY DEF Init
  <2>2. \A u \in Users : Unwrap(Nonce(u)) = 0
    BY Deployed, KeyFacts, KeysDiffer DEF Unwrap, Has
  <2> QED
    BY <2>1, <2>2 DEF NonceInv
<1>2. TypeOK /\ TypeOK' /\ NonceInv /\ [Next]_vars => NonceInv'
  BY NonceStep
<1>3. TypeOK /\ NonceInv /\ [Next]_vars =>
        [\A u \in Users :
           nonceSeen'[u] # nonceSeen[u]
             /\ nonceSeen'[u].nonce <= nonceSeen[u].nonce =>
               ledger > nonceSeen[u].at + PolicyOf["Nonce"][1]]_vars
  <2> SUFFICES ASSUME TypeOK, NonceInv, [Next]_vars, NEW u \in Users,
                      nonceSeen'[u] # nonceSeen[u],
                      nonceSeen'[u].nonce <= nonceSeen[u].nonce
               PROVE  DayOver(u)
    BY DEF DayOver
  <2>1. PICK w \in Users, n \in Nonces : ConsumeNonce(w, n)
    BY DEF Next, vars, Deposit, Withdraw, Grant, Claim, Read, CloseLedger, Restore
  <2>2. w = u /\ nonceSeen'[u] = [nonce |-> n, at |-> ledger]
    BY <2>1 DEF ConsumeNonce, TypeOK
  <2>3. n \in Nat /\ nonceSeen[u].nonce \in Nat
    BY VaultAssumption DEF TypeOK
  <2> QED
    BY <2>1, <2>2, <2>3, ConsumedIsGreater
<1> QED
  BY <1>1, <1>2, <1>3, TypeCorrect, PTL DEF Spec, NoncesHoldForADay
=============================================================================
