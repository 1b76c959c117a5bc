-------------------------- MODULE StorageOps_proofs --------------------------
(***************************************************************************)
(* Facts about the storage operations, for every store: what each of them  *)
(* does to values and to TTLs.  The theorems about the contracts that call *)
(* them rest on these.                                                     *)
(***************************************************************************)
EXTENDS StorageOps, TLAPS

\* TTL slots are ledger numbers, and an instance key has none of its own.
LEMMA SlotFacts ==
  ASSUME NEW k \in Keys
  PROVE  /\ Slot(k) \in Slots
         /\ Lifecycle[k] \in Kinds
         /\ Lifecycle[k] = "instance" => Slot(k) = Instance
         /\ Lifecycle[k] # "instance" => Slot(k) = k
         /\ Slot(k) = Instance <=> Lifecycle[k] = "instance"
         /\ \A j \in Keys : Slot(k) = j => j = k /\ Lifecycle[k] # "instance"
BY OpsAssumption, NamesAssumption DEF Slot, Slots

\* What it takes to be a store.
LEMMA StoreIs ==
  ASSUME NEW s
  PROVE  s \in Stores <=> /\ s = [value |-> s.value, live |-> s.live]
                          /\ s.value \in [Keys -> Values \cup {Absent}]
                          /\ s.live \in [Slots -> Nat]
                          /\ \A k \in Keys : Lifecycle[k] = "instance" =>
                                               s.live[k] = 0
BY DEF Stores

\* The policy and the network's TTLs are ledger counts.
LEMMA PolicyFacts ==
  ASSUME NEW k \in Keys
  PROVE  /\ Threshold[k] \in Nat /\ ExtendTo[k] \in Nat
         /\ MinTtl[Lifecycle[k]] \in Nat /\ MaxTtl[Lifecycle[k]] \in Nat
         /\ MinTtl[Lifecycle[k]] <= MaxTtl[Lifecycle[k]]
         /\ MaxFor(Lifecycle[k]) \in Nat
         /\ MinTtl[Lifecycle[k]] <= MaxFor(Lifecycle[k])
         /\ ClampedExtendTo(k) \in Nat
         /\ Target(k) \in Nat /\ Target(k) <= MaxFor(Lifecycle[k])
BY OpsAssumption DEF ClampedExtendTo, Target, MaxFor, Lower

(***************************************************************************)
(* An operation on key k leads from store s to store t: it touches no      *)
(* other value and no other slot, and an entry that is there (or an        *)
(* instance) keeps at least its TTL.                                       *)
(***************************************************************************)
ActsOn(s, t, k) ==
  /\ t \in Stores
  /\ \A j \in Keys \ {k} : t.value[j] = s.value[j]
  /\ \A slot \in Slots \ {Slot(k)} : t.live[slot] = s.live[slot]
  /\ Has(s, k) \/ Lifecycle[k] = "instance" =>
       t.live[Slot(k)] >= s.live[Slot(k)]

\* The TTL it leaves is at most limit, or one that was there before.
Within(s, t, k, limit) ==
  t.live[Slot(k)] <= limit \/
    (t.live[Slot(k)] = s.live[Slot(k)] /\ (InUse(s, k) \/ ~InUse(t, k)))

\* What the declared policy guarantees of a key bumped at ledger now.
Guaranteed(k) == Lower(Threshold[k], Target(k))

Bumped(t, now, k) == t.live[Slot(k)] >= now + Guaranteed(k)

\* The host's put writes the value and gives a new entry the minimum TTL.
LEMMA PutFacts ==
  ASSUME NEW s \in Stores, NEW now \in Nat, NEW k \in Keys, NEW v \in Values
  PROVE  LET t == HostPut(s, now, k, v) IN
         /\ ActsOn(s, t, k)
         /\ t.value = [s.value EXCEPT ![k] = v]
         /\ Has(t, k)
         /\ InUse(s, k) => t.live = s.live
         /\ Within(s, t, k, now + MaxFor(Lifecycle[k]))
<1> DEFINE t == HostPut(s, now, k, v)
           fresh == ~(Has(s, k) \/ Slot(k) = Instance)
<1> USE SlotFacts, PolicyFacts
<1>1. /\ s.value \in [Keys -> Values \cup {Absent}]
      /\ s.live \in [Slots -> Nat]
      /\ \A j \in Keys : Lifecycle[j] = "instance" => s.live[j] = 0
  BY StoreIs
<1>2. t.value = [s.value EXCEPT ![k] = v]
  BY DEF HostPut
<1>3. Has(t, k)
  BY <1>1, <1>2, NamesAssumption DEF Has
<1>4. t.live = IF fresh THEN [s.live EXCEPT ![k] = now + MinTtl[Lifecycle[k]]]
                        ELSE s.live
  BY DEF HostPut
<1>5. t = [value |-> t.value, live |-> t.live]
  BY DEF HostPut
<1>6. t \in Stores
  <2>1. t.value \in [Keys -> Values \cup {Absent}]
    BY <1>1, <1>2
  <2>2. t.live \in [Slots -> Nat]
    BY <1>1, <1>4
  <2>3. \A j \in Keys : Lifecycle[j] = "instance" => t.live[j] = 0
    BY <1>1, <1>4
  <2> HIDE DEF t
  <2> QED
    BY <1>5, <2>1, <2>2, <2>3, StoreIs
<1>7. \A j \in Keys \ {k} : t.value[j] = s.value[j]
  BY <1>1, <1>2
<1>8. \A slot \in Slots \ {Slot(k)} : t.live[slot] = s.live[slot]
  BY <1>1, <1>4
<1>9. fresh => t.live[Slot(k)] <= now + MaxFor(Lifecycle[k])
  BY <1>1, <1>4
<1>10. ~fresh => t.live = s.live
  BY <1>4
<1>11. s.live[Slot(k)] \in Nat
  BY <1>1
<1>12. InUse(s, k) <=> ~fresh
  BY DEF InUse
<1> HIDE DEF t, fresh
<1>13. Within(s, t, k, now + MaxFor(Lifecycle[k]))
  BY <1>9, <1>10, <1>12 DEF Within
<1>14. ActsOn(s, t, k)
  BY <1>6, <1>7, <1>8, <1>10, <1>11, <1>12 DEF ActsOn, InUse
<1> QED
  BY <1>2, <1>3, <1>10, <1>12, <1>13, <1>14 DEF t

\* A TTL extension: it acts on the key, changes no value and shortens nothing.
OnlyExtends(s, t, k) ==
  /\ ActsOn(s, t, k)
  /\ t.value = s.value
  /\ t.live[Slot(k)] >= s.live[Slot(k)]

\* The host's extend_ttl changes no value, and reaches the target, from below
\* the threshold, or finds the threshold or the target met.
LEMMA ExtendFacts ==
  ASSUME NEW s \in Stores, NEW now \in Nat, NEW k \in Keys,
         NEW threshold \in Nat, NEW extendTo \in Nat
  PROVE  LET t == HostExtend(s, now, k, threshold, extendTo) IN
         /\ OnlyExtends(s, t, k)
         /\ \/ t.live[Slot(k)] >= now + threshold
            \/ t.live[Slot(k)] >= now + Lower(extendTo, MaxTtl[Lifecycle[k]])
         /\ t.live[Slot(k)] # s.live[Slot(k)] =>
              /\ t.live[Slot(k)] = now + Lower(extendTo, MaxTtl[Lifecycle[k]])
              /\ s.live[Slot(k)] - now < threshold
<1> DEFINE t == HostExtend(s, now, k, threshold, extendTo)
           target == now + Lower(extendTo, MaxTtl[Lifecycle[k]])
           short == /\ s.live[Slot(k)] - now < threshold
                    /\ s.live[Slot(k)] < target
<1> USE SlotFacts, PolicyFacts
<1>1. /\ s.live \in [Slots -> Nat]
      /\ s.value \in [Keys -> Values \cup {Absent}]
      /\ \A j \in Keys : Lifecycle[j] = "instance" => s.live[j] = 0
      /\ s = [value |-> s.value, live |-> s.live]
  BY StoreIs
<1>2. target \in Nat
  BY DEF Lower
<1>3. CASE ~short
  <2>1. t = s
    BY <1>3 DEF HostExtend
  <2> HIDE DEF t
  <2> QED
    BY <1>1, <1>2, <1>3, <2>1 DEF t, OnlyExtends, ActsOn, Has
<1>4. CASE short
  <2>1. t = [s EXCEPT !.live[Slot(k)] = target]
    BY <1>4 DEF HostExtend
  <2>2. /\ t.value = s.value
        /\ t.live = [s.live EXCEPT ![Slot(k)] = target]
        /\ t = [value |-> t.value, live |-> t.live]
    BY <1>1, <2>1
  <2> HIDE DEF t, target
  <2>3. t.live \in [Slots -> Nat]
    BY <1>1, <1>2, <2>2
  <2>4. \A j \in Keys : Lifecycle[j] = "instance" => t.live[j] = 0
    <3>1. ASSUME NEW j \in Keys, Lifecycle[j] = "instance"
          PROVE  Slot(k) # j
      BY <3>1
    <3> QED
      BY <1>1, <2>2, <3>1 DEF Slots
  <2>5. t \in Stores
    BY <1>1, <2>2, <2>3, <2>4, StoreIs
  <2>6. t.live[Slot(k)] = target
    BY <1>1, <2>2
  <2> QED
    BY <1>1, <1>2, <1>4, <2>2, <2>5, <2>6 DEF t, target, OnlyExtends, ActsOn, Has
<1> QED
  BY <1>3, <1>4

\* A policy extends what it finds below its threshold, to its target.
PolicyExtends(s, t, now, k) ==
  /\ OnlyExtends(s, t, k)
  /\ t.live[Slot(k)] # s.live[Slot(k)] =>
       /\ t.live[Slot(k)] = now + Target(k)
       /\ s.live[Slot(k)] - now < Threshold[k]

\* A bump acts on its key alone and guarantees what the policy declares.
LEMMA BumpFacts ==
  ASSUME NEW s \in Stores, NEW now \in Nat, NEW k \in Keys
  PROVE  LET t == Bump(s, now, k) IN
         PolicyExtends(s, t, now, k) /\ Bumped(t, now, k)
<1> DEFINE t == HostExtend(s, now, k, Threshold[k], ClampedExtendTo(k))
<1> USE PolicyFacts
<1>1. /\ OnlyExtends(s, t, k)
      /\ \/ t.live[Slot(k)] >= now + Threshold[k]
         \/ t.live[Slot(k)] >= now + Target(k)
      /\ t.live[Slot(k)] # s.live[Slot(k)] =>
           t.live[Slot(k)] = now + Target(k) /\ s.live[Slot(k)] - now < Threshold[k]
  <2>1. Threshold[k] \in Nat /\ ClampedExtendTo(k) \in Nat
    OBVIOUS
  <2> QED
    BY <2>1, ExtendFacts DEF Target
<1>2. t.live[Slot(k)] \in Nat
  BY <1>1, SlotFacts, StoreIs DEF OnlyExtends, ActsOn
<1> HIDE DEF t
<1>3. Bumped(t, now, k)
  BY <1>1, <1>2 DEF Bumped, Guaranteed, Lower
<1> QED
  BY <1>1, <1>3 DEF t, Bump, PolicyExtends

\* An extension after an operation on the same key is part of it.
LEMMA ActThenExtend ==
  ASSUME NEW s \in Stores, NEW t, NEW u, NEW k \in Keys,
         ActsOn(s, t, k), OnlyExtends(t, u, k)
  PROVE  ActsOn(s, u, k)
<1> USE SlotFacts
<1>1. /\ s.live \in [Slots -> Nat]
      /\ t.live \in [Slots -> Nat]
      /\ u.live \in [Slots -> Nat]
  BY StoreIs DEF ActsOn, OnlyExtends
<1>2. Has(u, k) <=> Has(t, k)
  BY DEF OnlyExtends, Has
<1> QED
  BY <1>1, <1>2, PolicyFacts DEF ActsOn, OnlyExtends

\* Doing nothing acts on any key, and extends it by nothing.
LEMMA NothingActs ==
  ASSUME NEW s \in Stores, NEW now \in Nat, NEW k \in Keys
  PROVE  PolicyExtends(s, s, now, k)
<1>1. s.live[Slot(k)] \in Nat
  BY SlotFacts, StoreIs
<1> QED
  BY <1>1 DEF PolicyExtends, OnlyExtends, ActsOn

\* The automatic bump, where it is declared, extends its key.
LEMMA AutoBumpedFacts ==
  ASSUME NEW s \in Stores, NEW now \in Nat, NEW k \in Keys
  PROVE  LET t == AutoBumped(s, now, k) IN
         PolicyExtends(s, t, now, k) /\ (k \in AutoBump => Bumped(t, now, k))
BY BumpFacts, NothingActs DEF AutoBumped

\* get reads without changing a value and bumps what it finds.
LEMMA GetFacts ==
  ASSUME NEW s \in Stores, NEW now \in Nat, NEW k \in Keys
  PROVE  LET t == Get(s, now, k) IN
         /\ PolicyExtends(s, t, now, k)
         /\ k \in AutoBump /\ Has(t, k) => Bumped(t, now, k)
         /\ ~Has(s, k) => t = s
<1>1. Has(Get(s, now, k), k) <=> Has(s, k)
  BY AutoBumpedFacts DEF Get, Has, PolicyExtends, OnlyExtends
<1> QED
  BY <1>1, AutoBumpedFacts, NothingActs DEF Get

\* set writes its key, and update does with the new value it computes; the
\* policy extends what the host's put leaves.
LEMMA SetFacts ==
  ASSUME NEW s \in Stores, NEW now \in Nat, NEW k \in Keys, NEW v \in Values
  PROVE  LET t == Set(s, now, k, v) IN
         /\ ActsOn(s, t, k)
         /\ PolicyExtends(HostPut(s, now, k, v), t, now, k)
         /\ t.value = [s.value EXCEPT ![k] = v]
         /\ k \in AutoBump => Bumped(t, now, k)
<1> DEFINE p == HostPut(s, now, k, v)
           t == AutoBumped(p, now, k)
<1>1. ActsOn(s, p, k) /\ p.value = [s.value EXCEPT ![k] = v]
  BY PutFacts
<1>2. p \in Stores
  BY <1>1 DEF ActsOn
<1> HIDE DEF p
<1>3. PolicyExtends(p, t, now, k) /\ (k \in AutoBump => Bumped(t, now, k))
  BY <1>2, AutoBumpedFacts
<1> HIDE DEF t
<1>4. ActsOn(s, t, k) /\ t.value = p.value
  BY <1>1, <1>3, ActThenExtend DEF PolicyExtends, OnlyExtends
<1> QED
  BY <1>1, <1>3, <1>4 DEF Set, t, p

\* update is set with the value its function gives for the old one.
LEMMA UpdateIsSet ==
  ASSUME NEW s, NEW now, NEW k, NEW f
  PROVE  Update(s, now, k, f) = Set(s, now, k, f[s.value[k]])
BY DEF Update, Set

\* What was asked for with a TTL: at least it, as far as the network allows,
\* and more only if it was there.
Asked(s, t, now, k, ttl) ==
  /\ t.live[Slot(k)] >= now + Lower(ttl, MaxTtl[Lifecycle[k]])
  /\ \/ t.live[Slot(k)] = s.live[Slot(k)]
     \/ t.live[Slot(k)] = now + Lower(ttl, MaxTtl[Lifecycle[k]])

\* extend_ttl of ops.rs extends its key as asked: the target is the threshold.
LEMMA ExtendTtlFacts ==
  ASSUME NEW s \in Stores, NEW now \in Nat, NEW k \in Keys, NEW ttl \in Nat
  PROVE  LET t == ExtendTtl(s, now, k, ttl) IN
         OnlyExtends(s, t, k) /\ Asked(s, t, now, k, ttl)
<1> DEFINE t == HostExtend(s, now, k, ttl, ttl)
<1>1. /\ OnlyExtends(s, t, k)
      /\ \/ t.live[Slot(k)] >= now + ttl
         \/ t.live[Slot(k)] >= now + Lower(ttl, MaxTtl[Lifecycle[k]])
      /\ t.live[Slot(k)] # s.live[Slot(k)] =>
           t.live[Slot(k)] = now + Lower(ttl, MaxTtl[Lifecycle[k]])
  BY ExtendFacts
<1>2. t.live[Slot(k)] \in Nat
  BY <1>1, SlotFacts, StoreIs DEF OnlyExtends, ActsOn
<1> HIDE DEF t
<1>3. Asked(s, t, now, k, ttl)
  BY <1>1, <1>2, PolicyFacts DEF Asked, Lower
<1> QED
  BY <1>1, <1>3 DEF t, ExtendTtl

\* set_ttl writes its key, extends what the host's put leaves, as asked, and
\* bumps nothing.
LEMMA SetTtlFacts ==
  ASSUME NEW s \in Stores, NEW now \in Nat, NEW k \in Keys, NEW v \in Values,
         NEW ttl \in Nat
  PROVE  LET t == SetTtl(s, now, k, v, ttl) IN
         /\ ActsOn(s, t, k)
         /\ t.value = [s.value EXCEPT ![k] = v]
         /\ Asked(HostPut(s, now, k, v), t, now, k, ttl)
<1> DEFINE p == HostPut(s, now, k, v)
           t == ExtendTtl(p, now, k, ttl)
<1>1. ActsOn(s, p, k) /\ p.value = [s.value EXCEPT ![k] = v]
  BY PutFacts
<1>2. p \in Stores
  BY <1>1 DEF ActsOn
<1> HIDE DEF p
<1>3. OnlyExtends(p, t, k) /\ Asked(p, t, now, k, ttl)
  BY <1>2, ExtendTtlFacts
<1> HIDE DEF t
<1>4. ActsOn(s, t, k) /\ t.value = p.value
  BY <1>1, <1>3, ActThenExtend DEF OnlyExtends
<1> QED
  BY <1>1, <1>3, <1>4 DEF SetTtl, t, p

\* remove deletes its entry and leaves every TTL where it was.
LEMMA RemoveFacts ==
  ASSUME NEW s \in Stores, NEW k \in Keys
  PROVE  LET t == Remove(s, k) IN
         /\ ActsOn(s, t, k)
         /\ t.value = [s.value EXCEPT ![k] = Absent]
         /\ t.live = s.live
<1> DEFINE t == Remove(s, k)
<1>1. /\ s.value \in [Keys -> Values \cup {Absent}]
      /\ s.live \in [Slots -> Nat]
      /\ \A j \in Keys : Lifecycle[j] = "instance" => s.live[j] = 0
      /\ s = [value |-> s.value, live |-> s.live]
  BY StoreIs
<1>2. /\ t.value = [s.value EXCEPT ![k] = Absent]
      /\ t.live = s.live
      /\ t = [value |-> t.value, live |-> t.live]
  BY <1>1 DEF Remove
<1> HIDE DEF t
<1>3. t.value \in [Keys -> Values \cup {Absent}]
  BY <1>1, <1>2
<1>4. t \in Stores /\ ~Has(t, k)
  BY <1>1, <1>2, <1>3, StoreIs DEF Has
<1>5. s.live[Slot(k)] \in Nat
  BY <1>1, SlotFacts
<1> QED
  BY <1>1, <1>2, <1>4, <1>5 DEF ActsOn, t

\* A closing ledger deletes temporary entries past their TTL, nothing else.
LEMMA ExpireFacts ==
  ASSUME NEW s \in Stores, NEW now \in Nat
  PROVE  LET t == Expire(s, now) IN
         /\ t \in Stores
         /\ t.live = s.live
         /\ \A k \in Keys :
              t.value[k] = IF Lifecycle[k] = "temporary" /\ s.live[k] < now
                             THEN Absent ELSE s.value[k]
<1> DEFINE t == Expire(s, now)
<1>1. /\ s.value \in [Keys -> Values \cup {Absent}]
      /\ s.live \in [Slots -> Nat]
      /\ \A j \in Keys : Lifecycle[j] = "instance" => s.live[j] = 0
      /\ s = [value |-> s.value, live |-> s.live]
  BY StoreIs
<1>2. /\ t.value = [k \in Keys |->
                      IF Lifecycle[k] = "temporary" /\ s.live[k] < now
                        THEN Absent ELSE s.value[k]]
      /\ t.live = s.live
      /\ t = [value |-> t.value, live |-> t.live]
  BY <1>1 DEF Expire
<1> HIDE DEF t
<1>3. t.value \in [Keys -> Values \cup {Absent}]
  BY <1>1, <1>2
<1> QED
  BY <1>1, <1>2, <1>3, StoreIs DEF t

\* A restored slot gets the minimum TTL; values are as they were.
LEMMA RestoredFacts ==
  ASSUME NEW s \in Stores, NEW now \in Nat, NEW kind \in Kinds,
         NEW slot \in Slots,
         \A k \in Keys : Lifecycle[k] = "instance" => slot # k
  PROVE  LET t == Restored(s, now, slot, kind) IN
         /\ t \in Stores
         /\ t.value = s.value
         /\ t.live = [s.live EXCEPT ![slot] = now + MinTtl[kind]]
<1> DEFINE t == Restored(s, now, slot, kind)
<1>1. /\ s.value \in [Keys -> Values \cup {Absent}]
      /\ s.live \in [Slots -> Nat]
      /\ \A j \in Keys : Lifecycle[j] = "instance" => s.live[j] = 0
      /\ s = [value |-> s.value, live |-> s.live]
  BY StoreIs
<1>2. /\ t.value = s.value
      /\ t.live = [s.live EXCEPT ![slot] = now + MinTtl[kind]]
      /\ t = [value |-> t.value, live |-> t.live]
  BY <1>1 DEF Restored
<1> HIDE DEF t
<1>3. now + MinTtl[kind] \in Nat
  BY OpsAssumption
<1>4. t.live \in [Slots -> Nat]
  BY <1>1, <1>2, <1>3
<1>5. \A k \in Keys : Lifecycle[k] = "instance" => t.live[k] = 0
  BY <1>1, <1>2 DEF Slots
<1> QED
  BY <1>1, <1>2, <1>4, <1>5, StoreIs DEF t
=============================================================================
