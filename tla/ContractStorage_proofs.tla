------------------------ MODULE ContractStorage_proofs ------------------------
(***************************************************************************)
(* Theorems about ContractStorage, for all keys, lifecycles, policies and  *)
(* network TTLs.                                                           *)
(***************************************************************************)
EXTENDS ContractStorage, StorageOps_proofs

\* A call on key k, of any accessor.
CallOn(k) ==
  \/ GetCall(k) \/ RemoveCall(k) \/ BumpCall(k)
  \/ \E v \in Values : SetCall(k, v) \/ UpdateCall(k, v)
  \/ \E ttl \in Ttls : ExtendTtlCall(k, ttl)
  \/ \E v \in Values, ttl \in Ttls : SetTtlCall(k, v, ttl)

(***************************************************************************)
(* The effect of a call, by whether it is the policy or the caller who     *)
(* says how long the entry is to live.  A policy may extend the store      *)
(* before, what the host's put left; where it does the entry is there.     *)
(***************************************************************************)
PolicyEffect(k) ==
  /\ ActsOn(store, store', k) /\ (Has(store, k) => Has(store', k))
  /\ UNCHANGED <<ledger, asked>>
  /\ \E before \in Stores :
       /\ Within(store, before, k, ledger + MaxFor(Lifecycle[k]))
       /\ InUse(store, k) => before.live[Slot(k)] = store.live[Slot(k)]
       /\ InUse(before, k) <=> InUse(store', k)
       /\ PolicyExtends(before, store', ledger, k)
       /\ store' # before => InUse(store', k)
       /\ Note(k, before)
  /\ \/ touched' = touched
     \/ /\ touched' = [touched EXCEPT ![k] = ledger]
        /\ Has(store', k) /\ Bumped(store', ledger, k)

AskEffect(k) ==
  /\ ActsOn(store, store', k) /\ (Has(store, k) => Has(store', k))
  /\ UNCHANGED <<ledger, touched, extended>>
  /\ InUse(store', k)
  /\ \E before \in Stores, ttl \in Nat :
       /\ Within(store, before, k, ledger + MaxFor(Lifecycle[k]))
       /\ InUse(before, k)
       /\ Asked(before, store', ledger, k, ttl)
       /\ Ask(k, ttl)

RemoveEffect(k) ==
  /\ store' \in Stores /\ store'.live = store.live
  /\ \A j \in Keys : Has(store', j) => Has(store, j)
  /\ UNCHANGED ledger
  /\ Forget

\* Values that are written are not the absence of one.
LEMMA WrittenIsThere ==
  ASSUME NEW s \in Stores, NEW t, NEW k \in Keys, NEW v \in Values,
         t.value = [s.value EXCEPT ![k] = v]
  PROVE  Has(t, k)
BY StoreIs, NamesAssumption DEF Has

\* set and update extend, by policy, what the host's put leaves.
LEMMA SetHasEffect ==
  ASSUME TypeOK, NEW k \in Keys, NEW v \in Values,
         store' = Set(store, ledger, k, v), Call(k), Touch(k),
         Note(k, HostPut(store, ledger, k, v)), UNCHANGED asked
  PROVE  PolicyEffect(k)
<1> DEFINE before == HostPut(store, ledger, k, v)
<1>1. store \in Stores /\ ledger \in Nat
  BY StorageAssumption DEF TypeOK
<1>2. /\ ActsOn(store, before, k) /\ Has(before, k)
      /\ Within(store, before, k, ledger + MaxFor(Lifecycle[k]))
  BY <1>1, PutFacts
<1>2a. InUse(store, k) => before.live = store.live
  BY DEF HostPut, InUse
<1>3. /\ ActsOn(store, store', k)
      /\ PolicyExtends(before, store', ledger, k)
      /\ store'.value = [store.value EXCEPT ![k] = v]
      /\ k \in AutoBump => Bumped(store', ledger, k)
  BY <1>1, SetFacts
<1>4. Has(store', k)
  BY <1>1, <1>3, WrittenIsThere
<1>5. before \in Stores
  BY <1>2 DEF ActsOn
<1>6. Note(k, before)
  OBVIOUS
<1> HIDE DEF before
<1>7. /\ InUse(store, k) => before.live[Slot(k)] = store.live[Slot(k)]
      /\ InUse(before, k) <=> InUse(store', k)
      /\ store' # before => InUse(store', k)
  BY <1>2, <1>4, <1>2a DEF InUse
<1>8. \/ touched' = touched
      \/ /\ touched' = [touched EXCEPT ![k] = ledger]
         /\ Has(store', k) /\ Bumped(store', ledger, k)
  BY <1>3, <1>4 DEF Touch
<1> QED
  BY <1>2, <1>3, <1>4, <1>5, <1>6, <1>7, <1>8 DEF PolicyEffect, Call

\* So do get and bump with the store as it is.
LEMMA BumpHasEffect ==
  ASSUME TypeOK, NEW k \in Keys, GetCall(k) \/ BumpCall(k)
  PROVE  PolicyEffect(k)
<1>1. store \in Stores /\ ledger \in Nat
  BY StorageAssumption DEF TypeOK
<1>2. /\ UNCHANGED <<ledger, asked>> /\ Note(k, store)
      /\ \/ GetCall(k) /\ store' = Get(store, ledger, k) /\ Touch(k)
         \/ /\ BumpCall(k) /\ store' = Bump(store, ledger, k)
            /\ touched' = touched /\ InUse(store, k)
  BY DEF GetCall, BumpCall, Call, Extendable
<1>3. /\ PolicyExtends(store, store', ledger, k)
      /\ store' # store => InUse(store, k)
  BY <1>1, <1>2, GetFacts, BumpFacts DEF InUse
<1>4. /\ ActsOn(store, store', k) /\ store'.value = store.value
  BY <1>3 DEF PolicyExtends, OnlyExtends
<1>5. /\ Has(store', k) <=> Has(store, k)
      /\ InUse(store', k) <=> InUse(store, k)
  BY <1>4 DEF Has, InUse
<1>6. \/ touched' = touched
      \/ /\ touched' = [touched EXCEPT ![k] = ledger]
         /\ Has(store', k) /\ Bumped(store', ledger, k)
  BY <1>1, <1>2, GetFacts DEF Touch
<1>7. Within(store, store, k, ledger + MaxFor(Lifecycle[k]))
  BY DEF Within
<1> QED
  BY <1>1, <1>2, <1>3, <1>4, <1>5, <1>6, <1>7 DEF PolicyEffect

\* set_ttl and extend_ttl extend as the caller asks.
LEMMA AskHasEffect ==
  ASSUME TypeOK, NEW k \in Keys, NEW ttl \in Ttls,
         ExtendTtlCall(k, ttl) \/ \E v \in Values : SetTtlCall(k, v, ttl)
  PROVE  AskEffect(k)
<1>1. store \in Stores /\ ledger \in Nat /\ ttl \in Nat
  BY StorageAssumption DEF TypeOK
<1>2. CASE ExtendTtlCall(k, ttl)
  <2>1. /\ store' = ExtendTtl(store, ledger, k, ttl) /\ InUse(store, k)
        /\ Ask(k, ttl) /\ UNCHANGED <<ledger, touched, extended>>
    BY <1>2 DEF ExtendTtlCall, Extendable, Call
  <2>2. /\ ActsOn(store, store', k) /\ store'.value = store.value
        /\ Asked(store, store', ledger, k, ttl)
    BY <1>1, <2>1, ExtendTtlFacts DEF OnlyExtends
  <2>3. InUse(store', k) /\ (Has(store, k) => Has(store', k))
    BY <2>1, <2>2 DEF InUse, Has
  <2>4. Within(store, store, k, ledger + MaxFor(Lifecycle[k]))
    BY <2>1 DEF Within
  <2> QED
    BY <1>1, <2>1, <2>2, <2>3, <2>4 DEF AskEffect
<1>3. ASSUME NEW v \in Values, SetTtlCall(k, v, ttl) PROVE AskEffect(k)
  <2> DEFINE before == HostPut(store, ledger, k, v)
  <2>1. /\ store' = SetTtl(store, ledger, k, v, ttl)
        /\ Ask(k, ttl) /\ UNCHANGED <<ledger, touched, extended>>
    BY <1>3 DEF SetTtlCall, Call
  <2>2. /\ ActsOn(store, before, k) /\ Has(before, k)
        /\ Within(store, before, k, ledger + MaxFor(Lifecycle[k]))
    BY <1>1, PutFacts
  <2>3. /\ ActsOn(store, store', k)
        /\ store'.value = [store.value EXCEPT ![k] = v]
        /\ Asked(before, store', ledger, k, ttl)
    BY <1>1, <2>1, SetTtlFacts
  <2>4. Has(store', k)
    BY <1>1, <2>3, WrittenIsThere
  <2>5. before \in Stores
    BY <2>2 DEF ActsOn
  <2> HIDE DEF before
  <2> QED
    BY <1>1, <2>1, <2>2, <2>3, <2>4, <2>5 DEF AskEffect, InUse
<1> QED
  BY <1>2, <1>3

\* Every call has one of the three effects.
LEMMA CallHasEffect ==
  ASSUME TypeOK, NEW k \in Keys, CallOn(k)
  PROVE  PolicyEffect(k) \/ AskEffect(k) \/ RemoveEffect(k)
<1>1. store \in Stores
  BY DEF TypeOK
<1>2. CASE RemoveCall(k)
  <2>1. store' = Remove(store, k) /\ UNCHANGED ledger /\ Forget
    BY <1>2 DEF RemoveCall, Call
  <2>2. /\ store' \in Stores /\ store'.live = store.live
        /\ store'.value = [store.value EXCEPT ![k] = Absent]
    BY <1>1, <2>1, RemoveFacts DEF ActsOn
  <2>3. \A j \in Keys : Has(store', j) => Has(store, j)
    BY <1>1, <2>2, StoreIs DEF Has
  <2> QED
    BY <2>1, <2>2, <2>3 DEF RemoveEffect
<1>3. ASSUME NEW v \in Values, SetCall(k, v) PROVE PolicyEffect(k)
  BY <1>3, SetHasEffect DEF SetCall
<1>4. ASSUME NEW v \in Values, UpdateCall(k, v) PROVE PolicyEffect(k)
  <2> DEFINE f == [old \in Values \cup {Absent} |-> v]
  <2>1. f[store.value[k]] = v
    BY <1>1, StoreIs
  <2>2. store' = Set(store, ledger, k, v)
    BY <1>4, <2>1, UpdateIsSet DEF UpdateCall
  <2> QED
    BY <1>4, <2>2, SetHasEffect DEF UpdateCall
<1> QED
  BY <1>2, <1>3, <1>4, BumpHasEffect, AskHasEffect DEF CallOn

\* What a closing ledger does.
LEMMA CloseEffect ==
  ASSUME TypeOK, CloseLedger
  PROVE  /\ store' \in Stores /\ store'.live = store.live
         /\ ledger' = ledger + 1 /\ ledger' \in 1 .. MaxLedger
         /\ \A k \in Keys : Has(store', k) => Has(store, k)
         /\ Forget
<1>1. store \in Stores /\ ledger' = ledger + 1 /\ ledger' \in 1 .. MaxLedger
      /\ ledger' \in Nat
  BY StorageAssumption DEF TypeOK, CloseLedger
<1> QED
  BY <1>1, ExpireFacts DEF CloseLedger, Has

\* What a restoration does: it gives an archived slot a TTL again.
LEMMA RestoreEffect ==
  ASSUME TypeOK, NEW s \in Slots, Restore(s)
  PROVE  \E kind \in Kinds :
           /\ store' \in Stores /\ store'.value = store.value
           /\ store'.live = [store.live EXCEPT ![s] = ledger + MinTtl[kind]]
           /\ store.live[s] < ledger
           /\ UNCHANGED <<ledger, touched, extended, asked>>
           /\ \A k \in Keys : Slot(k) = s => Lifecycle[k] = kind
<1> DEFINE kind == IF s = Instance THEN "instance" ELSE "persistent"
<1>1. kind \in Kinds
  BY DEF Kinds
<1>2. \A k \in Keys : Slot(k) = s => Lifecycle[k] = kind
  BY SlotFacts DEF Restore
<1>3. \A k \in Keys : Lifecycle[k] = "instance" => s # k
  BY NamesAssumption DEF Restore
<1>4. /\ store' = Restored(store, ledger, s, kind) /\ store.live[s] < ledger
      /\ UNCHANGED <<ledger, touched, extended, asked>>
  BY DEF Restore, history
<1>5. store \in Stores /\ ledger \in Nat
  BY StorageAssumption DEF TypeOK
<1> HIDE DEF kind
<1> QED
  BY <1>1, <1>2, <1>3, <1>4, <1>5, RestoredFacts

\* A step is a call, a closing ledger, a restoration, or nothing.
LEMMA StepIs ==
  ASSUME [Next]_vars
  PROVE  \/ \E k \in Keys : CallOn(k)
         \/ CloseLedger
         \/ \E s \in Slots : Restore(s)
         \/ UNCHANGED vars
BY DEF Next, CallOn

(***************************************************************************)
(* The inductive invariant.  The properties need that a key with a history *)
(* still has its entry (a removed entry written anew starts over at the    *)
(* minimum TTL), and BumpsAreSpaced that the last extension by a policy    *)
(* has not been taken back.                                                *)
(***************************************************************************)
HistoryInv ==
  /\ \A k \in Keys : touched[k] # Never => Has(store, k)
  /\ \A k \in Keys : extended[k] # Never =>
       InUse(store, k) /\ store.live[Slot(k)] >= extended[k] + Target(k)
  /\ \A k \in Keys : ~InUse(store, k) => asked[Slot(k)] = 0

StorageInv ==
  HistoryInv /\ TouchedEntriesLive /\ TtlIsPredictable /\ AskedTtlsAreKept

\* The invariant and the types hold of a contract just deployed.
LEMMA InitStorage == Init => TypeOK /\ StorageInv
<1> SUFFICES ASSUME Init PROVE TypeOK /\ StorageInv
  OBVIOUS
<1>0. /\ Instance \in Slots /\ Keys \subseteq Slots /\ Instance \notin Keys
  BY NamesAssumption DEF Slots
<1>1. /\ MinTtl["instance"] \in Nat /\ MaxFor("instance") \in Nat
      /\ MinTtl["instance"] <= MaxFor("instance")
  BY OpsAssumption DEF Kinds, MaxFor
<1>2. /\ store = [value |-> store.value, live |-> store.live]
      /\ store.value = [k \in Keys |-> Absent]
      /\ store.live = [s \in Slots |->
                         IF s = Instance THEN 1 + MinTtl["instance"] ELSE 0]
      /\ ledger = 1 /\ asked = [s \in Slots |-> 0]
      /\ touched = [k \in Keys |-> Never] /\ extended = [k \in Keys |-> Never]
  BY DEF Init
<1>3. store.value \in [Keys -> Values \cup {Absent}]
  BY <1>2
<1>4. store.live \in [Slots -> Nat]
  BY <1>1, <1>2
<1>5. \A k \in Keys : store.live[k] = 0
  BY <1>0, <1>2
<1>6. store \in Stores
  BY <1>2, <1>3, <1>4, <1>5, StoreIs
<1>7. TypeOK
  BY <1>2, <1>6, StorageAssumption DEF TypeOK
<1>8. \A k \in Keys : /\ ~Has(store, k) /\ touched[k] = Never
                      /\ extended[k] = Never /\ asked[Slot(k)] = 0
  BY <1>2, SlotFacts DEF Has
<1>9. ASSUME NEW k \in Keys, InUse(store, k)
      PROVE  /\ store.live[Slot(k)] \in Nat
             /\ store.live[Slot(k)] <= ledger + MaxFor(Lifecycle[k])
  <2>1. Slot(k) = Instance /\ Lifecycle[k] = "instance"
    BY <1>8, <1>9, SlotFacts DEF InUse
  <2> QED
    BY <1>0, <1>1, <1>2, <2>1
<1>10. AskedTtlsAreKept
  BY <1>8, <1>9 DEF AskedTtlsAreKept
<1>11. ASSUME NEW k \in Keys
       PROVE  ledger + MaxFor(Lifecycle[k]) \in Nat
  BY <1>2, PolicyFacts
<1>12. TtlIsPredictable
  BY <1>8, <1>9, <1>11 DEF TtlIsPredictable, Greater
<1> QED
  BY <1>7, <1>8, <1>10, <1>12 DEF StorageInv, HistoryInv, TouchedEntriesLive

\* Of two keys on one slot, the one called is in use if the other is.
LEMMA SharedSlot ==
  ASSUME NEW s, NEW j \in Keys, NEW k \in Keys, Slot(j) = Slot(k)
  PROVE  /\ Lifecycle[j] = Lifecycle[k]
         /\ InUse(s, j) <=> InUse(s, k)
         /\ j # k => InUse(s, k)
BY SlotFacts DEF InUse

\* Other slots keep TTLs and entries; a TTL in use is not shortened.
LEMMA OtherSlots ==
  ASSUME NEW s \in Stores, NEW t, NEW j \in Keys, NEW k \in Keys, ActsOn(s, t, k)
  PROVE  /\ s.live[Slot(j)] \in Nat /\ t.live[Slot(j)] \in Nat
         /\ j # k => (Has(t, j) <=> Has(s, j))
         /\ Slot(j) # Slot(k) =>
              t.live[Slot(j)] = s.live[Slot(j)] /\ (InUse(t, j) <=> InUse(s, j))
         /\ InUse(s, j) => t.live[Slot(j)] >= s.live[Slot(j)]
<1>1. /\ s.live \in [Slots -> Nat] /\ t.live \in [Slots -> Nat]
      /\ Slot(j) \in Slots
  BY SlotFacts, StoreIs DEF ActsOn
<1>2. j # k => t.value[j] = s.value[j]
  BY DEF ActsOn
<1>3. Slot(j) # Slot(k) => t.live[Slot(j)] = s.live[Slot(j)]
  BY <1>1 DEF ActsOn
<1>4. Slot(j) = Slot(k) /\ InUse(s, j) => t.live[Slot(j)] >= s.live[Slot(j)]
  BY SharedSlot, SlotFacts DEF ActsOn, InUse
<1> QED
  BY <1>1, <1>2, <1>3, <1>4 DEF Has, InUse

\* Ledgers and TTLs to compare.
LEMMA Numbers ==
  ASSUME TypeOK, NEW k \in Keys
  PROVE  /\ ledger \in Nat /\ store \in Stores /\ Slot(k) \in Slots
         /\ store.live[Slot(k)] \in Nat /\ asked[Slot(k)] \in Nat
         /\ touched[k] \in Nat \cup {-1} /\ extended[k] \in Nat \cup {-1}
         /\ Never = -1
         /\ Target(k) \in Nat /\ Threshold[k] \in Nat /\ Guaranteed(k) \in Nat
         /\ MaxFor(Lifecycle[k]) \in Nat /\ Target(k) <= MaxFor(Lifecycle[k])
BY SlotFacts, StoreIs, PolicyFacts, StorageAssumption
DEF TypeOK, Never, Guaranteed, Lower

\* A call that the policy extends keeps types and invariant.
LEMMA PolicyKeeps ==
  ASSUME TypeOK, StorageInv, NEW k \in Keys, PolicyEffect(k)
  PROVE  TypeOK' /\ StorageInv'
<1>1. PICK before \in Stores :
        /\ Within(store, before, k, ledger + MaxFor(Lifecycle[k]))
        /\ InUse(store, k) => before.live[Slot(k)] = store.live[Slot(k)]
        /\ InUse(before, k) <=> InUse(store', k)
        /\ PolicyExtends(before, store', ledger, k)
        /\ store' # before => InUse(store', k)
        /\ Note(k, before)
  BY DEF PolicyEffect
<1>2. /\ ActsOn(store, store', k) /\ (Has(store, k) => Has(store', k))
      /\ UNCHANGED <<ledger, asked>> /\ store' \in Stores
      /\ \/ touched' = touched
         \/ /\ touched' = [touched EXCEPT ![k] = ledger]
            /\ Has(store', k) /\ Bumped(store', ledger, k)
  BY DEF PolicyEffect, ActsOn
<1>3. /\ ledger \in Nat /\ store \in Stores
      /\ before.live[Slot(k)] \in Nat /\ store'.live[Slot(k)] \in Nat
  BY <1>2, Numbers, SlotFacts, StoreIs
<1>4. TypeOK'
  BY <1>1, <1>2, <1>3 DEF TypeOK, Note
<1>5. \A j \in Keys : /\ Has(store, j) => Has(store', j)
                      /\ InUse(store, j) => InUse(store', j)
  BY <1>2, <1>3, OtherSlots DEF InUse
<1>6. ASSUME NEW j \in Keys, touched'[j] # Never
      PROVE  /\ Has(store', j)
             /\ store'.live[Slot(j)] >= touched'[j] + Guaranteed(j)
  <2>1. CASE touched'[j] = touched[j]
    <3>1. /\ Has(store, j) /\ InUse(store, j)
          /\ store.live[Slot(j)] >= touched[j] + Guaranteed(j)
      BY <1>6, <2>1
      DEF StorageInv, HistoryInv, TouchedEntriesLive, Guaranteed, InUse
    <3>2. store'.live[Slot(j)] >= store.live[Slot(j)]
          /\ store'.live[Slot(j)] \in Nat
      BY <1>2, <1>3, <3>1, OtherSlots
    <3> QED
      BY <1>5, <2>1, <3>1, <3>2, Numbers
  <2>2. CASE touched'[j] # touched[j]
    BY <1>2, <2>2 DEF TypeOK, Bumped
  <2> QED
    BY <2>1, <2>2
<1>7. ASSUME NEW j \in Keys, extended'[j] # Never
      PROVE  /\ InUse(store', j)
             /\ store'.live[Slot(j)] >= extended'[j] + Target(j)
  <2>1. CASE extended'[j] = extended[j]
    <3>1. /\ InUse(store, j)
          /\ store.live[Slot(j)] >= extended[j] + Target(j)
      BY <1>7, <2>1 DEF StorageInv, HistoryInv
    <3>2. store'.live[Slot(j)] >= store.live[Slot(j)]
          /\ store'.live[Slot(j)] \in Nat
      BY <1>2, <1>3, <3>1, OtherSlots
    <3> QED
      BY <1>5, <2>1, <3>1, <3>2, Numbers
  <2>2. CASE extended'[j] # extended[j]
    <3>1. /\ j = k /\ extended'[k] = ledger
          /\ store'.live[Slot(k)] > before.live[Slot(k)]
      BY <1>1, <2>2 DEF Note, TypeOK
    <3>2. store' # before /\ store'.live[Slot(k)] # before.live[Slot(k)]
      BY <1>3, <3>1
    <3>3. InUse(store', k) /\ store'.live[Slot(k)] = ledger + Target(k)
      BY <1>1, <3>2 DEF PolicyExtends
    <3> QED
      BY <1>3, <3>1, <3>3, Numbers
  <2> QED
    BY <2>1, <2>2
<1>8. ASSUME NEW j \in Keys, InUse(store', j)
      PROVE  store'.live[Slot(j)] <=
               Greater(ledger + MaxFor(Lifecycle[j]), asked[Slot(j)])
  <2>1. CASE Slot(j) # Slot(k)
    <3>1. InUse(store, j) /\ store'.live[Slot(j)] = store.live[Slot(j)]
      BY <1>2, <1>3, <1>8, <2>1, OtherSlots
    <3> QED
      BY <3>1 DEF StorageInv, TtlIsPredictable
  <2>2. CASE Slot(j) = Slot(k)
    <3>1. InUse(store', k) /\ Lifecycle[j] = Lifecycle[k]
      BY <1>8, <2>2, SharedSlot
    <3>2. CASE store'.live[Slot(k)] # before.live[Slot(k)]
      <4>1. store'.live[Slot(k)] = ledger + Target(k)
        BY <1>1, <3>2 DEF PolicyExtends
      <4> QED
        BY <1>3, <2>2, <3>1, <4>1, Numbers DEF Greater
    <3>3. CASE store'.live[Slot(k)] = before.live[Slot(k)]
      <4>1. \/ before.live[Slot(k)] <= ledger + MaxFor(Lifecycle[k])
            \/ InUse(store, k) /\ before.live[Slot(k)] = store.live[Slot(k)]
        BY <1>1, <3>1 DEF Within
      <4>2. InUse(store, k) =>
              store.live[Slot(k)] <=
                Greater(ledger + MaxFor(Lifecycle[k]), asked[Slot(k)])
        BY DEF StorageInv, TtlIsPredictable
      <4> QED
        BY <1>3, <2>2, <3>1, <3>3, <4>1, <4>2, Numbers DEF Greater
    <3> QED
      BY <3>2, <3>3
  <2> QED
    BY <2>1, <2>2
<1>9. ASSUME NEW j \in Keys, InUse(store', j)
      PROVE  store'.live[Slot(j)] >= asked[Slot(j)]
  <2>1. store'.live[Slot(j)] \in Nat /\ store.live[Slot(j)] \in Nat
        /\ (InUse(store, j) => store'.live[Slot(j)] >= store.live[Slot(j)])
    BY <1>2, <1>3, OtherSlots
  <2>2. /\ InUse(store, j) => store.live[Slot(j)] >= asked[Slot(j)]
        /\ ~InUse(store, j) => asked[Slot(j)] = 0
    BY DEF StorageInv, HistoryInv, AskedTtlsAreKept
  <2> QED
    BY <2>1, <2>2, Numbers
<1>10. \A j \in Keys : ~InUse(store', j) => asked[Slot(j)] = 0
  BY <1>5 DEF StorageInv, HistoryInv
<1> QED
  BY <1>2, <1>4, <1>6, <1>7, <1>8, <1>9, <1>10
  DEF StorageInv, HistoryInv, TouchedEntriesLive, TtlIsPredictable,
      AskedTtlsAreKept, Guaranteed

\* So does one that extends as its caller asks.
LEMMA AskKeeps ==
  ASSUME TypeOK, StorageInv, NEW k \in Keys, AskEffect(k)
  PROVE  TypeOK' /\ StorageInv'
<1>1. PICK before \in Stores, ttl \in Nat :
        /\ Within(store, before, k, ledger + MaxFor(Lifecycle[k]))
        /\ InUse(before, k)
        /\ Asked(before, store', ledger, k, ttl)
        /\ Ask(k, ttl)
  BY DEF AskEffect
<1> DEFINE until == ledger + Lower(ttl, MaxTtl[Lifecycle[k]])
<1>2. /\ ActsOn(store, store', k) /\ (Has(store, k) => Has(store', k))
      /\ UNCHANGED <<ledger, touched, extended>> /\ store' \in Stores
      /\ InUse(store', k)
  BY DEF AskEffect, ActsOn
<1>3. /\ ledger \in Nat /\ store \in Stores /\ until \in Nat
      /\ before.live[Slot(k)] \in Nat /\ store'.live[Slot(k)] \in Nat
  BY <1>2, Numbers, SlotFacts, StoreIs, PolicyFacts DEF Lower
<1>4. /\ asked' = [asked EXCEPT ![Slot(k)] = Greater(asked[Slot(k)], until)]
      /\ asked \in [Slots -> Nat] /\ Slot(k) \in Slots
      /\ store'.live[Slot(k)] >= until
      /\ \/ store'.live[Slot(k)] = before.live[Slot(k)]
         \/ store'.live[Slot(k)] = until
  BY <1>1, SlotFacts DEF Ask, Asked, TypeOK
<1> HIDE DEF until
<1>5. asked' \in [Slots -> Nat]
  BY <1>3, <1>4 DEF Greater
<1>6. TypeOK'
  BY <1>2, <1>5 DEF TypeOK
<1>7. \A j \in Keys : /\ Has(store, j) => Has(store', j)
                      /\ InUse(store, j) => InUse(store', j)
  BY <1>2, <1>3, OtherSlots DEF InUse
<1>8. \A j \in Keys : InUse(store, j) =>
        /\ store'.live[Slot(j)] >= store.live[Slot(j)]
        /\ store'.live[Slot(j)] \in Nat
  BY <1>2, <1>3, OtherSlots
<1>9. ASSUME NEW j \in Keys, touched[j] # Never
      PROVE  /\ Has(store', j)
             /\ store'.live[Slot(j)] >= touched[j] + Guaranteed(j)
  <2>1. /\ Has(store, j) /\ InUse(store, j)
        /\ store.live[Slot(j)] >= touched[j] + Guaranteed(j)
    BY <1>9 DEF StorageInv, HistoryInv, TouchedEntriesLive, Guaranteed, InUse
  <2> QED
    BY <1>7, <1>8, <2>1, Numbers
<1>10. ASSUME NEW j \in Keys, extended[j] # Never
       PROVE  /\ InUse(store', j)
              /\ store'.live[Slot(j)] >= extended[j] + Target(j)
  <2>1. InUse(store, j) /\ store.live[Slot(j)] >= extended[j] + Target(j)
    BY <1>10 DEF StorageInv, HistoryInv
  <2> QED
    BY <1>7, <1>8, <2>1, Numbers
<1>11. ASSUME NEW j \in Keys, InUse(store', j)
       PROVE  /\ store'.live[Slot(j)] <=
                   Greater(ledger + MaxFor(Lifecycle[j]), asked'[Slot(j)])
              /\ store'.live[Slot(j)] >= asked'[Slot(j)]
  <2>1. /\ InUse(store, j) =>
             /\ store.live[Slot(j)] >= asked[Slot(j)]
             /\ store.live[Slot(j)] <=
                  Greater(ledger + MaxFor(Lifecycle[j]), asked[Slot(j)])
        /\ ~InUse(store, j) => asked[Slot(j)] = 0
    BY DEF StorageInv, HistoryInv, TtlIsPredictable, AskedTtlsAreKept
  <2>2. CASE Slot(j) # Slot(k)
    <3>1. InUse(store, j) /\ store'.live[Slot(j)] = store.live[Slot(j)]
      BY <1>2, <1>3, <1>11, <2>2, OtherSlots
    <3>2. asked'[Slot(j)] = asked[Slot(j)]
      BY <1>4, <2>2, SlotFacts
    <3> QED
      BY <2>1, <3>1, <3>2
  <2>3. CASE Slot(j) = Slot(k)
    <3>1. /\ Lifecycle[j] = Lifecycle[k] /\ (InUse(store, j) <=> InUse(store, k))
          /\ asked'[Slot(j)] = Greater(asked[Slot(j)], until)
      BY <1>4, <2>3, SharedSlot
    <3>2. store'.live[Slot(j)] >= asked'[Slot(j)]
      BY <1>3, <1>4, <1>8, <2>1, <2>3, <3>1, Numbers DEF Greater
    <3>3. \/ before.live[Slot(k)] <= ledger + MaxFor(Lifecycle[k])
          \/ InUse(store, k) /\ before.live[Slot(k)] = store.live[Slot(k)]
      BY <1>1 DEF Within
    <3>4. store'.live[Slot(j)] <=
            Greater(ledger + MaxFor(Lifecycle[j]), asked'[Slot(j)])
      BY <1>3, <1>4, <2>1, <2>3, <3>1, <3>3, Numbers DEF Greater
    <3> QED
      BY <3>2, <3>4
  <2> QED
    BY <2>2, <2>3
<1>12. ASSUME NEW j \in Keys, ~InUse(store', j) PROVE asked'[Slot(j)] = 0
  <2>1. asked[Slot(j)] = 0
    BY <1>7, <1>12 DEF StorageInv, HistoryInv
  <2>2. Slot(j) # Slot(k)
    BY <1>2, <1>12, SharedSlot
  <2> QED
    BY <1>4, <2>1, <2>2, SlotFacts
<1> QED
  BY <1>2, <1>6, <1>9, <1>10, <1>11, <1>12
  DEF StorageInv, HistoryInv, TouchedEntriesLive, TtlIsPredictable,
      AskedTtlsAreKept, Guaranteed

\* A removal and a closing ledger change no TTL, and what is gone is forgotten.
LEMMA ForgetKeeps ==
  ASSUME TypeOK, StorageInv, store' \in Stores, store'.live = store.live,
         ledger' \in 1 .. MaxLedger, ledger' >= ledger,
         \A k \in Keys : Has(store', k) => Has(store, k),
         Forget
  PROVE  TypeOK' /\ StorageInv'
<1>1. /\ touched' = [k \in Keys |-> IF Has(store', k) THEN touched[k]
                                                      ELSE Never]
      /\ extended' = [k \in Keys |-> IF InUse(store', k) THEN extended[k]
                                                         ELSE Never]
      /\ asked' = [s \in Slots |-> IF s \in Keys /\ ~Has(store', s) THEN 0
                                                                   ELSE asked[s]]
  BY DEF Forget
<1>2. TypeOK'
  BY <1>1 DEF TypeOK
<1>3. \A k \in Keys : InUse(store', k) => InUse(store, k)
  BY DEF InUse
<1>4. \A k \in Keys : asked'[Slot(k)] = IF InUse(store', k) THEN asked[Slot(k)]
                                                            ELSE 0
  BY <1>1, SlotFacts, NamesAssumption DEF InUse
<1>5. ledger \in Nat /\ ledger' \in Nat
  BY StorageAssumption DEF TypeOK
<1>6. HistoryInv'
  BY <1>1, <1>3, <1>4 DEF StorageInv, HistoryInv
<1>7. TouchedEntriesLive'
  BY <1>1 DEF StorageInv, TouchedEntriesLive
<1>8. TtlIsPredictable'
  <2> SUFFICES ASSUME NEW k \in Keys, InUse(store', k)
               PROVE  store.live[Slot(k)] <=
                        Greater(ledger' + MaxFor(Lifecycle[k]), asked[Slot(k)])
    BY <1>4 DEF TtlIsPredictable
  <2>1. store.live[Slot(k)] <=
          Greater(ledger + MaxFor(Lifecycle[k]), asked[Slot(k)])
    BY <1>3 DEF StorageInv, TtlIsPredictable
  <2> QED
    BY <1>5, <2>1, Numbers DEF Greater
<1>9. AskedTtlsAreKept'
  BY <1>3, <1>4 DEF StorageInv, AskedTtlsAreKept
<1> QED
  BY <1>2, <1>6, <1>7, <1>8, <1>9 DEF StorageInv

\* Every call keeps types and invariant.
LEMMA CallKeepsStorage ==
  ASSUME TypeOK, StorageInv, NEW k \in Keys, CallOn(k)
  PROVE  TypeOK' /\ StorageInv'
<1>1. ledger \in 1 .. MaxLedger /\ ledger \in Nat
  BY StorageAssumption DEF TypeOK
<1>2. CASE RemoveEffect(k)
  BY <1>1, <1>2, ForgetKeeps DEF RemoveEffect
<1> QED
  BY <1>2, CallHasEffect, PolicyKeeps, AskKeeps

\* So does a closing ledger.
LEMMA CloseKeepsStorage ==
  ASSUME TypeOK, StorageInv, CloseLedger
  PROVE  TypeOK' /\ StorageInv'
<1>1. ledger \in Nat
  BY StorageAssumption DEF TypeOK
<1> QED
  BY <1>1, CloseEffect, ForgetKeeps

\* And a restoration: it raises one slot to its minimum TTL.
LEMMA RestoreKeepsStorage ==
  ASSUME TypeOK, StorageInv, NEW s \in Slots, Restore(s)
  PROVE  TypeOK' /\ StorageInv'
<1>1. PICK kind \in Kinds :
           /\ store' \in Stores /\ store'.value = store.value
           /\ store'.live = [store.live EXCEPT ![s] = ledger + MinTtl[kind]]
           /\ store.live[s] < ledger
           /\ UNCHANGED <<ledger, touched, extended, asked>>
           /\ \A k \in Keys : Slot(k) = s => Lifecycle[k] = kind
  BY RestoreEffect
<1>2. ledger \in Nat /\ store.live \in [Slots -> Nat]
  BY StorageAssumption, StoreIs DEF TypeOK
<1>3. TypeOK'
  BY <1>1 DEF TypeOK
<1>4. MinTtl[kind] \in Nat /\ MaxFor(kind) \in Nat /\ MinTtl[kind] <= MaxFor(kind)
  BY OpsAssumption DEF MaxFor
<1>5. \A k \in Keys :
        /\ store'.live[Slot(k)] \in Nat
        /\ store'.live[Slot(k)] >= store.live[Slot(k)]
        /\ \/ store'.live[Slot(k)] = store.live[Slot(k)]
           \/ store'.live[Slot(k)] <= ledger + MaxFor(Lifecycle[k])
  BY <1>1, <1>2, <1>4, SlotFacts
<1>6. \A k \in Keys : /\ Has(store', k) <=> Has(store, k)
                      /\ InUse(store', k) <=> InUse(store, k)
  BY <1>1 DEF Has, InUse
<1>7. TouchedEntriesLive'
  <2> SUFFICES ASSUME NEW k \in Keys, touched[k] # Never
               PROVE  store'.live[Slot(k)] >= touched[k] + Guaranteed(k)
    BY <1>1 DEF TouchedEntriesLive, Guaranteed
  <2>1. store.live[Slot(k)] >= touched[k] + Guaranteed(k)
    BY DEF StorageInv, TouchedEntriesLive, Guaranteed
  <2> QED
    BY <1>5, <2>1, Numbers
<1>8. HistoryInv'
  <2>1. ASSUME NEW k \in Keys, extended[k] # Never
        PROVE  /\ InUse(store', k)
               /\ store'.live[Slot(k)] >= extended[k] + Target(k)
    <3>1. InUse(store, k) /\ store.live[Slot(k)] >= extended[k] + Target(k)
      BY <2>1 DEF StorageInv, HistoryInv
    <3> QED
      BY <1>5, <1>6, <3>1, Numbers
  <2> QED
    BY <1>1, <1>6, <2>1 DEF StorageInv, HistoryInv
<1>9. ASSUME NEW k \in Keys, InUse(store', k)
      PROVE  /\ store'.live[Slot(k)] <=
                  Greater(ledger + MaxFor(Lifecycle[k]), asked[Slot(k)])
             /\ store'.live[Slot(k)] >= asked[Slot(k)]
  <2>1. /\ store.live[Slot(k)] >= asked[Slot(k)]
        /\ store.live[Slot(k)] <=
             Greater(ledger + MaxFor(Lifecycle[k]), asked[Slot(k)])
    BY <1>6, <1>9 DEF StorageInv, TtlIsPredictable, AskedTtlsAreKept
  <2> QED
    BY <1>5, <2>1, Numbers DEF Greater
<1> QED
  BY <1>1, <1>3, <1>7, <1>8, <1>9
  DEF StorageInv, TtlIsPredictable, AskedTtlsAreKept

\* Types and invariant hold throughout.
LEMMA StorageInvariant == Spec => [](TypeOK /\ StorageInv)
<1>1. TypeOK /\ StorageInv /\ [Next]_vars => (TypeOK /\ StorageInv)'
  <2> SUFFICES ASSUME TypeOK, StorageInv, [Next]_vars
               PROVE  TypeOK' /\ StorageInv'
    OBVIOUS
  <2>1. CASE UNCHANGED vars
    BY <2>1 DEF vars, history, TypeOK, StorageInv, HistoryInv,
                TouchedEntriesLive, TtlIsPredictable, AskedTtlsAreKept, InUse, Has
  <2> QED
    BY <2>1, StepIs, CallKeepsStorage, CloseKeepsStorage, RestoreKeepsStorage
<1> QED
  BY <1>1, InitStorage, PTL DEF Spec

(***************************************************************************)
(* Every variable keeps its type, and an instance entry never gets a TTL   *)
(* slot of its own.                                                        *)
(***************************************************************************)
THEOREM TypeCorrect == Spec => []TypeOK
BY StorageInvariant, PTL

(***************************************************************************)
(* Bump-on-access works: an entry accessed lives for the threshold of its  *)
(* policy from then on, whatever calls come in between.                    *)
(***************************************************************************)
THEOREM AccessKeepsAlive == Spec => []TouchedEntriesLive
<1>1. StorageInv => TouchedEntriesLive
  BY DEF StorageInv
<1> QED
  BY <1>1, StorageInvariant, PTL

(***************************************************************************)
(* Policies are predictable: unless a caller asked for more, no entry is   *)
(* given more than the code's constant for its lifecycle, whatever its     *)
(* policy declares and whatever maximum the network has.                   *)
(***************************************************************************)
THEOREM PoliciesArePredictable == Spec => []TtlIsPredictable
<1>1. StorageInv => TtlIsPredictable
  BY DEF StorageInv
<1> QED
  BY <1>1, StorageInvariant, PTL

(***************************************************************************)
(* What a caller asked for, as far as the network allows it, is kept.      *)
(***************************************************************************)
THEOREM AskedIsKept == Spec => []AskedTtlsAreKept
<1>1. StorageInv => AskedTtlsAreKept
  BY DEF StorageInv
<1> QED
  BY <1>1, StorageInvariant, PTL

(***************************************************************************)
(* No call, expiry or restoration shortens the life of an entry that it    *)
(* leaves in place.                                                        *)
(***************************************************************************)
THEOREM TtlOnlyGrows == Spec => TtlNeverShrinks
<1>1. ASSUME TypeOK, TypeOK', [Next]_vars, NEW k \in Keys, Has(store, k),
             Has(store, k)'
      PROVE  store'.live[Slot(k)] >= store.live[Slot(k)]
  <2>1. /\ Slot(k) \in Slots /\ store \in Stores /\ store.live \in [Slots -> Nat]
        /\ store'.live \in [Slots -> Nat] /\ ledger \in Nat
    BY <1>1, SlotFacts, StoreIs, StorageAssumption DEF TypeOK
  <2>2. ASSUME NEW j \in Keys, CallOn(j)
        PROVE  store'.live[Slot(k)] >= store.live[Slot(k)]
    <3>1. ActsOn(store, store', j) \/ store'.live = store.live
      BY <1>1, <2>2, CallHasEffect DEF PolicyEffect, AskEffect, RemoveEffect
    <3>2. CASE ActsOn(store, store', j)
      BY <1>1, <2>1, <3>2, OtherSlots DEF InUse
    <3> QED
      BY <2>1, <3>1, <3>2
  <2>3. CASE CloseLedger
    BY <1>1, <2>1, <2>3, CloseEffect
  <2>4. ASSUME NEW s \in Slots, Restore(s)
        PROVE  store'.live[Slot(k)] >= store.live[Slot(k)]
    <3>1. PICK kind \in Kinds :
            /\ store'.live = [store.live EXCEPT ![s] = ledger + MinTtl[kind]]
            /\ store.live[s] < ledger
      BY <1>1, <2>4, RestoreEffect
    <3>2. MinTtl[kind] \in Nat
      BY OpsAssumption
    <3> QED
      BY <2>1, <3>1, <3>2
  <2>5. CASE UNCHANGED vars
    BY <2>1, <2>5 DEF vars
  <2> QED
    BY <1>1, <2>2, <2>3, <2>4, <2>5, StepIs
<1>2. TypeOK /\ TypeOK' /\ [Next]_vars =>
        [\A k \in Keys : Has(store, k) /\ Has(store, k)' =>
           store'.live[Slot(k)] >= store.live[Slot(k)]]_vars
  BY <1>1
<1> QED
  BY <1>2, TypeCorrect, PTL DEF Spec, TtlNeverShrinks

(***************************************************************************)
(* Bump-on-access is cheap: between two extensions of a key by its policy  *)
(* lies more than the distance of target and threshold.                    *)
(***************************************************************************)
THEOREM BumpsAreFew == Spec => BumpsAreSpaced
<1>1. ASSUME TypeOK, StorageInv, [Next]_vars, NEW k \in Keys,
             extended'[k] # extended[k], extended[k] # Never,
             extended'[k] # Never
      PROVE  extended'[k] - extended[k] > Target(k) - Threshold[k]
  <2>1. InUse(store, k) /\ store.live[Slot(k)] >= extended[k] + Target(k)
    BY <1>1 DEF StorageInv, HistoryInv
  <2>2. ~Forget
    BY <1>1 DEF Forget
  <2>3. ~CloseLedger /\ ~UNCHANGED vars
    BY <1>1, <2>2 DEF CloseLedger, vars, history
  <2>4. \A s \in Slots : ~Restore(s)
    BY <1>1, RestoreEffect
  <2>5. PICK j \in Keys : PolicyEffect(j)
    BY <1>1, <2>2, <2>3, <2>4, StepIs, CallHasEffect
    DEF AskEffect, RemoveEffect
  <2>6. PICK before \in Stores :
          /\ InUse(store, j) => before.live[Slot(j)] = store.live[Slot(j)]
          /\ PolicyExtends(before, store', ledger, j)
          /\ Note(j, before)
    BY <2>5 DEF PolicyEffect
  <2>7. /\ j = k /\ extended'[k] = ledger
        /\ store'.live[Slot(k)] > before.live[Slot(k)]
    BY <1>1, <2>6 DEF Note, TypeOK
  <2>8. before.live[Slot(k)] \in Nat /\ store'.live[Slot(k)] \in Nat
    BY <2>6, <2>7, SlotFacts, StoreIs DEF PolicyExtends, OnlyExtends, ActsOn
  <2>9. before.live[Slot(k)] = store.live[Slot(k)]
        /\ before.live[Slot(k)] - ledger < Threshold[k]
    BY <2>1, <2>6, <2>7, <2>8 DEF PolicyExtends
  <2> QED
    BY <1>1, <2>1, <2>7, <2>9, Numbers
<1>2. TypeOK /\ StorageInv /\ [Next]_vars =>
        [\A k \in Keys :
           extended'[k] # extended[k] /\ Never \notin {extended[k], extended'[k]} =>
             extended'[k] - extended[k] > Target(k) - Threshold[k]]_vars
  BY <1>1
<1> QED
  BY <1>2, StorageInvariant, PTL DEF Spec, BumpsAreSpaced
=============================================================================
