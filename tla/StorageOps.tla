----------------------------- MODULE StorageOps -----------------------------
(***************************************************************************)
(* The storage operations of the framework (soroban-storage/src/ops.rs and *)
(* ttl.rs) as functions of a store, on top of what the Soroban host does   *)
(* for them (external, as ops.rs and ttl.rs use and describe it).          *)
(*                                                                         *)
(* A store has the value of every key and the live_until ledger of every   *)
(* TTL slot: a persistent or temporary entry has a slot of its own, all    *)
(* instance entries share the one of the contract instance.                *)
(***************************************************************************)
EXTENDS Integers

CONSTANTS
  Keys,        \* storage keys of the contract
  Values,      \* values an entry may have
  Lifecycle,   \* Lifecycle[k]: the declared lifecycle (XKey::LIFECYCLE)
  AutoBump,    \* keys declared with automatic bumping (XKey::AUTO_BUMP)
  Threshold,   \* Threshold[k], ExtendTo[k]: the declared policy (XKey::POLICY)
  ExtendTo,
  MinTtl,      \* MinTtl[c]: TTL of a new or restored entry of lifecycle c
  MaxTtl,      \* MaxTtl[c]: the network's own maximum, changed by upgrades
  MAX_TEMP_TTL,        \* what the code takes the maxima to be
  MAX_PERSISTENT_TTL,
  Absent,      \* what a key without an entry has for a value
  Instance     \* the TTL slot of the contract instance

Kinds == {"temporary", "persistent", "instance"}

\* The code's maximum for lifecycle c.
MaxFor(c) == IF c = "temporary" THEN MAX_TEMP_TTL ELSE MAX_PERSISTENT_TTL

ASSUME OpsAssumption ==
  /\ Lifecycle \in [Keys -> Kinds]
  /\ AutoBump \subseteq Keys
  /\ Threshold \in [Keys -> Nat] /\ ExtendTo \in [Keys -> Nat]
  /\ MinTtl \in [Kinds -> Nat] /\ MaxTtl \in [Kinds -> Nat]
  /\ MAX_TEMP_TTL \in Nat /\ MAX_PERSISTENT_TTL \in Nat
  /\ \A c \in Kinds : MinTtl[c] <= MaxTtl[c] /\ MinTtl[c] <= MaxFor(c)

ASSUME NamesAssumption == Absent \notin Values /\ Instance \notin Keys

Slots == Keys \cup {Instance}

\* Mutant: instance entries have slots of their own, too.
MutSlot(k) == k

Slot(k) == IF Lifecycle[k] = "instance" THEN Instance ELSE k

Stores == {s \in [value: [Keys -> Values \cup {Absent}], live: [Slots -> Nat]] :
             \A k \in Keys : Lifecycle[k] = "instance" => s.live[k] = 0}

Has(store, k) == store.value[k] # Absent

\* A TTL that matters: that of an entry that is there, or of the instance.
InUse(store, k) == Has(store, k) \/ Slot(k) = Instance

Lower(a, b) == IF a <= b THEN a ELSE b
Greater(a, b) == IF a <= b THEN b ELSE a
-----------------------------------------------------------------------------
(* The host (external) *)

\* An access needs a live instance, and an entry it reaches must be live.
Accessible(store, now, k) ==
  /\ store.live[Instance] >= now
  /\ Has(store, k) => store.live[Slot(k)] >= now

\* A new entry starts with the minimum TTL, an existing one keeps its own.
HostPut(store, now, k, v) ==
  [value |-> [store.value EXCEPT ![k] = v],
   live  |-> IF Has(store, k) \/ Slot(k) = Instance THEN store.live
             ELSE [store.live EXCEPT ![k] = now + MinTtl[Lifecycle[k]]]]

\* extend_ttl: only a TTL below the threshold is extended, never past the
\* network maximum, which clamps silently; a TTL is not shortened.
HostExtend(store, now, k, threshold, extendTo) ==
  LET target == now + Lower(extendTo, MaxTtl[Lifecycle[k]]) IN
  IF store.live[Slot(k)] - now < threshold /\ store.live[Slot(k)] < target
    THEN [store EXCEPT !.live[Slot(k)] = target]
    ELSE store

\* The ledger closes: temporary entries past their TTL are deleted, others
\* stay, archived, until they are restored with the minimum TTL.
Expire(store, now) ==
  [store EXCEPT !.value = [k \in Keys |->
     IF Lifecycle[k] = "temporary" /\ store.live[k] < now
       THEN Absent ELSE store.value[k]]]

Restored(store, now, slot, kind) ==
  [store EXCEPT !.live[slot] = now + MinTtl[kind]]
-----------------------------------------------------------------------------
(* ops.rs *)

\* Mutant: the policy is passed on as it was declared.
MutClampedExtendTo(k) == ExtendTo[k]

\* TtlPolicy::clamped_for
ClampedExtendTo(k) == Lower(ExtendTo[k], MaxFor(Lifecycle[k]))

\* The TTL a bump extends to, where it extends.
Target(k) == Lower(ClampedExtendTo(k), MaxTtl[Lifecycle[k]])

\* Mutant: the target is the threshold, too, as in extend_ttl.
MutEagerBump(store, now, k) ==
  HostExtend(store, now, k, ClampedExtendTo(k), ClampedExtendTo(k))

\* Mutant: an instance key's bump extends the slot of the key itself.
MutBump(store, now, k) ==
  IF Lifecycle[k] = "instance" THEN store
  ELSE HostExtend(store, now, k, Threshold[k], ClampedExtendTo(k))

Bump(store, now, k) ==
  HostExtend(store, now, k, Threshold[k], ClampedExtendTo(k))

\* Mutant: the policy's threshold, not the target.
MutExtendTtl(store, now, k, ttl) ==
  HostExtend(store, now, k, Threshold[k], ttl)

ExtendTtl(store, now, k, ttl) == HostExtend(store, now, k, ttl, ttl)

AutoBumped(store, now, k) ==
  IF k \in AutoBump THEN Bump(store, now, k) ELSE store

\* What get leaves behind; its result is store.value[k].
Get(store, now, k) ==
  IF Has(store, k) THEN AutoBumped(store, now, k) ELSE store

\* set, and update with a function of the old value: the store, bumped.
Set(store, now, k, v) == AutoBumped(HostPut(store, now, k, v), now, k)

Update(store, now, k, f) ==
  AutoBumped(HostPut(store, now, k, f[store.value[k]]), now, k)

Remove(store, k) == [store EXCEPT !.value[k] = Absent]

\* Mutant: the old entry is removed first, to have exactly the new TTL.
MutSetTtl(store, now, k, v, ttl) ==
  ExtendTtl(HostPut(Remove(store, k), now, k, v), now, k, ttl)

\* The store, extended; what the entry had left beyond ttl it keeps.
SetTtl(store, now, k, v, ttl) ==
  ExtendTtl(HostPut(store, now, k, v), now, k, ttl)
=============================================================================
