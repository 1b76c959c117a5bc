-------------------------- MODULE ContractStorage ---------------------------
(***************************************************************************)
(* A contract using the accessors that storage! generates, one call per    *)
(* transaction, while ledgers close, temporary entries are deleted and     *)
(* others archived and restored.  A call that reaches an archived entry,   *)
(* or that the host would refuse, never takes effect.                      *)
(***************************************************************************)
EXTENDS StorageOps

CONSTANTS
  Ttls,       \* TTLs passed to set_ttl and extend_ttl
  MaxLedger   \* bound: the last ledger the model closes

ASSUME StorageAssumption == Ttls \subseteq Nat /\ MaxLedger \in Nat \ {0}

VARIABLES
  ledger,     \* the current ledger
  store,      \* values and TTLs
  touched,    \* history: the ledger of each key's last bumping access
  extended,   \* history: the ledger in which its policy last extended it
  asked       \* history: how long set_ttl and extend_ttl asked a slot to live

history == <<touched, extended, asked>>
vars == <<ledger, store, history>>

Never == -1

Init ==
  /\ ledger = 1
  /\ store = [value |-> [k \in Keys |-> Absent],
              live  |-> [s \in Slots |->
                           IF s = Instance THEN 1 + MinTtl["instance"] ELSE 0]]
  /\ touched = [k \in Keys |-> Never]
  /\ extended = [k \in Keys |-> Never]
  /\ asked = [s \in Slots |-> 0]

Call(k) == Accessible(store, ledger, k) /\ UNCHANGED ledger

\* A bumping access to an entry that is there (afterwards).
Touch(k) ==
  touched' = IF k \in AutoBump /\ Has(store', k)
               THEN [touched EXCEPT ![k] = ledger] ELSE touched

\* The policy of k extended the store that was there before it was applied.
Note(k, before) ==
  extended' = IF store'.live[Slot(k)] > before.live[Slot(k)]
                THEN [extended EXCEPT ![k] = ledger] ELSE extended

\* The network maximum limits what a caller can ask for.
Ask(k, ttl) ==
  asked' = [asked EXCEPT ![Slot(k)] =
              Greater(@, ledger + Lower(ttl, MaxTtl[Lifecycle[k]]))]

\* An entry that is gone has no history.
Forget ==
  /\ touched' = [k \in Keys |-> IF Has(store', k) THEN touched[k] ELSE Never]
  /\ extended' = [k \in Keys |-> IF InUse(store', k) THEN extended[k]
                                                     ELSE Never]
  /\ asked' = [s \in Slots |-> IF s \in Keys /\ ~Has(store', s) THEN 0
                                                               ELSE asked[s]]

GetCall(k) ==
  /\ Call(k)
  /\ store' = Get(store, ledger, k)
  /\ Touch(k) /\ Note(k, store) /\ UNCHANGED asked

SetCall(k, v) ==
  /\ Call(k)
  /\ store' = Set(store, ledger, k, v)
  /\ Touch(k) /\ Note(k, HostPut(store, ledger, k, v)) /\ UNCHANGED asked

UpdateCall(k, v) ==
  /\ Call(k)
  /\ store' = Update(store, ledger, k,
                     [old \in Values \cup {Absent} |-> v])
  /\ Touch(k) /\ Note(k, HostPut(store, ledger, k, v)) /\ UNCHANGED asked

SetTtlCall(k, v, ttl) ==
  /\ Call(k)
  /\ store' = SetTtl(store, ledger, k, v, ttl)
  /\ Ask(k, ttl) /\ UNCHANGED <<touched, extended>>

RemoveCall(k) ==
  /\ Call(k)
  /\ store' = Remove(store, k)
  /\ Forget

\* The host refuses to extend an entry that is not there.
Extendable(k) == InUse(store, k)

BumpCall(k) ==
  /\ Extendable(k)
  /\ Call(k)
  /\ store' = Bump(store, ledger, k)
  /\ Note(k, store) /\ UNCHANGED <<touched, asked>>

ExtendTtlCall(k, ttl) ==
  /\ Extendable(k)
  /\ Call(k)
  /\ store' = ExtendTtl(store, ledger, k, ttl)
  /\ Ask(k, ttl) /\ UNCHANGED <<touched, extended>>

CloseLedger ==
  /\ ledger < MaxLedger
  /\ ledger' = ledger + 1
  /\ store' = Expire(store, ledger')
  /\ Forget

\* An archived slot in use is restored, by a RestoreFootprintOp or by the
\* network itself.
Restore(slot) ==
  /\ store.live[slot] < ledger
  /\ slot \in {Instance} \cup
             {k \in Keys : Lifecycle[k] = "persistent" /\ Has(store, k)}
  /\ store' = Restored(store, ledger, slot,
                       IF slot = Instance THEN "instance" ELSE "persistent")
  /\ UNCHANGED <<ledger, history>>

Next ==
  \/ \E k \in Keys :
       \/ GetCall(k) \/ RemoveCall(k) \/ BumpCall(k)
       \/ \E v \in Values : SetCall(k, v) \/ UpdateCall(k, v)
       \/ \E ttl \in Ttls : ExtendTtlCall(k, ttl)
       \/ \E v \in Values, ttl \in Ttls : SetTtlCall(k, v, ttl)
  \/ CloseLedger
  \/ \E s \in Slots : Restore(s)

Spec == Init /\ [][Next]_vars
-----------------------------------------------------------------------------
(* Properties *)

\* The type of every variable; an instance entry has no TTL of its own.
TypeOK ==
  /\ ledger \in 1 .. MaxLedger
  /\ store \in Stores
  /\ touched \in [Keys -> Nat \cup {Never}]
  /\ extended \in [Keys -> Nat \cup {Never}]
  /\ asked \in [Slots -> Nat]

(***************************************************************************)
(* Bump-on-access works: after a get, set or update of an auto-bumped key  *)
(* its entry, and for an instance key the contract with all its instance   *)
(* data, lives for the policy's threshold from that ledger on (or for the  *)
(* target, if that is shorter), whatever other calls come in between.      *)
(***************************************************************************)
TouchedEntriesLive ==
  \A k \in Keys : touched[k] # Never =>
    store.live[Slot(k)] >= touched[k] + Lower(Threshold[k], Target(k))

(***************************************************************************)
(* "The host clamps anyway; this makes the policy predictable" (ttl.rs,    *)
(* clamped_for): whatever a policy declares and whatever maximum the       *)
(* network has, an entry lives longer than the code's constant for its     *)
(* lifecycle only when a caller of set_ttl or extend_ttl asked for it.     *)
(***************************************************************************)
TtlIsPredictable ==
  \A k \in Keys : InUse(store, k) =>
    store.live[Slot(k)] <=
      Greater(ledger + MaxFor(Lifecycle[k]), asked[Slot(k)])

(***************************************************************************)
(* What set_ttl and extend_ttl ask for is kept, "at least" (ops.rs), as    *)
(* far as the network allows and however little the policy declares:       *)
(* while an entry is in use, no later call, by whichever accessor or, for  *)
(* the instance, on whichever key, leaves it with less.                    *)
(***************************************************************************)
AskedTtlsAreKept ==
  \A k \in Keys : InUse(store, k) => store.live[Slot(k)] >= asked[Slot(k)]

(***************************************************************************)
(* No call shortens the life of an entry that it leaves in place, not even *)
(* set_ttl with less than the entry already has (ops.rs extend_ttl; its    *)
(* comment on set_ttl, "pins its TTL to exactly", says otherwise).         *)
(***************************************************************************)
TtlNeverShrinks ==
  [][\A k \in Keys : Has(store, k) /\ Has(store, k)' =>
       store'.live[Slot(k)] >= store.live[Slot(k)]]_vars

(***************************************************************************)
(* Bump-on-access is cheap: "entries that were recently touched are not    *)
(* re-extended on every read" (ttl.rs).  However a key is read, written    *)
(* and bumped, its policy extends it again only more than the distance of  *)
(* target and threshold after it last did.                                 *)
(***************************************************************************)
BumpsAreSpaced ==
  [][\A k \in Keys :
       extended'[k] # extended[k] /\ Never \notin {extended[k], extended'[k]} =>
         extended'[k] - extended[k] > Target(k) - Threshold[k]]_vars

(***************************************************************************)
(* "callers do not get an implicit policy bump on later reads unless they  *)
(* also call bump" (ops.rs:75) of an entry only ever written with set_ttl. *)
(* The code does not keep this.                                            *)
(***************************************************************************)
NoBumpAfterSetTtl ==
  [][\A k \in AutoBump :
       /\ Has(store, k) /\ touched[k] = Never /\ extended[k] = Never
       /\ GetCall(k)
       => store'.live[Slot(k)] = store.live[Slot(k)]]_vars
=============================================================================
