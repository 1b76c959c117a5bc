---------------------------- MODULE StellarLedger ----------------------------
(***************************************************************************)
(* The part of the Stellar network the rent keeper works against, modelled *)
(* from how src/ uses it (external code):                                  *)
(*   ledger   the sequence number of the last closed ledger,               *)
(*   live     live_until_ledger of every watched entry,                    *)
(*   mempool  the signer's extension transactions the network has accepted *)
(*            and not yet applied or forgotten.                            *)
(* A Stellar account applies transactions in sequence-number order, and    *)
(* the keeper always uses the account's number plus one.  So all queued    *)
(* transactions compete for the same number, and as soon as one of them    *)
(* (or anything else the signer sends) is applied, the others can never    *)
(* be.  The model keeps that consequence instead of the numbers.           *)
(***************************************************************************)
EXTENDS Integers, FiniteSets

CONSTANTS
  Keys,          \* ledger keys of the watched entries
  MaxLedger,     \* bound: the last ledger the model closes
  InitialTtls,   \* TTLs entries may start with
  TrafficTtl     \* TTL an entry gets when its contract bumps it itself

ASSUME LedgerAssumption ==
  /\ IsFiniteSet(Keys)
  /\ MaxLedger \in Nat \ {0}
  /\ InitialTtls \in SUBSET Nat
  /\ TrafficTtl \in Nat

VARIABLES ledger, live, mempool

ledgerVars == <<ledger, live, mempool>>

\* An ExtendFootprintTTLOp transaction: its read-only footprint, extend_to,
\* and the upper end of its ledger bounds.
Transaction == [keys: SUBSET Keys, extend_to: Nat, max_ledger: Nat]

LedgerTypeOK ==
  /\ ledger \in 1 .. MaxLedger
  /\ live \in [Keys -> Nat]
  /\ mempool \subseteq Transaction

LedgerInit ==
  /\ ledger = 1
  /\ live \in [Keys -> {1 + ttl : ttl \in InitialTtls}]
  /\ mempool = {}

\* An entry is live through its live_until_ledger and archived after it.
Archived(k) == live[k] < ledger

\* What ExtendFootprintTTLOp does to an entry: at least extend_to ledgers from
\* now, never less than it had, and nothing to an entry that is archived.
Extended(k, ttl) ==
  IF ~Archived(k) /\ live[k] < ledger + ttl THEN ledger + ttl ELSE live[k]

CloseLedger ==
  /\ ledger < MaxLedger
  /\ ledger' = ledger + 1
  /\ UNCHANGED <<live, mempool>>

\* tx is applied: it consumes the sequence number every queued one shares.
Apply(tx) ==
  /\ tx \in mempool
  /\ ledger <= tx.max_ledger
  /\ live' = [k \in Keys |-> IF k \in tx.keys
                               THEN Extended(k, tx.extend_to)
                               ELSE live[k]]
  /\ mempool' = {}
  /\ UNCHANGED ledger

\* tx is evicted or expires unapplied.
Forget(tx) ==
  /\ tx \in mempool
  /\ mempool' = mempool \ {tx}
  /\ UNCHANGED <<ledger, live>>

\* Something else consumes the sequence number: another transaction of the
\* account, or a queued one that is included and fails.
ForeignTransaction ==
  /\ mempool' = {}
  /\ UNCHANGED <<ledger, live>>

\* The watched contract's own auto-bump extends a live entry.
ContractBump(k) ==
  /\ live[k] < Extended(k, TrafficTtl)
  /\ live' = [live EXCEPT ![k] = Extended(k, TrafficTtl)]
  /\ UNCHANGED <<ledger, mempool>>
=============================================================================
