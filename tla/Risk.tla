-------------------------------- MODULE Risk --------------------------------
(***************************************************************************)
(* The pure decisions of the rent keeper (soroban-rent-keeper/src/risk.rs) *)
(* that the poll loop is built from: the remaining TTL of an entry, its    *)
(* eviction risk, whether it is due, and which entries may travel in one   *)
(* ExtendFootprintTTLOp.                                                   *)
(***************************************************************************)
EXTENDS Integers, FiniteSets, Functions

\* u32::saturating_sub
SatSub(a, b) == IF a > b THEN a - b ELSE 0

\* Mutants: the archived ledger counted as a live one; the due test strict;
\* one footprint for all that is due.
MutTtlRemaining(liveUntil, current) == SatSub(liveUntil + 1, current)
MutShouldExtend(ttl, threshold) == ttl < threshold
MutNextBatches(remaining, size, cap) == {remaining} \ {{}}

\* Ledgers until live_until_ledger; zero, not negative, once it has passed.
TtlRemaining(liveUntil, current) == SatSub(liveUntil, current)

Classify(ttl, threshold, extendTo) ==
  CASE ttl <= threshold                    -> "critical"
    [] threshold < ttl /\ ttl < extendTo   -> "watch"
    [] threshold < ttl /\ extendTo <= ttl  -> "safe"

ShouldExtend(ttl, threshold) == ttl <= threshold

\* Summed size of a set of entries; size is the function from entry to bytes.
Bytes(size, entries) == SumFunctionOnSet(size, entries)

(***************************************************************************)
(* The batches plan_batches can cut next from the entries that remain, for *)
(* some order in which the RPC listed them: a lone entry of any size, or a *)
(* set within the cap; and the batch was only closed because some entry    *)
(* that remains would have overflowed it, or because none remains.         *)
(* BatchPlan.tla relates this to the loop of the source.                   *)
(***************************************************************************)
NextBatches(remaining, size, cap) ==
  {batch \in SUBSET remaining :
     /\ batch # {}
     /\ Cardinality(batch) = 1 \/ Bytes(size, batch) <= cap
     /\ batch # remaining =>
          \E e \in remaining \ batch : Bytes(size, batch \cup {e}) > cap}
=============================================================================
