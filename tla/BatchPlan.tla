------------------------------ MODULE BatchPlan ------------------------------
(***************************************************************************)
(* plan_batches (soroban-rent-keeper/src/risk.rs) one entry at a time.     *)
(* Entries are numbered in the order the RPC listed them, a batch is a set *)
(* of numbers, and sizes are U32Max-bounded integers whose sum saturates.  *)
(* RentKeeper takes the next batch from Risk!NextBatches instead of        *)
(* running this loop; EachBatchIsNext is what makes that sound.            *)
(***************************************************************************)
EXTENDS Risk, Sequences

CONSTANTS
  MaxEntries,   \* bound: entries that are due at once
  U32Max        \* u32::MAX, scaled down

ASSUME PlanAssumption == MaxEntries \in Nat /\ U32Max \in Nat \ {0}

VARIABLES
  size,         \* size_bytes of every entry given
  cap,          \* max_batch_bytes
  taken,        \* entries the loop has been through
  batches,      \* batches cut so far
  open,         \* the batch being filled (current)
  openBytes,    \* its accounted size (current_bytes)
  returned      \* the loop is over and the last batch pushed

planVars == <<size, cap, taken, batches, open, openBytes, returned>>

U32 == 0 .. U32Max
Entries == DOMAIN size

\* u32::saturating_add
SatAdd(a, b) == IF a + b > U32Max THEN U32Max ELSE a + b

Init ==
  /\ \E n \in 0 .. MaxEntries : size \in [1 .. n -> U32]
  /\ cap \in U32
  /\ taken = 0
  /\ batches = <<>>
  /\ open = {} /\ openBytes = 0
  /\ returned = FALSE

\* Mutant: a batch is closed only when the cap is already exceeded.
MutOverflows(entry) == open # {} /\ openBytes > cap

Overflows(entry) == open # {} /\ SatAdd(openBytes, size[entry]) > cap

\* The entry does not fit: the open batch is closed and the entry opens one.
\* Mutant: it is dropped.
MutStartBatch(entry) ==
  /\ Overflows(entry)
  /\ batches' = Append(batches, open)
  /\ open' = {}
  /\ openBytes' = 0

StartBatch(entry) ==
  /\ Overflows(entry)
  /\ batches' = Append(batches, open)
  /\ open' = {entry}
  /\ openBytes' = SatAdd(0, size[entry])

\* Mutant: the size is added without saturation.
MutJoinBatch(entry) ==
  /\ ~Overflows(entry)
  /\ open' = open \cup {entry}
  /\ openBytes' = openBytes + size[entry]
  /\ UNCHANGED batches

JoinBatch(entry) ==
  /\ ~Overflows(entry)
  /\ open' = open \cup {entry}
  /\ openBytes' = SatAdd(openBytes, size[entry])
  /\ UNCHANGED batches

TakeEntry ==
  /\ taken < Len(size)
  /\ taken' = taken + 1
  /\ StartBatch(taken') \/ JoinBatch(taken')
  /\ UNCHANGED <<size, cap, returned>>

Return ==
  /\ taken = Len(size)
  /\ ~returned
  /\ returned' = TRUE
  /\ batches' = IF open # {} THEN Append(batches, open) ELSE batches
  /\ open' = {}
  /\ UNCHANGED <<size, cap, taken, openBytes>>

Next == TakeEntry \/ Return

Spec == Init /\ [][Next]_planVars
-----------------------------------------------------------------------------
(* Properties *)

\* The type of every variable; the accounted size never passes u32::MAX.
TypeOK ==
  /\ size \in Seq(U32)
  /\ cap \in U32
  /\ taken \in 0 .. Len(size)
  /\ batches \in Seq(SUBSET Entries)
  /\ open \subseteq Entries
  /\ openBytes \in U32
  /\ returned \in BOOLEAN

(***************************************************************************)
(* No due entry is lost at a batch boundary and none is extended twice:    *)
(* the batches and the open one partition the entries taken, in order, and *)
(* the batches returned contain every entry.                               *)
(***************************************************************************)
Closed == UNION {batches[b] : b \in 1 .. Len(batches)}

EveryEntryOnce ==
  /\ Closed \cup open = 1 .. taken
  /\ \A b \in 1 .. Len(batches) : batches[b] # {}
  /\ \A a, b \in 1 .. Len(batches) : a < b =>
       \A x \in batches[a], y \in batches[b] : x < y
  /\ \A x \in Closed, y \in open : x < y
  /\ returned => open = {} /\ taken = Len(size)

(***************************************************************************)
(* Every batch is one RentKeeper may take from what the earlier ones left: *)
(* within the cap or a lone entry, never empty, and closed no sooner than  *)
(* some remaining entry made it necessary.  At the cap u32::MAX saturation *)
(* hides the overflow, and the loop makes one batch of any total size.     *)
(***************************************************************************)
EachBatchIsNext ==
  cap < U32Max =>
    \A b \in 1 .. Len(batches) :
      batches[b] \in
        NextBatches(Entries \ UNION {batches[a] : a \in 1 .. b - 1}, size, cap)
=============================================================================
