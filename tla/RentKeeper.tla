----------------------------- MODULE RentKeeper -----------------------------
(***************************************************************************)
(* The rent keeper daemon (soroban-rent-keeper/src/keeper.rs, with the RPC *)
(* calls of stellar.rs) running against StellarLedger.                     *)
(*                                                                         *)
(* One keeper process polls a list of watches.  A poll reads the ledger    *)
(* number once, then for each watch in turn fetches its entries, picks the *)
(* due ones, and submits one extension transaction per batch.  Every RPC   *)
(* call is an action of its own, because the network moves on between any  *)
(* two of them; it succeeds, or fails with a transient or a permanent      *)
(* error, and with_retry decides what the failure leads to.                *)
(***************************************************************************)
EXTENDS StellarLedger, Risk, Sequences

CONSTANTS
  NumWatches,    \* length of Keeper.watches
  WatchKeys,     \* WatchKeys[w]: the keys of watch w (watches may share keys)
  Threshold,     \* Threshold[w]: threshold_ledgers
  ExtendTo,      \* ExtendTo[w]: extend_to_ledgers
  Size,          \* Size[k]: size_bytes of entry k
  MaxBatchBytes, \* max_batch_bytes
  MaxAttempts,   \* RetryPolicy.max_attempts
  LedgerWindow,  \* how far above its ledger a transaction is valid (200)
  RpcLag,        \* how far an RPC node's ledger may trail the network's
  MaxQueued,     \* bound: queued transactions of the signer at a time
  MaxFaults,     \* bound: faults (process restarts, sequence numbers spent
                 \* elsewhere) in one behaviour
  LuckyKey       \* the key whose own calls are not starved (see Fairness)

Watches == 1 .. NumWatches

\* Config::validate admits at least one contract, each with threshold below
\* target; the retry counter, sizes and bounds are unsigned.
ASSUME KeeperAssumption ==
  /\ NumWatches \in Nat \ {0}
  /\ WatchKeys \in [Watches -> SUBSET Keys]
  /\ Threshold \in [Watches -> Nat]
  /\ ExtendTo \in [Watches -> Nat]
  /\ \A w \in Watches : Threshold[w] < ExtendTo[w]
  /\ MaxAttempts \in Nat
  /\ LedgerWindow \in Nat
  /\ RpcLag \in Nat
  /\ MaxQueued \in Nat
  /\ MaxFaults \in Nat

VARIABLES
  pc,        \* the RPC call the keeper is in, or "sleep" between polls
  attempt,   \* with_retry's counter for the call in progress
  current,   \* the ledger read at the start of the poll
  watch,     \* the watch being polled
  due,       \* due entries no batch has been cut from yet
  batch,     \* the batch being extended
  tx,        \* the transaction built for the batch
  seqFresh,  \* the sequence number in tx is still the account's next one
  applied,   \* tx, accepted by the network, has been applied
  tally,     \* checked, critical, extended_batches, submitted so far
  reports,   \* what poll_once has collected to return
  faults,    \* number of faults so far
  covered    \* history: the reading of each watch's last clean report

pollVars == <<pc, attempt, current, watch, due, batch, tx, seqFresh, applied,
              tally, reports>>
vars == <<ledgerVars, pollVars, faults, covered>>

Steps == {"latest", "fetch", "batches", "prepare", "send", "wait", "sleep"}
Errors == {"transient", "permanent"}   \* is_transient splits every error

NoTx == [keys |-> {}, extend_to |-> 0, max_ledger |-> 0]
NoTally == [checked |-> 0, critical |-> 0, extended_batches |-> 0,
            submitted |-> 0]
Never == -1   \* no clean report yet

\* An element of the Vec poll_once returns: Ok(PollReport) of a watch, or Err,
\* of a watch or (watch 0) of the whole poll.
Report(w, ok, t, tries) ==
  [watch |-> w, ok |-> ok, extended_batches |-> t.extended_batches,
   submitted |-> t.submitted, checked |-> t.checked,
   critical |-> t.critical, attempts |-> tries]

Init ==
  /\ LedgerInit
  /\ pc = "latest"
  /\ attempt = 0
  /\ current = 0
  /\ watch = 1
  /\ due = {} /\ batch = {}
  /\ tx = NoTx /\ seqFresh = FALSE /\ applied = FALSE
  /\ tally = NoTally
  /\ reports = <<>>
  /\ faults = 0
  /\ covered = [w \in Watches |-> Never]
-----------------------------------------------------------------------------
(* with_retry *)

\* RetryPolicy::retries
Retries == SatSub(MaxAttempts, 1)

\* Mutant: one retry too many.
MutGivesUp(error) == attempt > Retries \/ error = "permanent"

GivesUp(error) == attempt >= Retries \/ error = "permanent"

\* Mutant: the counter is not incremented.
MutRetry(error, step) ==
  /\ ~GivesUp(error)
  /\ attempt' = attempt
  /\ pc' = step

\* The call failed and with_retry starts it again, at step.
Retry(error, step) ==
  /\ ~GivesUp(error)
  /\ attempt' = attempt + 1
  /\ pc' = step

(* Loop steps of poll_once and poll_watch *)

\* Everything poll_watch holds locally is dropped when it returns.
ForgetBatch == tx' = NoTx /\ seqFresh' = FALSE /\ applied' = FALSE

\* poll_once pushes a result and moves to the next watch, or returns.
PushReport(report) ==
  /\ reports' = Append(reports, report)
  /\ attempt' = 0
  /\ due' = {} /\ batch' = {}
  /\ ForgetBatch
  /\ tally' = NoTally
  /\ IF watch < NumWatches
       THEN watch' = watch + 1 /\ pc' = "fetch" /\ UNCHANGED current
       ELSE watch' = 1 /\ pc' = "sleep" /\ current' = 0

\* A report is clean when every batch it mentions was submitted.
CleanReport(report) == report.ok /\ report.submitted = report.extended_batches

\* poll_watch returns Ok(PollReport).
ReturnReport(t) ==
  LET report == Report(watch, TRUE, t, 0) IN
  /\ PushReport(report)
  /\ covered' = IF CleanReport(report)
                  THEN [covered EXCEPT ![watch] = current]
                  ELSE covered
-----------------------------------------------------------------------------
(* The keeper's steps *)

\* run wakes up; poll_once starts with a balance refresh whose result only
\* reaches a gauge.
StartPoll ==
  /\ pc = "sleep"
  /\ pc' = "latest"
  /\ reports' = <<>>
  /\ UNCHANGED <<ledgerVars, attempt, current, watch, due, batch, tx,
                 seqFresh, applied, tally, faults, covered>>

\* latest_ledger answers with reading: every watch of this poll will use it.
LatestLedger(reading) ==
  /\ pc = "latest"
  /\ current' = reading
  /\ pc' = "fetch"
  /\ attempt' = 0
  /\ UNCHANGED <<ledgerVars, watch, due, batch, tx, seqFresh, applied, tally,
                 reports, faults, covered>>

\* latest_ledger fails; out of attempts, poll_once returns a lone error.
LatestLedgerFails(error) ==
  /\ pc = "latest"
  /\ \/ Retry(error, "latest") /\ UNCHANGED reports
     \/ /\ GivesUp(error)
        /\ reports' = <<Report(0, FALSE, NoTally, attempt + 1)>>
        /\ attempt' = 0
        /\ pc' = "sleep"
  /\ UNCHANGED <<ledgerVars, current, watch, due, batch, tx, seqFresh, applied,
                 tally, faults, covered>>

\* The due entries among those seen, as poll_watch selects them.
DueEntries(seen) ==
  {k \in seen :
     ShouldExtend(TtlRemaining(live[k], current), Threshold[watch])}

CriticalEntries(seen) ==
  {k \in seen : Classify(TtlRemaining(live[k], current), Threshold[watch],
                         ExtendTo[watch]) = "critical"}

\* fetch_entries returns the watch's entries but for missing ones, which
\* must be archived; with nothing due poll_watch returns at once.
FetchEntries(missing) ==
  LET seen == WatchKeys[watch] \ missing
      t == [NoTally EXCEPT !.checked = Cardinality(seen),
                           !.critical = Cardinality(CriticalEntries(seen))]
  IN
  /\ pc = "fetch"
  /\ \A k \in missing : Archived(k)
  /\ \/ /\ DueEntries(seen) = {}
        /\ ReturnReport(t)
     \/ /\ DueEntries(seen) # {}
        /\ due' = DueEntries(seen)
        /\ tally' = t
        /\ pc' = "batches"
        /\ attempt' = 0
        /\ UNCHANGED <<current, watch, batch, tx, seqFresh, applied, reports,
                       covered>>
  /\ UNCHANGED <<ledgerVars, faults>>

\* Mutant: poll_once returns at the first watch that fails.
MutFetchFails(error) ==
  /\ pc = "fetch"
  /\ reports' = Append(reports, Report(watch, FALSE, NoTally, attempt + 1))
  /\ pc' = "sleep"
  /\ attempt' = 0
  /\ watch' = 1
  /\ UNCHANGED <<ledgerVars, current, due, batch, tx, seqFresh, applied, tally,
                 faults, covered>>

\* fetch_entries fails; out of attempts, this watch's result is the error.
FetchFails(error) ==
  /\ pc = "fetch"
  /\ \/ /\ Retry(error, "fetch")
        /\ UNCHANGED <<current, watch, due, batch, tx, seqFresh, applied, tally,
                       reports>>
     \/ /\ GivesUp(error)
        /\ PushReport(Report(watch, FALSE, NoTally, attempt + 1))
  /\ UNCHANGED <<ledgerVars, faults, covered>>

\* The batch loop takes the next batch of plan_batches ...
TakeBatch(next) ==
  /\ pc = "batches"
  /\ next \in NextBatches(due, Size, MaxBatchBytes)
  /\ batch' = next
  /\ due' = due \ next
  /\ pc' = "prepare"
  /\ attempt' = 0
  /\ UNCHANGED <<ledgerVars, current, watch, tx, seqFresh, applied, tally,
                 reports, faults, covered>>

\* ... and poll_watch returns once there is none left.
FinishWatch ==
  /\ pc = "batches"
  /\ due = {}
  /\ ReturnReport(tally)
  /\ UNCHANGED <<ledgerVars, faults>>

\* extend_entries reads the ledger again and the account's sequence number,
\* builds the transaction, simulates, rebuilds and signs it.
PrepareExtension(reading) ==
  /\ pc = "prepare"
  /\ tx' = [keys |-> batch, extend_to |-> ExtendTo[watch],
            max_ledger |-> reading + LedgerWindow]
  /\ seqFresh' = TRUE
  /\ pc' = "send"
  /\ UNCHANGED <<ledgerVars, attempt, current, watch, due, batch, applied, tally,
                 reports, faults, covered>>

\* Mutant: a failed batch is not counted.
MutCountBatch(won) ==
  /\ tally' = [tally EXCEPT !.extended_batches = @ + won,
                            !.submitted = @ + won]
  /\ batch' = {}
  /\ attempt' = 0
  /\ pc' = "batches"
  /\ ForgetBatch

\* The outcome of one batch, counted; the loop goes on whatever it is.
CountBatch(won) ==
  /\ tally' = [tally EXCEPT !.extended_batches = @ + 1,
                            !.submitted = @ + won]
  /\ batch' = {}
  /\ attempt' = 0
  /\ pc' = "batches"
  /\ ForgetBatch

\* extend_entries fails, at any of its calls.
ExtensionFails(error) ==
  \/ Retry(error, "prepare") /\ ForgetBatch /\ UNCHANGED <<batch, tally>>
  \/ GivesUp(error) /\ CountBatch(0)

PrepareFails(error) ==
  /\ pc = "prepare"
  /\ ExtensionFails(error)
  /\ UNCHANGED <<ledgerVars, current, watch, due, reports, faults, covered>>

\* The network accepts a transaction whose sequence number is still right.
Accepted == seqFresh /\ mempool' = mempool \cup {tx}
            /\ Cardinality(mempool') <= MaxQueued

SendTransaction ==
  /\ pc = "send"
  /\ Accepted
  /\ pc' = "wait"
  /\ UNCHANGED <<ledger, live, attempt, current, watch, due, batch, tx,
                 seqFresh, applied, tally, reports, faults, covered>>

\* The submission is refused, for a stale sequence number or otherwise; or
\* the network took it and the answer was lost.
SendFails(error) ==
  /\ pc = "send"
  /\ \/ UNCHANGED mempool
     \/ Accepted
  /\ ExtensionFails(error)
  /\ UNCHANGED <<ledger, live, current, watch, due, reports, faults, covered>>

\* Mutants: an accepted transaction counts as a successful one; so does one
\* whose polling timed out.
MutExtensionSucceeds ==
  /\ pc = "wait"
  /\ CountBatch(1)
  /\ UNCHANGED <<ledgerVars, current, watch, due, reports, faults, covered>>

MutWaitFails(error) ==
  /\ pc = "wait"
  /\ CountBatch(1)
  /\ UNCHANGED <<ledgerVars, current, watch, due, reports, faults, covered>>

\* Polling for the transaction finds it applied: ExtendOutcome::Submitted.
ExtensionSucceeds ==
  /\ pc = "wait"
  /\ applied
  /\ CountBatch(1)
  /\ UNCHANGED <<ledgerVars, current, watch, due, reports, faults, covered>>

\* Polling times out or errors, whatever becomes of the transaction, or finds
\* that it failed.
WaitFails(error) ==
  /\ pc = "wait"
  /\ ExtensionFails(error)
  /\ UNCHANGED <<ledgerVars, current, watch, due, reports, faults, covered>>

\* What the environment does only MaxFaults times.
Fault == faults < MaxFaults /\ faults' = faults + 1

\* The process dies and is started again: nothing is persisted, so it begins
\* with a fresh poll.  Transactions already sent stay sent.
Restart ==
  /\ Fault
  /\ pc' = "latest"
  /\ attempt' = 0
  /\ current' = 0
  /\ watch' = 1
  /\ due' = {} /\ batch' = {}
  /\ ForgetBatch
  /\ tally' = NoTally
  /\ reports' = <<>>
  /\ UNCHANGED <<ledgerVars, covered>>

\* The ledger numbers an RPC node may report.
Readings == {r \in 0 .. ledger : r + RpcLag >= ledger}

Keeper ==
  \/ StartPoll
  \/ \E r \in Readings : LatestLedger(r) \/ PrepareExtension(r)
  \/ \E m \in SUBSET WatchKeys[watch] : FetchEntries(m)
  \/ \E b \in SUBSET due : TakeBatch(b)
  \/ FinishWatch
  \/ SendTransaction
  \/ ExtensionSucceeds
  \/ \E e \in Errors :
       \/ LatestLedgerFails(e)
       \/ FetchFails(e)
       \/ PrepareFails(e)
       \/ SendFails(e)
       \/ WaitFails(e)
-----------------------------------------------------------------------------
(* The network's steps, as the keeper experiences them *)

\* t is applied: the number in tx is stale now, and if t is tx itself, polling
\* can find it.
ApplyExtension(t) ==
  /\ Apply(t)
  /\ seqFresh' = FALSE
  /\ applied' = (applied \/ (pc = "wait" /\ t = tx))
  /\ UNCHANGED <<pc, attempt, current, watch, due, batch, tx, tally, reports,
                 faults, covered>>

\* Another transaction of the account, or an extension that fails on
\* inclusion, consumes the sequence number.
SpendSequence ==
  /\ ForeignTransaction
  /\ seqFresh' = FALSE
  /\ Fault
  /\ UNCHANGED <<pc, attempt, current, watch, due, batch, tx, applied, tally,
                 reports, covered>>

Network ==
  \/ CloseLedger /\ UNCHANGED <<pollVars, faults, covered>>
  \/ \E k \in Keys : ContractBump(k) /\ UNCHANGED <<pollVars, faults, covered>>
  \/ \E t \in mempool : \/ ApplyExtension(t)
                        \/ Forget(t) /\ UNCHANGED <<pollVars, faults, covered>>
  \/ SpendSequence

Next == Keeper \/ Restart \/ Network

Spec == Init /\ [][Next]_vars
-----------------------------------------------------------------------------
(***************************************************************************)
(* Fairness.  RPC calls return (the client library times out), so the      *)
(* keeper never stops.  Beyond that only the calls made for LuckyKey are   *)
(* promised anything: tried often enough they succeed, on a node that is   *)
(* not lagging, and a queued transaction for it is eventually included.    *)
(* Calls for other entries and watches may fail for ever.                  *)
(***************************************************************************)
Fairness ==
  /\ WF_vars(Keeper)
  /\ SF_vars(LatestLedger(ledger))
  /\ SF_vars(LuckyKey \in WatchKeys[watch]
             /\ \E m \in SUBSET WatchKeys[watch] : FetchEntries(m))
  /\ SF_vars(LuckyKey \in batch /\ PrepareExtension(ledger))
  /\ SF_vars(LuckyKey \in batch /\ SendTransaction)
  /\ SF_vars(LuckyKey \in batch /\ pc = "wait" /\ ApplyExtension(tx))

FairSpec == Spec /\ Fairness
-----------------------------------------------------------------------------
(* Properties *)

Reports == [watch: 0 .. NumWatches, ok: BOOLEAN, extended_batches: Nat,
            submitted: Nat, checked: Nat, critical: Nat, attempts: Nat]

\* The type of every variable; the retry counter stays within the policy.
TypeOK ==
  /\ LedgerTypeOK
  /\ pc \in Steps
  /\ attempt \in 0 .. Retries
  /\ current \in Nat
  /\ watch \in Watches
  /\ due \subseteq Keys /\ batch \subseteq Keys
  /\ tx \in Transaction
  /\ seqFresh \in BOOLEAN /\ applied \in BOOLEAN
  /\ tally \in [checked: Nat, critical: Nat, extended_batches: Nat,
                submitted: Nat]
  /\ reports \in Seq(Reports)
  /\ faults \in 0 .. MaxFaults
  /\ covered \in [Watches -> Nat \cup {Never}]

\* Entry k outlives threshold ledgers from reading, or is archived already.
Outlives(k, w, reading) == live[k] > reading + Threshold[w] \/ Archived(k)

(***************************************************************************)
(* A report whose batches were all submitted can be trusted: as long as it *)
(* is the watch's last clean one, every entry of the watch lives for more  *)
(* than threshold ledgers from the ledger the poll read, however stale     *)
(* that reading was, unless it was archived before its extension landed.   *)
(* (keeper.rs poll_watch: classification, batch loop and outcome counts.)  *)
(***************************************************************************)
CleanReportsProtect ==
  \A w \in Watches : covered[w] # Never =>
    \A k \in WatchKeys[w] : Outlives(k, w, covered[w])

(***************************************************************************)
(* The inductive strengthening of CleanReportsProtect: while every batch   *)
(* so far was submitted, an entry of the watch outlives the threshold, or  *)
(* waits in due or in the batch; and an applied transaction has done that  *)
(* for its batch.  (The loop invariant of poll_watch's batch loop.)        *)
(***************************************************************************)
InBatchLoop == pc \in {"batches", "prepare", "send", "wait"}

ReadingsArePast ==
  /\ current <= ledger
  /\ \A w \in Watches : covered[w] <= ledger

TransactionIsForBatch ==
  /\ pc \in {"send", "wait"} =>
       tx.keys = batch /\ tx.extend_to = ExtendTo[watch]
  /\ applied => pc = "wait" /\ \A k \in batch : Outlives(k, watch, current)
  /\ pc \notin {"prepare", "send", "wait"} => batch = {}

LoopProtects ==
  /\ tally.submitted <= tally.extended_batches
  /\ InBatchLoop /\ tally.submitted = tally.extended_batches =>
       \A k \in WatchKeys[watch] \ (due \cup batch) :
         Outlives(k, watch, current)

IInv ==
  /\ ReadingsArePast
  /\ TransactionIsForBatch
  /\ LoopProtects
  /\ CleanReportsProtect

(***************************************************************************)
(* No entry expires between polls that keep the cadence: the step in which *)
(* an entry is archived is never taken within threshold ledgers of the     *)
(* reading of a clean report of a watch that lists it, which is what the   *)
(* threshold-against-poll-interval check of Config::validate is for.       *)
(***************************************************************************)
NoExpiryWithinThreshold ==
  [][\A w \in Watches : covered[w] # Never =>
       \A k \in WatchKeys[w] :
         ~Archived(k) /\ Archived(k)' => ledger' > covered[w] + Threshold[w] + 1
    ]_vars

(***************************************************************************)
(* One watch's failure never costs another its turn: the results of a poll *)
(* are those of the watches in order, none skipped, none visited twice,    *)
(* unless the poll could not even read the ledger (keeper.rs poll_once).   *)
(***************************************************************************)
WatchesInOrder ==
  \/ reports # <<>> /\ Len(reports) = 1 /\ reports[1].watch = 0 /\ pc = "sleep"
  \/ /\ Len(reports) = IF pc = "sleep" THEN NumWatches ELSE watch - 1
     /\ \A i \in 1 .. Len(reports) : reports[i].watch = i

(***************************************************************************)
(* A PollReport adds up: it has batches exactly when something was         *)
(* critical, no more batches than critical entries, and no more            *)
(* submissions than batches; an error was tried, and max_attempts times at *)
(* most (keeper.rs poll_watch, with_retry).                                *)
(***************************************************************************)
ReportsAddUp ==
  \A i \in 1 .. Len(reports) :
    LET r == reports[i] IN
    /\ r.ok => /\ r.submitted <= r.extended_batches
               /\ r.extended_batches <= r.critical
               /\ r.critical <= r.checked
               /\ (r.critical > 0) = (r.extended_batches > 0)
    /\ ~r.ok => r.attempts \in 1 .. Retries + 1

(***************************************************************************)
(* Whatever transaction is queued, left over from a timed-out attempt, an  *)
(* earlier batch or a process that died, it extends entries of one watch   *)
(* to that watch's target, within the batch size cap.                      *)
(***************************************************************************)
QueuedTransactionsAreBatches ==
  \A t \in mempool :
    /\ \E w \in Watches : t.keys \subseteq WatchKeys[w] /\ t.extend_to = ExtendTo[w]
    /\ Cardinality(t.keys) = 1 \/ Bytes(Size, t.keys) <= MaxBatchBytes

(***************************************************************************)
(* LuckyKey is served: whenever its TTL is within the threshold of a watch *)
(* that lists it, it is eventually extended past the threshold, unless it  *)
(* is archived first, though calls for other entries may fail for ever.    *)
(***************************************************************************)
Needy(k, w) == ~Archived(k) /\ live[k] <= ledger + Threshold[w]

LuckyKeyIsServed ==
  \A w \in Watches : LuckyKey \in WatchKeys[w] =>
    (Needy(LuckyKey, w) ~> ~Needy(LuckyKey, w))

\* Every poll ends: neither retries nor batches keep poll_once from returning
\* to run's sleep, and run from polling again.
PollsEnd == []<>(pc = "sleep") /\ []<>(pc # "sleep")

(***************************************************************************)
(* The keeper keeps the promise of TtlPromise: retries, lost answers,      *)
(* leftover transactions and restarts change no TTL in another way, and a  *)
(* clean report is a true one (keeper.rs poll_watch as a whole).           *)
(***************************************************************************)
Promise == INSTANCE TtlPromise WITH vouched <- covered

KeepsPromise == Promise!Spec
=============================================================================
