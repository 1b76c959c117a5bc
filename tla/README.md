# Formal models of the Soroban storage lifecycle tools

TLA+ models of this repository: what the tools promise about storage that must
not expire, checked by TLC on small instances, and proved with TLAPS for every value
of the constants: every safety, action and refinement property that a passing
run checks is also a theorem. Paths below are relative to `crates/`; `file.rs:n`
is a line of the source.

## 1. The system

| Component | State | Operations | Talks to |
|---|---|---|---|
| **Rent keeper**, `soroban-rent-keeper` (`keeper.rs`, `stellar.rs`, `risk.rs`) | none kept between polls but metrics; within a poll: ledger read, watch, due entries, batch, retry counter, report being counted | `poll_once`, `poll_watch`, `with_retry`, `run` | Stellar RPC: `latest_ledger`, `fetch_entries`, `extend_entries` (sequence number, simulation, submission, polling) |
| its configuration and startup (`config.rs`, `main.rs`) | settings and watches, read once per process | `load`, `validate`, `verify_network`, balance check, `build_watch` | the configuration file; RPC; the keeper |
| its metrics (`metrics.rs`) | counters, gauges, of one process | set, increment, render | the keeper writes, Prometheus reads |
| **Restore planner**, `soroban-restore-planner` | within a run: contract in progress, results; across runs: the envelope files in `--out` | `candidates`, `plan`, `submit`, batch loop, output, exit code | RPC: entries, account, simulation, submission; files |
| **Storage framework**, `soroban-storage` (`ops.rs`, `ttl.rs`, `lifecycle.rs`) | the contract's ledger entries and their TTLs, held by the host | `has get set set_ttl update remove extend_ttl bump` | the Soroban host |
| **`storage!` macro**, `soroban-storage-macros` | none; a compile-time function | `StorageOpts::parse`, `merge_opts`, `gen_storage` | generates accessors that call `ops.rs` |
| **Linter**, `soroban-storage-lints` | none; findings of one run | `scan_file`, `parse_storage_decl`, six rules, exit code | reads the same `storage!` declarations as the macro |
| **Example contract**, `example-contract` | balances, nonces, grants, admin | constructor, `deposit withdraw grant claim consume_nonce balance admin` | the generated accessors |
| shared helpers (`soroban-stellar-common`), CI files | none | conversions, signing; shell | everybody |

What is hard, by component:

* **Rent keeper.** Everything is a snapshot: the ledger number is read once per
  poll, entries once per watch, the account's sequence number before a
  simulation. The network moves on between any two calls. Submissions time out
  while their transactions stay queued; retries then compete with them for one
  sequence number. The process may die anywhere and persists nothing. Correct
  means: a report that says everything was submitted can be trusted, one watch's
  trouble stays its own, and polls go on.
* **Its configuration and metrics.** An operator sees the keeper through gauges
  and counters only, written at different moments of a poll, kept when an entry
  is no longer returned, and lost with the process. Correct means that silence of
  the error counters, a TTL gauge and the submitted counter can each be relied
  on; and that the check of `validate` on the thresholds, made with another
  notion of time than the loop's, buys what it is there for.
* **Restore planner.** The same snapshots without retries, many contracts per
  run of which some fail, several ways of asking for submission, an exit code
  scripts rely on, and a directory of envelopes that a second run, after the
  first failed in part, writes over.
* **Framework and contracts.** Long sequences of accesses with ledgers closing
  in between: expiry deletes temporary entries, archives others; all instance
  entries share one TTL; policies and callers ask for TTLs beyond a maximum that
  the code takes for a constant and the network may change.
* **Macro and linter.** Two programs that parse the same declarations
  differently and must agree on which data is irreplaceable; and a linter that
  sees a crate file by file, with files it passes over.

`PROJECT.json` lists the hazards one by one, at their lines, with the properties
that cover them.

## 2. The modules

```
 TtlPromise  <--implements--  RentKeeper ---- EXTENDS ---> StellarLedger, Risk
                                  ^                              ^
               MCRentKeeper, KeeperDaemon                    BatchPlan
                                  ^                              ^
          MCKeeperDaemon, RentKeeper_proofs               BatchPlan_proofs
 RestorePlanner  <-- MCRestorePlanner, RestorePlanner_proofs
 StorageOps  <-- EXTENDS -- ContractStorage <-- MCContractStorage
     ^--------- EXTENDS --- Vault --implements--> VaultPromise     (MCVault)
     ^--------- EXTENDS --- StorageOps_proofs <-- ContractStorage_proofs,
                                                  Vault_proofs
 StorageMacro <-- EXTENDS -- StorageLints <-- MCStorageLints, StorageLints_proofs
 FiniteSums   <-- EXTENDS -- RentKeeper_proofs, BatchPlan_proofs,
                             StorageLints_proofs
```

**StellarLedger** (external). The network as the keeper sees it: the ledger
number, each entry's `live_until`, the signer's queued transactions. All queued
transactions of the account carry the same next sequence number, so applying one
kills the others; the model keeps that consequence instead of the numbers.

**Risk**. `ttl_remaining`, `classify`, `should_extend` as they are;
`plan_batches` as the set `NextBatches` of batches it may cut next, for some
order of the entries (the RPC promises none).

**RentKeeper**. `pc` names the RPC call the keeper is in; every call is an
action, with an action for its failure (transient or permanent, the two classes
of `is_transient`).

| Code | Model |
|---|---|
| `run`, `poll_once` (keeper.rs:156-185, 258-272) | `StartPoll`, `LatestLedger`, `LatestLedgerFails`, `PushReport` |
| `with_retry` (102-126) | `GivesUp`, `Retry`, `attempt` |
| `poll_watch` (187-255) | `FetchEntries`, `FetchFails`, `TakeBatch`, `CountBatch`, `FinishWatch`, `ReturnReport`; `due`, `batch`, `tally` |
| `extend_entries` (stellar.rs:242-332) | `PrepareExtension`, `SendTransaction`, `ExtensionSucceeds` and their failures; `tx` |
| `main` after a crash | `Restart` |
| the network | `Network`; `seqFresh` (the number in `tx` is still unused), `applied` (polling can find `tx`) |

`covered` is a history variable: the ledger reading of each watch's last clean
report (`submitted = extended_batches`). The balance refresh at the start of a
poll only feeds a gauge and is part of `StartPoll`. Backoff delays are the time
other actions take between two attempts. `SendFails` covers both a refusal and
an accepted submission whose answer is lost.

**KeeperDaemon** is the process around RentKeeper, and takes each of its steps
together with what that step writes to the metrics.

| Code | Model |
|---|---|
| `Config::load`, `validate` (config.rs) | `LoadConfig`, `Valid`; `config`; the contracts are parameters of RentKeeper |
| `main` up to `run` (main.rs) | `phase`: `VerifyNetwork`, `CheckBalance`, `BuildWatch` per contract, `StartupFails` from any of them |
| `run`'s sleep (keeper.rs) | `slept`: ledgers of five seconds that close during it, no fewer than the interval holds and no more than fit into it (`Rested`, `MostCloses`) |
| `set_ttl_gauge`, `set_entries_watched`, `inc_extensions`, `inc_poll_error` (metrics.rs, called from keeper.rs) | `ttl_ledgers`, `entries_watched`, `extensions_total`, `poll_errors`; `RecordFetch`, `CountExtension`, `CountFailure`, `CountPollError` |
| a crash, or a start that failed, and the next start | `Relaunch`: all of that is gone, and the file may say something else |

`polled` and `landed` are history variables: the reading of each watch's last
fetch, and how many extensions the network applied since the process started.
What KeeperDaemon adds only chooses among the steps of RentKeeper: hiding it
leaves a behaviour of RentKeeper (`DaemonIsKeeper`).

**TtlPromise** is what the keeper promises with all of that hidden: TTLs of live
entries only grow, archived ones stay, and a watch is vouched for with a reading
only if its live entries outlive the threshold from it.

**BatchPlan** runs the loop of `plan_batches` literally, with saturating
arithmetic on a scaled-down `u32`, and shows each of its batches to be one of
`Risk!NextBatches`.

**RestorePlanner**. One run, from `Options` (what the command line and the
config file ask, a command line `main` rejects included) to `exit`. For each
contract `ResolveCandidates`, `ReadSequence`, `Simulate`, `Submit` or
`PlanFails`; then `WriteEnvelope` per result and `Finish`, unless the file system
refuses the directory or a file (`WriteFails`). `RunAgain` starts the tool once
more, with options chosen anew, over the files the earlier run left. `Others`
archives, restores, and uses up sequence numbers in between; the history variable
`disturbed` holds the entries it archived or restored in the run at hand. Single
mode is the same run over one contract, whose `--out` is taken to be the file a
batch would write for it.

**StorageOps**. The operations as functions from store to store over the host's
behaviour: `HostPut` (a new entry gets the minimum TTL), `HostExtend` (only a TTL
below the threshold is extended, never past the network's maximum), `Expire`,
`Restored`. The host is modelled as `ops.rs` and `ttl.rs` describe it: what is
asked for beyond the maximum is clamped without a sign. The maximum appears twice,
as the code's constants (`MAX_TEMP_TTL`, `MAX_PERSISTENT_TTL`, to which
`clamped_for` clamps a policy's target) and as the network's own (`MaxTtl`), which
may be either side of them; no property rests on their being equal.
**ContractStorage** turns the operations into calls of a contract in the order
users like. `touched`, `extended` and `asked` are history variables: the ledger of
each key's last bumping access, the ledger in which its policy last extended it,
and until when `set_ttl` and `extend_ttl` asked a TTL slot to live. **Vault** fixes their constants to the declarations of the example
contract (`DeclarationsAssumption`) and has an action per method; **VaultPromise** is the
ledger-free specification it implements. `VaultAssumption` bounds the numbers, and
has the bump target of a nonce, within both maxima, no lower than its threshold,
as the default policy of `ttl.rs` has it.

**StorageMacro** folds the options of `#[storage(...)]` the way `merge_opts`
does. **StorageLints** puts one entry through `Expand` (the macro) and a crate,
file by file, through the linter: `PassOver` for a file that is not collected,
cannot be read or does not parse, `Scan` for the others (the linter's own reading
of the entry, if it is declared among the items of that file), then `RunRule` for
each rule over the chains of each function it visits (those of the file and of its
impl blocks: `Visited`), and `Report` for the exit code.

## 3. Runs

| Run | Instance | Shows |
|---|---|---|
| KeeperDaemon | 1 watch, 2 entries in a joint batch, lag 1, 1 fault, 5 ledgers; intervals of 1 to 3 ledgers | `SilenceMeansSafety`, `CompleteGaugesAreHonest`, `SubmittedMeansLanded`, `NoExpiryAsleep` |
| RentKeeperShared | 2 watches sharing an entry, cap 1: two batches, 1 fault, 3 ledgers | `IInv` (the inductive invariant the proofs use), `CleanReportsProtect`, `NoExpiryWithinThreshold`, `ReportsAddUp`, `WatchesInOrder`, `QueuedTransactionsAreBatches`, refinement of `TtlPromise` |
| RentKeeperFair | 2 watches, fairness for k2's calls only | `LuckyKeyIsServed`, `PollsEnd` |
| BatchPlan | up to 4 entries, all sizes and caps in 0..4 | `EveryEntryOnce`, `EachBatchIsNext` |
| RestorePlanner | 3 items, one contract listed twice, shared code entry, 2 outside changes, 2 runs, each with any options | `OneResultPerContract`, `DryRunTouchesNothing`, `NothingMeansNothing`, `EnvelopesSurviveFailures` |
| ContractStorage | an entry of each lifecycle, all bumped on access but the temporary one, 3 ledgers; the network's maximum above the code's constant for temporary entries and below the other | `TouchedEntriesLive`, `TtlIsPredictable`, `AskedTtlsAreKept`, `TtlNeverShrinks`, `BumpsAreSpaced` |
| Vault | 1 user, amounts 1-2, 3 fundings, 6 ledgers | refinement of `VaultPromise`, `NoncesHoldForADay` |
| StorageLints | 1 or 2 attributes of ten (`MaxAttributes`); crates of one chain of any kind, of two functions in one file or two, with a function that is not visited, or with a file that is passed over; every single ignored rule | `CriticalNeverTemporary`, `CleanMeansDurable`, `QuietMeansManaged`, `SameEntry` |
| RestorePlannerReady, StorageMacroBump, ContractStorageBump, VaultOverflow | as above | each violates one statement of a doc or comment (section 6) |

Each `Mut...` operator next to a definition is a plausible bug in that code; with
it in place of the definition the run finds the property violated. They document
what each property is able to catch and are used by nothing else.

What the properties of KeeperDaemon say to an operator: while
`poll_errors_total` and `extensions_total{outcome="error"}` of a watch stand
still, its entries were safe at its last poll (`SilenceMeansSafety`); a TTL gauge
is a promise as long as `entries_watched` counts every key, and may be a
leftover otherwise (`CompleteGaugesAreHonest`); every submission counted was
applied (`SubmittedMeansLanded`); and with a configuration `validate` accepts
without the opt-out, nothing dies in a sleep that was not due before it
(`NoExpiryAsleep`). The last has a condition the code does not check: `run`
sleeps for the interval *after* the poll (keeper.rs), `validate` compares the
thresholds with the interval alone, so a poll that itself lasts into another
ledger is not accounted for (`PromptPoll`).

What those of ContractStorage say to the author of a contract: a key that is
bumped on access lives for its policy's threshold from every access
(`TouchedEntriesLive`); a policy never gives an entry more than the code's
constant, so that whatever lives longer was asked to by `set_ttl` or `extend_ttl`
(`TtlIsPredictable`); those two give what they are asked for, as far as the network
allows, and nothing takes it away while the entry is there (`AskedTtlsAreKept`,
`TtlNeverShrinks`: `set_ttl` with less than the entry has leaves it as it is, see
section 6); and a policy pays for an extension again only after the distance of
target and threshold, whatever else reads or bumps the slot (`BumpsAreSpaced`).

**Why the bounds are enough.** TTLs, thresholds and targets are scaled to one to
four ledgers, so that within `MaxLedger` an entry becomes due, is extended, or is
archived, in every order. In KeeperDaemon five ledgers hold a poll, a sleep of
up to three ledgers and the expiry of what was not due before it, one fault is
the restart, and the four configurations are one `validate` accepts, one it
accepts because it rounds the interval down to whole ledgers, one it refuses and
one it accepts for the opt-out. Two runs of the planner have a first that fails
in part and a second that repairs it, or is a dry one over the files of the first.
In three ledgers an entry of ContractStorage is touched, expires and is restored
or written anew; its policies ask for more than the code's constants, callers for
more than the network allows. Two attempts (`MaxAttempts`) have a first, a retried
and a final failure. One queued transaction at a time and one fault already give
the leftover transactions and restarts; `RpcLag` 1 gives a reading older than the
ledger, and 0 keeps the two-watch instance small. `MaxQueued` is 6 in the fair
run so that the bound never refuses a submission there. `LedgerWindow` stands
for 200 ledgers and is 1, so that transactions also expire. In BatchPlan four
sizes up to the maximum cover entries that fill the cap, overflow it, exceed it
alone, and saturate the sum. TTLs are equal to, below and above the threshold
in all instances.

**Deadlock** is checked for the poll loop, which never stops, and for contracts
while ledgers close; BatchPlan, RestorePlanner and StorageLints end by design,
and so does a KeeperDaemon whose start failed for good.

**Fairness** (RentKeeper, `FairSpec`). `WF(Keeper)`: RPC calls return, because
the client library times out, and tokio runs the one task there is. The rest is
strong fairness for the calls made for one entry, `LuckyKey`: tried again and
again, its fetch, its preparation on a node that does not lag, its submission
and the inclusion of its transaction succeed now and then. Without that no key
can be promised anything; nothing at all is assumed of the other entries, whose
calls may all fail for ever, which is what makes `LuckyKeyIsServed` say
something about `poll_once`. Ledger closing is not fair: the property holds
however little time passes, or the entry is archived first.

## 4. Proofs

The theorems hold for every value of the constants the assumptions allow: any
number of watches, keys, contracts, users, files and attributes, any policies,
sizes, lags and bounds. For each module:

| Module | Theorem | Statement |
|---|---|---|
| RentKeeper_proofs | `TypeCorrect` | `Spec => []TypeOK` |
| | `LoopInvariant` | `Spec => []IInv` |
| | `CleanReportsCanBeTrusted` | `Spec => []CleanReportsProtect` |
| | `NoExpiryBetweenPolls` | `Spec => NoExpiryWithinThreshold` |
| | `ImplementsPromise` | `Spec => KeepsPromise` |
| | `PollInvariant` | `Spec => []PollInv` |
| | `NoWatchIsSkipped` | `Spec => []WatchesInOrder` |
| | `EveryReportAddsUp` | `Spec => []ReportsAddUp` |
| | `OnlyBatchesAreQueued` | `Spec => []QueuedTransactionsAreBatches` |
| (KeeperDaemon) | `DaemonIsKeeper` | `DaemonSpec => Spec` |
| | `DaemonTypeCorrect` | `DaemonSpec => []DaemonInv /\ []DaemonTypeOK` |
| | `SilenceIsSafe` | `DaemonSpec => []SilenceMeansSafety` |
| | `GaugesHold` | `DaemonSpec => []GaugeInv` |
| | `GaugesAreHonest` | `DaemonSpec => []CompleteGaugesAreHonest` |
| | `SleepIsSafe` | `DaemonSpec => NoExpiryAsleep` |
| | `SubmissionsHaveLanded` | `DaemonSpec => []SubmittedMeansLanded` |
| BatchPlan_proofs | `BatchTypeCorrect` | `Spec => []TypeOK` |
| | `EveryEntryIsBatchedOnce` | `Spec => []EveryEntryOnce` |
| | `EveryBatchIsNext` | `Spec => []EachBatchIsNext` |
| RestorePlanner_proofs | `TypeCorrect` | `Spec => []TypeOK` |
| | `EveryContractHasAResult` | `Spec => []OneResultPerContract` |
| | `DryRunsAreDry` | `Spec => DryRunTouchesNothing` |
| | `NothingCanBeTrusted` | `Spec => []NothingMeansNothing` |
| | `EnvelopesSurvive` | `Spec => []EnvelopesSurviveFailures` |
| ContractStorage_proofs | `TypeCorrect` | `Spec => []TypeOK` |
| | `AccessKeepsAlive` | `Spec => []TouchedEntriesLive` |
| | `PoliciesArePredictable` | `Spec => []TtlIsPredictable` |
| | `AskedIsKept` | `Spec => []AskedTtlsAreKept` |
| | `TtlOnlyGrows` | `Spec => TtlNeverShrinks` |
| | `BumpsAreFew` | `Spec => BumpsAreSpaced` |
| Vault_proofs | `TypeCorrect` | `Spec => []TypeOK` |
| | `PromiseUnlessOverflow` | `Spec /\ [][NoOverflow]_vars => KeepsPromise` |
| | `PromiseWithinFunds` | `Spec => KeepsPromise` if `MaxFunding` times the largest amount fits into an i128 |
| | `NoncesProtect` | `Spec => NoncesHoldForADay` |
| StorageLints_proofs | `TypeCorrect` | `Spec => []TypeOK` |
| | `LintInvariant` | `Spec => []LintInv` |
| | `CriticalSurvives` | `Spec => []CriticalNeverTemporary` |
| | `CleanRunsMeanDurable` | `Spec => []CleanMeansDurable` |
| | `QuietRunsMeanManaged` | `Spec => []QuietMeansManaged` |
| | `BothSeeTheSame` | `Spec => []SameEntry` |

`FiniteSums` and `StorageOps_proofs` hold lemmas only: facts about sums over
finite sets, and what each operation of `ops.rs` does to the store.

Assumptions, each evaluated by TLC in the runs of its component:
`LedgerAssumption` and `KeeperAssumption` (finitely many keys, natural numbers,
at least one watch, threshold below target as `validate` demands),
`DaemonAssumption` (the settings have the types of `Config`), `PlanAssumption`,
`PlannerAssumption` (contracts have entries that exist), `OpsAssumption` (no
lifecycle's minimum TTL is above its maximum, the network's or the code's),
`NamesAssumption`, `StorageAssumption`, `DeclarationsAssumption`,
`VaultAssumption` (section 2) and `LintAssumption` (a file that declares the entry is one the linter reads).

### The rent keeper

`CleanReportsProtect` alone is not inductive: whether a report is
true was decided batch by batch, long before it is returned. `IInv` adds the
loop invariant of `poll_watch`. While all batches counted so far were submitted,
every entry of the watch outlives the threshold from `current`, or is still in
`due` or in `batch` (`LoopProtects`). `TransactionIsForBatch` ties the
transaction in flight to the batch, and says that an applied one has done its
work, which is where threshold below target is needed: it is applied at a
ledger no earlier than `current`, so `ledger + extend_to > current + threshold`.
`ReadingsArePast` says readings are never from the future. What makes all this
stable is that the network only raises the TTLs of live entries (`NetworkEffect`,
`OutlivesStable`), leftover transactions and other watches included.
`NoExpiryBetweenPolls` and `ImplementsPromise` follow from `IInv` step by step;
`CoveredByReports` says that only a clean report moves `covered`.

`PollInv` is the bookkeeping of a poll. A report adds up only if the counts it is
made from did, so it says of the tally in progress what `ReportsAddUp` says of a
finished report, with the batch in progress still to be counted; and a queued
transaction is a batch of one watch only if the batch in hand is, and fits the
cap.

For the process, `DaemonIsKeeper` carries the above over, and four invariants
are added. `DaemonInv` says the sleep clock runs only in the sleep. `QuietInv`
strengthens `SilenceMeansSafety`: of a watch without a counted error, the last
fetch was vouched for by a clean report (`covered = polled`), or is being served
and every batch so far was submitted; and every watch before the one in progress
has been polled. The error counters only grow until a restart empties
everything, so a watch once quiet was quiet at its fetch, and
`CleanReportsProtect` does the rest. `GaugeInv` strengthens both properties of
the gauges: a gauge tells how long its entry lives from the poll, unless the
entry is archived and not every entry was seen, which stays true because TTLs
only grow and archived entries stay archived. `SleepIsSafe` adds the arithmetic
of `validate`: an entry that dies in the sleep had at most `slept` ledgers left,
`slept` is at most the interval in ledgers rounded down, and the threshold is
no less than that. `LandedInv` counts the transaction that was applied and whose
success the keeper has yet to see: the submitted counters of all watches and
that one together are at most what was applied. A submission counted is one that
moves from the second term into the first.

### Batch planning

`EveryEntryOnce` is inductive as it stands: that entries in closed batches come
before those in the open one is what keeps the order when the open one is closed
(`ClosingKeepsOrder`). `EachBatchIsNext` needs `OpenFits`, that the running size
is the size of the open batch, which is within the cap unless it is a lone entry;
the sizes of a batch are a sum over a set, and the loop adds them one by one.

### Restore planner

Its four properties need each other's loop invariant, `PlannerInv`. `LoopInOrder`
says how many results there are at each program counter, `NoConflict` that a
command line `main` rejects never gets past the options, `PlansAreCurrent` that in
a dry run the candidates of a contract nobody disturbs are those of the ledger as
it still is, and `FilesWritten` that every result written so far has its file and
success comes after all of them. The last survives a contract that is listed twice, whose second envelope replaces the
first: it is then that one which is of a plan of this run.

### Storage operations and the example contract

`StorageOps_proofs` says of each operation which entries and TTLs it changes and
how (`GetFacts`, `SetFacts`, ..., `ExpireFacts`, `RestoredFacts`), over the host's
two (`PutFacts`, `ExtendFacts`); both contracts are proved from these alone.
A call has one of three effects (`CallHasEffect`): the policy extends what the
host's put left, a caller asks for a TTL, or the entry goes. `StorageInv` adds to
the properties of ContractStorage what the history variables mean: that an entry
is there while anything is promised of it, and that what its policy last extended
it to has not been taken back, which is why the policy cannot extend it again
before it is that old (`HistoryInv`).

For the vault, `VaultPromise` is shown action by action: `StepIs` says which
money a step moves, whatever the host then does to TTLs (`MoneyMoves`), and
`NotInDebt`, that no balance or grant is negative, is what makes each a step of
the promise. The additions of `deposit` and `claim` are exact only where they do
not wrap; that is a hypothesis on the steps in `PromiseUnlessOverflow`, and
follows in `PromiseWithinFunds` from an invariant that nobody holds more than was
funded. Without it the promise is false, as the run VaultOverflow shows.
`NonceInv` says that the last consumed nonce is remembered at least as long as
its policy's threshold from when it was consumed, or that this time is over.

### Macro and linter

What either program makes of an entry is a fold over its attributes, and over the
options in each. The lemmas replace the folds by closed forms: the last lifecycle
named in an attribute, the last attribute that names one, for the linter the
first, and critical if any says so. `FoldsAgree` does so once for all of them, by
a smallest number of attributes for which a fold and its closed form differ
instead of an induction. `LintInv` says that the linter knows the entry in the
file in progress only (`Progress`), that every file it linted and found broken
has a finding (`NothingMissed`), and that only a run through all the files
without a failing finding exits with 0 (`ExitIsHonest`). For
`CleanRunsMeanDurable` this is enough although the linter cannot read every
attribute: what it then takes for granted is persistent, never temporary, so
that a temporary write is a mismatch all the same.

### What stays with TLC

Liveness (`LuckyKeyIsServed`, `PollsEnd`), which needs `ENABLED`; and the four
runs that end in a counterexample. Facts that would need an induction over data
are proved from a smallest counterexample instead.

## 5. Not modelled

* Of the metrics, `retries_total`, the balance gauge and the time of the last
  poll, from which nothing follows; rendering and the HTTP listener.
* Of the configuration, parsing and environment overrides; the keys
  `build_watch` derives from a contract's instance entry are a parameter. They
  are derived once, so keys that come and go are not either.
* The keeper and the planner on one ledger: the keeper never restores an archived
  entry, and neither tool reads what the other writes, so they are modelled apart.
* Fees, resources, footprint rebuilding from the simulation, signatures and XDR:
  conversions. What matters of them, which keys a transaction carries, its
  sequence number and its validity window, is kept. `soroban-stellar-common`
  holds nothing else.
* What the host refuses outright in a contract's storage calls, beyond an entry
  that is archived or missing: such a call has no effect. Upgrades that change the
  network's TTLs in the course of a behaviour; the theorems hold for whatever they
  are.
* Authorization in the example contract, contract events, doc generation.
* Syntax walking and type resolution of the linter: a call chain is what the
  rules can tell of it, and one entry is declared. Output formats, `--help` and
  `--version`. Options of `#[storage(...)]` that do not parse: compile errors.
* Workflows and scripts: they run cargo and the linter.

## 6. Where code and documentation differ

Shown by runs:

* **RestorePlannerReady.** `plan.rs:43` calls the planned transaction
  "ready-to-sign"; it carries the account's current sequence number
  (`planner.rs:73`, `stellar.rs:66-69`) where the next is required. The rent
  keeper adds one (`soroban-rent-keeper/src/stellar.rs:261`).
* **StorageMacroBump.** `no_bump` ("opt out; manage TTL yourself",
  `docs/storage-guide.md:97`) is undone by any later attribute of the entry
  (`soroban-storage-macros/src/lib.rs:203`, default at 146).
* **ContractStorageBump.** `ops.rs:75` promises no implicit policy bump on reads
  after `set_ttl`; `get` bumps (`ops.rs:44`).
* **VaultOverflow.** `deposit` wraps past `i128::MAX` in a release build
  (`example-contract/src/lib.rs:66`).

Noticed while modelling, without a run of their own:

* `keeper.rs:155` "Returns one result per watch": a failing `latest_ledger`
  yields a single error (169-172).
* `docs/rent-keeper.md:118` counts poll errors as exhausted retries; permanent
  errors, never retried, count too (`keeper.rs:117,179`).
* The gauge of an entry the RPC no longer returns keeps its last value until the
  process ends; `docs/rent-keeper.md:113` describes it as the TTL of the entry.
  `entries_watched` is the only sign (`CompleteGaugesAreHonest`).
* `docs/rent-keeper.md:161-165` justifies the threshold check with the interval;
  the time the poll itself takes is on top of it (see `PromptPoll`).
* The keys are built at startup: after an upgrade of the contract, the new code
  entry is not watched until a restart (`config.rs:18-19`, `stellar.rs:112`).
* A contract listed twice makes two watches with the same metric labels, which
  then overwrite each other's gauges. In the model labels are watches.
* `last_poll` is set before any extension is tried (`keeper.rs:216`).
* With `max_batch_bytes` at `u32::MAX` saturation hides every overflow
  (`risk.rs:92`), which is why `EachBatchIsNext` excludes that cap.
* `ops.rs:72` "pins its TTL to exactly": `extend_ttl` never shortens, so an
  entry that lived longer keeps its TTL (`TtlNeverShrinks` says what the code
  does, and `ops.rs:126-127`, not this comment). `clamped_for` clamps the target and
  leaves the threshold (`ttl.rs:61-75`).
* The example's grants are "claimable for 14 days" (`lib.rs:34,92`); a persistent
  entry is archived, not deleted, and stays claimable once restored.
* The planner writes `<contract>.xdr`: a contract listed twice keeps the later
  envelope only (`main.rs:405-419`). Plans of one batch that are not submitted
  all carry the same sequence number. A file of an earlier run stays in `--out`
  when the contract now fails, needs nothing, or is submitted instead, so the
  directory alone does not tell which envelopes are current.
* Which types are `Critical` and which accessors exist is collected per file,
  while `rules.rs:289` and `parse.rs:101` speak of "this crate": an entry used in
  another file than the one declaring it is judged without its declaration.
* `scan_file` visits the functions of a file and of its impl blocks
  (`parse.rs:215-236`): code in an inline module and the default methods of a trait
  are never linted, nor is a `storage!` block in an inline module found, and
  nothing says so. `CleanMeansDurable` and `QuietMeansManaged` are about what is
  visited.
* The linter takes the first lifecycle of an entry, the macro the last, and an
  attribute with `policy =` is not read at all (`parse.rs:434-457`), so that the
  entry counts as persistent; keys of instance calls are never looked at
  (`rules.rs:241`), nor is the target of `instance().extend_ttl` (491). An
  unreadable file does not change the exit code (`main.rs:112-116`).

## 7. Plan

1. Done: rent keeper, from configuration to metrics, with proofs; batch
   planning; restore planner over successive runs; storage operations; example
   contract; macro and linter over crates of several files.
2. Done: every safety, action and refinement property of the passing runs is a
   theorem (section 4).
3. Model next: a keeper and a contract on one ledger (RentKeeper over StorageOps
   instead of `ContractBump`), so that what the contract's own policies do to
   the TTLs is the framework's; an upgrade of a watched contract; several
   entries per crate in StorageLints.
