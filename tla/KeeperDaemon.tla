----------------------------- MODULE KeeperDaemon -----------------------------
(***************************************************************************)
(* The rent keeper as a process (soroban-rent-keeper/src/main.rs): it      *)
(* loads and validates its configuration, checks the network and the       *)
(* signer's balance, builds its watches, and then runs RentKeeper, asleep  *)
(* for poll_interval_secs between polls.  Every step of RentKeeper is      *)
(* taken here with what it writes to the metrics (metrics.rs), which are   *)
(* all that an operator sees of the keeper.                                *)
(*                                                                         *)
(* Retries and the balance are exported, too; no property is about them.   *)
(***************************************************************************)
EXTENDS RentKeeper

CONSTANTS
  ConfigFiles,  \* the settings the configuration file may hold at a start
  Balances      \* the balances the signer may be found with

\* The contracts of the file are RentKeeper's parameters; the rest is read.
ASSUME DaemonAssumption ==
  /\ Balances \subseteq Int
  /\ ConfigFiles \subseteq [poll_interval_secs: Nat,
                            allow_short_threshold: BOOLEAN,
                            min_signer_balance_stroops: Int]

VARIABLES
  phase,            \* the startup step main is in, "running" or "exited"
  config,           \* the settings loaded
  setup,            \* the watch build_watch is called for
  slept,            \* ledgers closed since run fell asleep
  ttl_ledgers,      \* gauge by watch and entry
  entries_watched,  \* gauge by watch
  extensions_total, \* counter by watch and outcome
  poll_errors,      \* counter by watch, and "global" (watch 0)
  polled,           \* history: the reading of each watch's last fetch
  landed            \* history: extensions applied since the process started,
                    \* the last ones of the process before it included

metrics == <<ttl_ledgers, entries_watched, extensions_total, poll_errors>>
startup == <<phase, config, setup>>
daemonVars == <<vars, startup, slept, metrics, polled, landed>>

Outcomes == {"submitted", "noop", "error"}
NoSample == -1   \* a gauge nothing was written to is not exported

\* Metrics::new: what every process starts with.
NoTtls == [w \in Watches |-> [k \in Keys |-> NoSample]]
NoEntries == [w \in Watches |-> NoSample]
NoExtensions == [w \in Watches |-> [o \in Outcomes |-> 0]]
NoErrors == [w \in Watches \cup {0} |-> 0]

\* No watch was fetched yet (the gauge of last polls is not modelled).
NoPolls == [w \in Watches |-> Never]

NoSettings == [poll_interval_secs |-> 0, allow_short_threshold |-> FALSE,
               min_signer_balance_stroops |-> 0]

\* A process that has just been started.
Launched ==
  /\ phase = "load" /\ config = NoSettings /\ setup = 1
  /\ slept = 0
  /\ ttl_ledgers = NoTtls /\ entries_watched = NoEntries
  /\ extensions_total = NoExtensions /\ poll_errors = NoErrors
  /\ polled = NoPolls
  /\ landed = 0

DaemonInit == Init /\ Launched
-----------------------------------------------------------------------------
(* Configuration *)

\* Mutant: the seconds of a ledger on another network.
MutLedgersPerPoll(secs) == secs \div 10

\* Ledgers that elapse in secs, at five seconds each, rounded down; only
\* intervals of centuries have more of them than fit into a u32.
LedgersPerPoll(secs) == secs \div 5

\* Config::validate.
Valid(c) ==
  /\ NumWatches > 0
  /\ \A w \in Watches : Threshold[w] < ExtendTo[w]
  /\ c.min_signer_balance_stroops >= 0
  /\ c.allow_short_threshold
     \/ \A w \in Watches : Threshold[w] >= LedgersPerPoll(c.poll_interval_secs)

SignerBalanceIsSufficient(balance, floor) == balance >= floor
-----------------------------------------------------------------------------
(* Startup *)

\* Config::load, of whatever the file holds now.
LoadConfig(c) ==
  /\ phase = "load"
  /\ Valid(c)
  /\ config' = c
  /\ phase' = "connect"
  /\ UNCHANGED setup

VerifyNetwork ==
  /\ phase = "connect"
  /\ phase' = "balance"
  /\ UNCHANGED <<config, setup>>

CheckBalance(balance) ==
  /\ phase = "balance"
  /\ SignerBalanceIsSufficient(balance, config.min_signer_balance_stroops)
  /\ phase' = "watches"
  /\ UNCHANGED <<config, setup>>

\* Mutant: the loop runs past the last contract.
MutBuildWatch ==
  /\ phase = "watches"
  /\ IF setup <= NumWatches THEN setup' = setup + 1 /\ UNCHANGED phase
                            ELSE setup' = 1 /\ phase' = "running"
  /\ UNCHANGED config

\* build_watch of one contract; after the last, Keeper::new and run.
BuildWatch ==
  /\ phase = "watches"
  /\ IF setup < NumWatches THEN setup' = setup + 1 /\ UNCHANGED phase
                           ELSE setup' = 1 /\ phase' = "running"
  /\ UNCHANGED config

\* Any startup step fails: an unreadable or invalid file, a wrong network, an
\* RPC error, a balance below the floor, a contract whose instance entry the
\* RPC does not return.  main gives up for good, on all contracts.
StartupFails ==
  /\ phase \in {"load", "connect", "balance", "watches"}
  /\ phase' = "exited"
  /\ config' = NoSettings /\ setup' = 1

Startup ==
  /\ \/ \E c \in ConfigFiles : LoadConfig(c)
     \/ VerifyNetwork
     \/ \E b \in Balances : CheckBalance(b)
     \/ BuildWatch
     \/ StartupFails
  /\ UNCHANGED <<vars, slept, metrics, polled, landed>>
-----------------------------------------------------------------------------
(* The poll loop and its metrics *)

\* The clock of run's sleep: five-second ledgers that close during it.
Asleep == phase = "running" /\ pc = "sleep"

Rested == slept >= config.poll_interval_secs \div 5
MostCloses == (config.poll_interval_secs + 4) \div 5

\* The poll error of a poll that gave up, under the label it was counted.
CountPollError(error, label) ==
  /\ poll_errors' = IF GivesUp(error) THEN [poll_errors EXCEPT ![label] = @ + 1]
                                      ELSE poll_errors
  /\ UNCHANGED <<ttl_ledgers, entries_watched, extensions_total, polled>>

\* inc_extensions of the watch in progress.
CountExtension(outcome) ==
  /\ extensions_total' = [extensions_total EXCEPT ![watch][outcome] = @ + 1]
  /\ UNCHANGED <<ttl_ledgers, entries_watched, poll_errors, polled>>

\* Mutants: a failed extension passes for a successful one, or for nothing.
MutCountFailure(error) == CountExtension("submitted")
MutQuietFailure(error) == CountExtension("noop")

\* An attempt failed; the batch's outcome is an error once with_retry gives up.
CountFailure(error) ==
  IF GivesUp(error) THEN CountExtension("error")
                    ELSE UNCHANGED <<metrics, polled>>

\* Mutant: the configured keys are counted, not the entries returned.
MutEntriesWatched(missing) == Cardinality(WatchKeys[watch])

EntriesWatched(missing) == Cardinality(WatchKeys[watch] \ missing)

\* poll_watch has its snapshots: the gauges of the entries among them, and a
\* noop when nothing is due.  The gauges of missing entries stay as they were.
RecordFetch(missing) ==
  LET seen == WatchKeys[watch] \ missing IN
  /\ entries_watched' = [entries_watched EXCEPT ![watch] = EntriesWatched(missing)]
  /\ ttl_ledgers' = [ttl_ledgers EXCEPT ![watch] =
       [k \in Keys |-> IF k \in seen THEN TtlRemaining(live[k], current) ELSE @[k]]]
  /\ extensions_total' = IF DueEntries(seen) = {}
                           THEN [extensions_total EXCEPT ![watch]["noop"] = @ + 1]
                           ELSE extensions_total
  /\ polled' = [polled EXCEPT ![watch] = current]
  /\ UNCHANGED poll_errors

\* The steps of RentKeeper that write no metric.
SilentStep ==
  /\ \/ StartPoll /\ Rested
     \/ \E r \in Readings : LatestLedger(r) \/ PrepareExtension(r)
     \/ \E b \in SUBSET due : TakeBatch(b)
     \/ FinishWatch
     \/ SendTransaction
  /\ UNCHANGED <<metrics, polled>>

Poll ==
  /\ phase = "running"
  /\ \/ SilentStep
     \/ \E m \in SUBSET WatchKeys[watch] : FetchEntries(m) /\ RecordFetch(m)
     \/ ExtensionSucceeds /\ CountExtension("submitted")
     \/ \E e \in Errors :
          \/ LatestLedgerFails(e) /\ CountPollError(e, 0)
          \/ FetchFails(e) /\ CountPollError(e, watch)
          \/ PrepareFails(e) /\ CountFailure(e)
          \/ SendFails(e) /\ CountFailure(e)
          \/ WaitFails(e) /\ CountFailure(e)
  /\ slept' = 0
  /\ UNCHANGED <<startup, landed>>
-----------------------------------------------------------------------------
(* Around the process *)

\* It dies, or has given up, and is started again.
Relaunch ==
  /\ Restart
  /\ phase' = "load" /\ config' = NoSettings /\ setup' = 1
  /\ slept' = 0
  /\ ttl_ledgers' = NoTtls /\ entries_watched' = NoEntries
  /\ extensions_total' = NoExtensions /\ poll_errors' = NoErrors
  /\ polled' = NoPolls
  /\ landed' = 0

\* Ledgers close; no more of them than fit into a sleep while run is asleep.
Tick ==
  /\ CloseLedger /\ UNCHANGED <<pollVars, faults, covered>>
  /\ Asleep => slept < MostCloses
  /\ slept' = IF Asleep THEN slept + 1 ELSE 0
  /\ UNCHANGED <<startup, metrics, polled, landed>>

Land ==
  /\ \E t \in mempool : ApplyExtension(t)
  /\ landed' = landed + 1
  /\ UNCHANGED <<startup, slept, metrics, polled>>

Others ==
  /\ \/ \E k \in Keys : ContractBump(k) /\ UNCHANGED <<pollVars, faults, covered>>
     \/ \E t \in mempool : Forget(t) /\ UNCHANGED <<pollVars, faults, covered>>
     \/ SpendSequence
  /\ UNCHANGED <<startup, slept, metrics, polled, landed>>

DaemonNext == Startup \/ Poll \/ Relaunch \/ Tick \/ Land \/ Others

DaemonSpec == DaemonInit /\ [][DaemonNext]_daemonVars
-----------------------------------------------------------------------------
(* Properties *)

\* The type of every variable; build_watch is called for contracts there are.
DaemonTypeOK ==
  /\ phase \in {"load", "connect", "balance", "watches", "running", "exited"}
  /\ config \in ConfigFiles \cup {NoSettings}
  /\ setup \in Watches
  /\ slept \in 0 .. MostCloses
  /\ ttl_ledgers \in [Watches -> [Keys -> Nat \cup {NoSample}]]
  /\ entries_watched \in [Watches -> Nat \cup {NoSample}]
  /\ extensions_total \in [Watches -> [Outcomes -> Nat]]
  /\ poll_errors \in [Watches \cup {0} -> Nat]
  /\ polled \in [Watches -> Nat \cup {Never}]
  /\ landed \in Nat

(***************************************************************************)
(* The TTL gauges can be believed while entries_watched counts every key   *)
(* of the watch: each entry lives for at least the exported number of      *)
(* ledgers from the poll.  When it counts fewer, the gauge of an entry the *)
(* RPC did not return still holds what an earlier poll wrote (metrics.rs   *)
(* set_ttl_gauge, set_entries_watched; keeper.rs poll_watch).              *)
(***************************************************************************)
CompleteGaugesAreHonest ==
  \A w \in Watches :
    polled[w] # Never /\ entries_watched[w] = Cardinality(WatchKeys[w]) =>
      \A k \in WatchKeys[w] :
        ttl_ledgers[w][k] > 0 => live[k] >= polled[w] + ttl_ledgers[w][k]

(***************************************************************************)
(* Silence means safety: once the keeper has polled a watch, as long as    *)
(* none of the error counters an operator is told to alert on has moved,   *)
(* every entry of the watch outlives the threshold from that poll, or was  *)
(* archived before it could be extended (docs/rent-keeper.md:121).         *)
(***************************************************************************)
Quiet(w) ==
  /\ poll_errors[0] = 0 /\ poll_errors[w] = 0
  /\ extensions_total[w]["error"] = 0

SilenceMeansSafety ==
  Asleep =>
    \A w \in Watches : Quiet(w) =>
      polled[w] # Never /\ \A k \in WatchKeys[w] : Outlives(k, w, polled[w])

(***************************************************************************)
(* extensions_total{outcome="submitted"} never counts more than the        *)
(* network applied, whatever timed out, was retried, or was left behind by *)
(* an earlier process.                                                     *)
(***************************************************************************)
Submissions == SumFunctionOnSet([w \in Watches |-> extensions_total[w]["submitted"]],
                                Watches)

SubmittedMeansLanded == Submissions <= landed

(***************************************************************************)
(* What validate's check of the thresholds is for (config.rs:132): with a  *)
(* configuration it accepts without being told to, an entry that expires   *)
(* while the keeper sleeps was due at its last poll, unless the poll       *)
(* itself lasted into another ledger.                                      *)
(***************************************************************************)
PromptPoll(w) == ledger - slept <= polled[w]

NoExpiryAsleep ==
  [][Asleep /\ ~config.allow_short_threshold =>
       \A w \in Watches : PromptPoll(w) =>
         \A k \in WatchKeys[w] : ~Archived(k) /\ Archived(k)' =>
           ttl_ledgers[w][k] <= Threshold[w]]_daemonVars
=============================================================================
