--------------------------- MODULE RestorePlanner ---------------------------
(***************************************************************************)
(* The restore planner CLI (soroban-restore-planner): for each contract of *)
(* a config file, or the one named on the command line, it collects the    *)
(* candidate entries, has the network simulate a RestoreFootprintOp over   *)
(* them, rebuilds the transaction from the footprint the simulation        *)
(* returns, and submits it or reports it for signing elsewhere.            *)
(*                                                                         *)
(* The network is external: entries are archived and restored by others,   *)
(* and the account sends other transactions, between any two RPC calls.    *)
(* Fees, ledger and time bounds are left out: of what makes a transaction  *)
(* acceptable only its sequence number is modelled.                        *)
(***************************************************************************)
EXTENDS Integers, FiniteSets, Sequences

CONSTANTS
  Entries,      \* ledger entries
  NumItems,     \* length of BatchConfig.contracts
  Contract,     \* Contract[i]: contract_id of item i
  Instance,     \* Instance[c], Code[c]: the entries of contract c
  Code,
  Data,         \* Data[i]: the explicit keys of item i
  HashGiven,    \* items whose wasm_hash is supplied
  MaxChanges,   \* bound: what others do to the ledger and account meanwhile
  MaxRuns       \* bound: times the command is run

Items == 1 .. NumItems

ASSUME PlannerAssumption ==
  /\ NumItems \in Nat \ {0}
  /\ Data \in [Items -> SUBSET Entries]
  /\ \A i \in Items : {Instance[Contract[i]], Code[Contract[i]]} \subseteq Entries
  /\ HashGiven \subseteq Items
  /\ MaxChanges \in Nat /\ MaxRuns \in Nat \ {0}

VARIABLES
  archived,     \* network: the archived entries
  sequence,     \* network: the source account's sequence number
  changes,      \* what others have done so far
  disturbed,    \* history: entries others archived or restored in this run
  run,          \* which run of the command this is
  opts,         \* the command line and config file
  pc,           \* where main is
  item,         \* the contract in progress, or the report being written
  candidates,   \* its candidate entries
  seqRead,      \* the account sequence planner.plan read
  results,      \* one BatchResult per contract finished
  sent,         \* envelopes given to the network
  files,        \* envelopes written under --out
  exit          \* the exit code

network == <<archived, sequence, changes, disturbed>>
progress == <<item, candidates, seqRead, results>>
command == <<run, opts>>
vars == <<network, command, pc, progress, sent, files, exit>>

\* main with --config or --contract; --submit as a flag or in the config; the
\* account is the signer's wherever a secret is given, else --source.
Options == {o \in [batch: BOOLEAN, dry_run: BOOLEAN, out: BOOLEAN,
                   account: {"none", "source", "signer"},
                   submit: {"no", "flag", "config"}] :
              o.submit = "config" => o.batch}

Envelope == [contract: {Contract[i] : i \in Items}, item: Items,
             keys: SUBSET Entries, seq: Nat, run: 1 .. MaxRuns]
Result == [item: Items, ok: BOOLEAN, archived: SUBSET Entries, seq: Nat,
           submitted: BOOLEAN]

LastItem == IF opts.batch THEN NumItems ELSE 1

Init ==
  /\ archived \in SUBSET Entries
  /\ sequence = 0
  /\ changes = 0
  /\ disturbed = {}
  /\ run = 1
  /\ opts \in Options
  /\ pc = "start"
  /\ item = 1
  /\ candidates = {}
  /\ seqRead = 0
  /\ results = <<>>
  /\ sent = {}
  /\ files = {}
  /\ exit = "running"
-----------------------------------------------------------------------------
(* Options *)

\* Mutant: only the flags are compared.
MutConflicting == opts.dry_run /\ opts.submit = "flag"

\* parse_args refuses the two flags together, run_batch also the config's.
Conflicting == opts.dry_run /\ opts.submit # "no"

Exit(code) == exit' = code /\ pc' = "done"

\* The command line does not parse; the config is unreadable, the network
\* wrong, no account named; or the contracts are next.
Start ==
  /\ pc = "start"
  /\ \/ Exit("usage")
     \/ ~(Conflicting /\ opts.submit = "flag") /\ Exit("failure")
     \/ /\ ~Conflicting /\ opts.account # "none"
        /\ pc' = "resolve"
        /\ UNCHANGED exit
  /\ UNCHANGED <<network, command, progress, sent, files>>
-----------------------------------------------------------------------------
(* One contract *)

\* Mutant: the loop runs past the last contract.
MutPushResult(result) ==
  /\ results' = Append(results, result)
  /\ candidates' = {}
  /\ seqRead' = 0
  /\ IF item <= LastItem THEN item' = item + 1 /\ pc' = "resolve"
                         ELSE item' = 1 /\ pc' = "output"

\* The loop body of run_batch is over, well or badly.
PushResult(result) ==
  /\ results' = Append(results, result)
  /\ candidates' = {}
  /\ seqRead' = 0
  /\ IF item < LastItem THEN item' = item + 1 /\ pc' = "resolve"
                        ELSE item' = 1 /\ pc' = "output"

\* Mutant: the first contract that fails ends the loop.
MutItemFails ==
  /\ results' = Append(results, [item |-> item, ok |-> FALSE, archived |-> {},
                                 seq |-> 0, submitted |-> FALSE])
  /\ candidates' = {} /\ seqRead' = 0 /\ item' = 1 /\ pc' = "output"

ItemFails == PushResult([item |-> item, ok |-> FALSE, archived |-> {},
                         seq |-> 0, submitted |-> FALSE])

\* fetch_wasm_hash finds the hash in the instance entry only while it is live.
HashKnown ==
  item \in HashGiven \/ Instance[Contract[item]] \notin archived

CandidatesOf == {Instance[Contract[item]]} \cup Data[item]
                \cup (IF HashKnown THEN {Code[Contract[item]]} ELSE {})

ResolveCandidates ==
  /\ pc = "resolve"
  /\ candidates' = CandidatesOf
  /\ pc' = "sequence"
  /\ UNCHANGED <<network, command, item, seqRead, results, sent, files, exit>>

\* plan reads the account; latest_ledger before it only sets the bounds.
ReadSequence ==
  /\ pc = "sequence"
  /\ seqRead' = sequence
  /\ pc' = "simulate"
  /\ UNCHANGED <<network, command, item, candidates, results, sent, files, exit>>

\* The archived candidates, as select_archived reads them out of the
\* simulated footprint; they become the footprint of the final transaction.
Planned(submitted) ==
  [item |-> item, ok |-> TRUE, archived |-> candidates \cap archived,
   seq |-> seqRead, submitted |-> submitted]

EnvelopeOf(r) ==
  [contract |-> Contract[r.item], item |-> r.item, keys |-> r.archived,
   seq |-> r.seq, run |-> run]

\* simulate_restore answers; plan_contract reports, or signs the transaction
\* for submission, which takes a secret.
Simulate ==
  /\ pc = "simulate"
  /\ \/ /\ opts.submit = "no"
        /\ PushResult(Planned(FALSE))
        /\ UNCHANGED sent
     \/ /\ opts.submit # "no" /\ opts.account # "signer"
        /\ ItemFails
        /\ UNCHANGED sent
     \/ /\ opts.submit # "no" /\ opts.account = "signer"
        /\ sent' = sent \cup {EnvelopeOf(Planned(FALSE))}
        /\ pc' = "submit"
        /\ UNCHANGED progress
  /\ UNCHANGED <<network, command, files, exit>>

\* The network applies a transaction that carries the next sequence number.
Applicable(envelope) == envelope.seq = sequence + 1

\* submit_envelope: applied, and the answer heard, is success.
Submit ==
  /\ pc = "submit"
  /\ \E envelope \in {e \in sent : e.item = item}, heard \in BOOLEAN :
       /\ IF Applicable(envelope)
            THEN archived' = archived \ envelope.keys /\ sequence' = sequence + 1
            ELSE UNCHANGED <<archived, sequence>>
       /\ IF Applicable(envelope) /\ heard
            THEN PushResult([item |-> item, ok |-> TRUE, submitted |-> TRUE,
                             archived |-> envelope.keys, seq |-> envelope.seq])
            ELSE ItemFails
  /\ UNCHANGED <<changes, disturbed, command, sent, files, exit>>

\* The contract's id, hash or keys do not decode, or any of its RPC calls
\* fails; none is retried.
PlanFails ==
  /\ pc \in {"resolve", "sequence", "simulate"}
  /\ ItemFails
  /\ UNCHANGED <<network, command, sent, files, exit>>
-----------------------------------------------------------------------------
(* Output *)

\* write_batch_envelopes passes over failures and submitted transactions;
\* single mode writes the envelope of whatever succeeded.
ToWrite(r) == r.ok /\ (opts.batch => ~r.submitted)

\* Mutant: nothing archived is reported before failures are looked for.
MutExitCode ==
  CASE opts.dry_run /\ \A i \in 1 .. Len(results) : results[i].archived = {}
                                           -> "nothing_to_restore"
    [] \E i \in 1 .. Len(results) : ~results[i].ok  -> "failure"
    [] OTHER                               -> "success"

ExitCode ==
  CASE \E i \in 1 .. Len(results) : ~results[i].ok  -> "failure"
    [] opts.dry_run /\ \A i \in 1 .. Len(results) :
         results[i].ok /\ results[i].archived = {} -> "nothing_to_restore"
    [] OTHER                               -> "success"

Writing == opts.out /\ ~opts.dry_run /\ item <= Len(results)

\* Mutant: a failed result ends the writing.
MutWriteEnvelope ==
  /\ pc = "output" /\ Writing
  /\ files' = IF results[item].ok THEN files \cup {EnvelopeOf(results[item])}
                                  ELSE files
  /\ item' = IF results[item].ok THEN item + 1 ELSE Len(results) + 1
  /\ UNCHANGED <<network, command, pc, candidates, seqRead, results, sent, exit>>

\* One result of the loop of write_batch_envelopes: a file of its contract.
WriteEnvelope ==
  /\ pc = "output" /\ Writing
  /\ files' = IF ~ToWrite(results[item]) THEN files
              ELSE {f \in files : f.contract # Contract[results[item].item]}
                   \cup {EnvelopeOf(results[item])}
  /\ item' = item + 1
  /\ UNCHANGED <<network, command, pc, candidates, seqRead, results, sent, exit>>

\* The file system refuses a file, or a batch its directory, which it creates
\* before it looks at a result; files already written stay.
WriteFails ==
  /\ pc = "output" /\ Writing
  /\ ToWrite(results[item]) \/ (opts.batch /\ item = 1)
  /\ Exit("failure")
  /\ UNCHANGED <<network, command, progress, sent, files>>

Finish ==
  /\ pc = "output" /\ ~Writing
  /\ Exit(ExitCode)
  /\ UNCHANGED <<network, command, progress, sent, files>>

\* The tool again, with options of its own, over what the last run left in the
\* directory; a single contract's --out is taken to be its file there.
RunAgain ==
  /\ pc = "done" /\ run < MaxRuns
  /\ run' = run + 1
  /\ pc' = "start"
  /\ item' = 1 /\ candidates' = {} /\ seqRead' = 0
  /\ results' = <<>> /\ sent' = {}
  /\ exit' = "running"
  /\ opts' \in Options
  /\ disturbed' = {}
  /\ UNCHANGED <<archived, sequence, changes, files>>

Planner ==
  \/ Start \/ ResolveCandidates \/ ReadSequence \/ Simulate \/ Submit
  \/ PlanFails \/ WriteEnvelope \/ WriteFails \/ Finish
  \/ RunAgain
-----------------------------------------------------------------------------
(* What others do meanwhile *)

Others ==
  /\ pc # "done"
  /\ changes < MaxChanges
  /\ changes' = changes + 1
  /\ \/ \E e \in Entries :
          /\ archived' = IF e \in archived THEN archived \ {e}
                                           ELSE archived \cup {e}
          /\ disturbed' = disturbed \cup {e}
          /\ UNCHANGED sequence
     \/ sequence' = sequence + 1 /\ UNCHANGED <<archived, disturbed>>
  /\ UNCHANGED <<command, pc, progress, sent, files, exit>>

Next == Planner \/ Others

Spec == Init /\ [][Next]_vars
-----------------------------------------------------------------------------
(* Properties *)

\* The type of every variable; the loop never runs past the contracts.
TypeOK ==
  /\ archived \subseteq Entries /\ disturbed \subseteq Entries
  /\ sequence \in Nat /\ changes \in 0 .. MaxChanges
  /\ run \in 1 .. MaxRuns /\ opts \in Options
  /\ pc \in {"start", "resolve", "sequence", "simulate", "submit", "output",
             "done"}
  /\ item \in 1 .. NumItems + 1 /\ (pc # "output" /\ pc # "done" => item \in Items)
  /\ candidates \subseteq Entries
  /\ seqRead \in Nat
  /\ results \in Seq(Result)
  /\ sent \subseteq Envelope /\ files \subseteq Envelope
  /\ exit \in {"running", "success", "failure", "usage", "nothing_to_restore"}

(***************************************************************************)
(* The run continues past failures: results are those of the contracts in  *)
(* order, and nothing is written and no code derived from the results      *)
(* before every contract has one (run_batch's loop).                       *)
(***************************************************************************)
OneResultPerContract ==
  /\ \A i \in 1 .. Len(results) : results[i].item = i
  /\ pc = "output" \/ exit \in {"success", "nothing_to_restore"} =>
       Len(results) = LastItem

(***************************************************************************)
(* No step of a dry run signs and sends anything or touches a file,        *)
(* whichever of the command line and the config file asks for submission   *)
(* and whatever runs before it did (main.rs, run_batch and main).          *)
(***************************************************************************)
DryRunTouchesNothing ==
  [][opts.dry_run => files' = files /\ sent' \subseteq sent]_vars

(***************************************************************************)
(* Exit code 3 can be trusted: nothing is archived of any listed contract, *)
(* not even the code entry of a contract whose hash nobody supplied,       *)
(* unless others archived or restored entries of that contract during this *)
(* very run (main.rs, planner.rs).                                         *)
(***************************************************************************)
EntriesOf(i) == {Instance[Contract[i]], Code[Contract[i]]} \cup Data[i]

Undisturbed(i) == EntriesOf(i) \cap disturbed = {}

NothingMeansNothing ==
  exit = "nothing_to_restore" =>
    \A i \in 1 .. LastItem : Undisturbed(i) => EntriesOf(i) \cap archived = {}

(***************************************************************************)
(* Neither a failed contract nor a failed write costs a contract already   *)
(* passed its envelope, or leaves an old one in its place: each that was   *)
(* planned and not submitted has one file, a plan this run reported for    *)
(* it, whatever runs with other options left in the directory.  Success    *)
(* means that the writer passed all of them (write_batch_envelopes, main). *)
(***************************************************************************)
FilesOf(i) == {f \in files : f.contract = Contract[i]}

HasFile(i) ==
  \E f \in files :
    FilesOf(i) = {f} /\ results[f.item].ok /\ f = EnvelopeOf(results[f.item])

EnvelopesSurviveFailures ==
  /\ pc \in {"output", "done"} =>
       \A i \in 1 .. item - 1 : ToWrite(results[i]) => HasFile(i)
  /\ exit = "success" /\ opts.out /\ ~opts.dry_run => item = LastItem + 1

(***************************************************************************)
(* A plan holds "The ready-to-sign RestoreFootprintOp transaction"         *)
(* (plan.rs:43): while nobody else acts, its sequence number has not been  *)
(* used up.  The code does not keep this.                                  *)
(***************************************************************************)
ReadyToSign ==
  \A i \in 1 .. Len(results) :
    changes = 0 /\ results[i].ok => results[i].seq > sequence
=============================================================================
