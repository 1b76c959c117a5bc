------------------------ MODULE RestorePlanner_proofs ------------------------
(***************************************************************************)
(* Theorems about RestorePlanner, for all config files, contracts, entries *)
(* and bounds, and whatever others do to the ledger meanwhile.             *)
(***************************************************************************)
EXTENDS RestorePlanner, TLAPS

Working == {"resolve", "sequence", "simulate", "submit"}
ExitCodes == {"success", "failure", "usage", "nothing_to_restore"}

\* The loop of run_batch is as far as its results say.
LoopInOrder ==
  /\ \A i \in 1 .. Len(results) : results[i].item = i
  /\ pc = "start" => results = <<>> /\ item = 1
  /\ pc \in Working => Len(results) = item - 1 /\ item <= LastItem
  /\ pc = "output" => Len(results) = LastItem
  /\ pc \in {"output", "done"} => item <= LastItem + 1
  /\ pc = "done" /\ item > 1 => Len(results) = LastItem
  /\ exit \in {"success", "nothing_to_restore"} => Len(results) = LastItem
  /\ pc # "done" => exit = "running"

\* A conflicting command line never gets past the options.
NoConflict ==
  /\ pc \in Working => ~Conflicting
  /\ pc = "submit" => opts.submit # "no"

\* In a dry run the candidates of a contract nobody disturbs are those of the
\* ledger as it still is, and an empty plan is one with nothing archived.
PlansAreCurrent ==
  /\ opts.dry_run =>
       /\ pc \in {"sequence", "simulate"} /\ Undisturbed(item) =>
            candidates = CandidatesOf
       /\ \A i \in 1 .. Len(results) :
            results[i].ok /\ results[i].archived = {} /\ Undisturbed(i) =>
              EntriesOf(i) \cap archived = {}
  /\ exit = "nothing_to_restore" =>
       /\ opts.dry_run
       /\ \A i \in 1 .. Len(results) :
            results[i].ok /\ results[i].archived = {}

\* The writer's results so far have their files; it succeeds at the end.
FilesWritten ==
  /\ pc \in {"output", "done"} =>
       \A i \in 1 .. item - 1 : ToWrite(results[i]) => HasFile(i)
  /\ exit = "success" => ~Writing

PlannerInv ==
  /\ LoopInOrder
  /\ NoConflict
  /\ PlansAreCurrent
  /\ FilesWritten

\* The last item of the loop is an item.
LEMMA LastItemType ==
  ASSUME TypeOK
  PROVE  LastItem \in Items /\ NumItems \in Nat /\ Items = 1 .. NumItems
BY PlannerAssumption DEF TypeOK, LastItem, Items

\* The entries of the contracts are ledger entries.
LEMMA CandidatesType ==
  ASSUME TypeOK, item \in Items
  PROVE  CandidatesOf \subseteq Entries
BY PlannerAssumption DEF CandidatesOf

\* An envelope made from a result.
LEMMA EnvelopeType ==
  ASSUME TypeOK, NEW STATE r, r \in Result
  PROVE  EnvelopeOf(r) \in Envelope
<1>1. /\ r.item \in Items /\ r.archived \subseteq Entries /\ r.seq \in Nat
      /\ run \in 1 .. MaxRuns
  BY DEF Result, TypeOK
<1> QED
  BY <1>1 DEF EnvelopeOf, Envelope

\* A plan, whether or not it is submitted, is a result.
LEMMA PlannedType ==
  ASSUME TypeOK, item \in Items
  PROVE  /\ Planned(FALSE) \in Result
         /\ Planned(FALSE).item = item
         /\ Planned(FALSE).archived = candidates \cap archived
BY DEF Planned, Result, TypeOK

\* So is a failure.
LEMMA FailureType ==
  ASSUME item \in Items
  PROVE  LET r == [item |-> item, ok |-> FALSE, archived |-> {}, seq |-> 0,
                   submitted |-> FALSE]
         IN r \in Result /\ r.item = item /\ ~r.ok
BY DEF Result

(***************************************************************************)
(* Pushing the result of the contract in progress.  In a dry run an empty  *)
(* plan of an undisturbed contract has to mean that nothing of it is       *)
(* archived.                                                               *)
(***************************************************************************)
LEMMA PushResultKeeps ==
  ASSUME TypeOK, PlannerInv, pc \in Working,
         NEW STATE r, r \in Result, r.item = item, PushResult(r),
         UNCHANGED <<command, changes, disturbed, sent, files, exit>>,
         archived' \subseteq Entries, sequence' \in Nat,
         opts.dry_run =>
           /\ archived' = archived
           /\ r.ok /\ r.archived = {} /\ Undisturbed(item) =>
                EntriesOf(item) \cap archived = {}
  PROVE  TypeOK' /\ PlannerInv'
<1>0. /\ NumItems \in Nat /\ Items = 1 .. NumItems /\ LastItem \in Items
      /\ results \in Seq(Result) /\ item \in Items
      /\ LastItem' = LastItem
  BY LastItemType DEF TypeOK, Working, LastItem, command
<1>1. /\ Len(results) = item - 1 /\ item <= LastItem
      /\ \A i \in 1 .. Len(results) : results[i].item = i
      /\ exit = "running"
  BY DEF PlannerInv, LoopInOrder, Working
<1>2. /\ results' = Append(results, r) /\ candidates' = {} /\ seqRead' = 0
      /\ \/ item < LastItem /\ item' = item + 1 /\ pc' = "resolve"
         \/ item >= LastItem /\ item' = 1 /\ pc' = "output"
      /\ UNCHANGED <<run, opts, changes, disturbed, sent, files, exit>>
  BY <1>0 DEF PushResult, command
<1>3. /\ results' \in Seq(Result) /\ Len(results') = item
      /\ \A i \in 1 .. Len(results') :
           results'[i] = IF i = item THEN r ELSE results[i]
  BY <1>0, <1>1, <1>2
<1>4. /\ pc' \in {"resolve", "output"}
      /\ item' \in Items
      /\ pc' = "resolve" => item' = item + 1 /\ item' <= LastItem
      /\ pc' = "output" => item = LastItem /\ item' = 1
  BY <1>0, <1>1, <1>2
<1>5. TypeOK'
  BY <1>0, <1>2, <1>3, <1>4 DEF TypeOK
<1>6. LoopInOrder'
  BY <1>0, <1>1, <1>2, <1>3, <1>4 DEF LoopInOrder, Working
<1>7. NoConflict'
  BY <1>2 DEF PlannerInv, NoConflict, Conflicting
<1>8. PlansAreCurrent'
  <2>1. ASSUME opts.dry_run, NEW i \in 1 .. Len(results'),
               results'[i].ok, results'[i].archived = {}, Undisturbed(i)
        PROVE  EntriesOf(i) \cap archived' = {}
    <3>1. CASE i = item
      BY <1>3, <2>1, <3>1
    <3>2. CASE i # item
      <4>1. i \in 1 .. Len(results) /\ results'[i] = results[i]
        BY <1>0, <1>1, <1>3, <3>2
      <4> QED
        BY <2>1, <4>1 DEF PlannerInv, PlansAreCurrent
    <3> QED
      BY <3>1, <3>2
  <2> QED
    BY <1>1, <1>2, <1>4, <2>1 DEF PlansAreCurrent, EntriesOf, Undisturbed
<1>9. FilesWritten'
  BY <1>1, <1>2, <1>4 DEF FilesWritten
<1> QED
  BY <1>5, <1>6, <1>7, <1>8, <1>9 DEF PlannerInv

\* A failed contract is a result like any other.
LEMMA ItemFailsKeeps ==
  ASSUME TypeOK, PlannerInv, pc \in Working, ItemFails,
         UNCHANGED <<command, changes, disturbed, sent, files, exit>>,
         archived' \subseteq Entries, sequence' \in Nat,
         opts.dry_run => archived' = archived
  PROVE  TypeOK' /\ PlannerInv'
<1> DEFINE r == [item |-> item, ok |-> FALSE, archived |-> {}, seq |-> 0,
                 submitted |-> FALSE]
<1>1. item \in Items
  BY DEF TypeOK, Working
<1>2. r \in Result /\ r.item = item /\ ~r.ok
  BY <1>1, FailureType
<1>3. PushResult(r)
  BY DEF ItemFails
<1> HIDE DEF r
<1> QED
  BY <1>2, <1>3, PushResultKeeps

\* main, up to the first contract or an early exit.
LEMMA StartKeeps ==
  ASSUME TypeOK, PlannerInv, Start
  PROVE  TypeOK' /\ PlannerInv'
<1>1. /\ pc = "start" /\ results = <<>> /\ item = 1 /\ exit = "running"
      /\ UNCHANGED <<archived, sequence, changes, disturbed, run, opts,
                     item, candidates, seqRead, results, sent, files>>
  BY DEF Start, PlannerInv, LoopInOrder, network, command, progress
<1>2. \/ pc' = "done" /\ exit' \in {"usage", "failure"}
      \/ pc' = "resolve" /\ exit' = "running" /\ ~Conflicting
  BY <1>1 DEF Start, Exit
<1>3. LastItem' = LastItem /\ LastItem \in Nat /\ 1 <= LastItem
  BY <1>1, LastItemType DEF LastItem
<1>4. TypeOK'
  BY <1>1, <1>2 DEF TypeOK
<1>5. LoopInOrder'
  BY <1>1, <1>2, <1>3 DEF LoopInOrder, Working
<1>6. NoConflict'
  BY <1>1, <1>2
  DEF PlannerInv, NoConflict, Conflicting, Working
<1>7. PlansAreCurrent' /\ FilesWritten'
  BY <1>1, <1>2 DEF PlansAreCurrent, FilesWritten
<1> QED
  BY <1>4, <1>5, <1>6, <1>7 DEF PlannerInv

\* Steps that only move on within a contract.
LEMMA MoveOnKeeps ==
  ASSUME TypeOK, TypeOK', PlannerInv, pc \in Working, pc' \in Working,
         UNCHANGED <<archived, sequence, changes, disturbed, run, opts,
                     item, results, files, exit>>,
         opts.dry_run => sent' = sent,
         pc' = "submit" => opts.submit # "no",
         pc' \in {"sequence", "simulate"} /\ pc # "resolve" =>
           candidates' = candidates /\ pc \in {"sequence", "simulate"},
         pc = "resolve" => candidates' = CandidatesOf
  PROVE  PlannerInv'
<1>1. LastItem' = LastItem /\ CandidatesOf' = CandidatesOf
  BY DEF LastItem, CandidatesOf, HashKnown
<1>2. LoopInOrder'
  BY <1>1 DEF PlannerInv, LoopInOrder, Working
<1>3. NoConflict'
  BY DEF PlannerInv, NoConflict, Conflicting
<1>4. PlansAreCurrent'
  BY <1>1 DEF PlannerInv, PlansAreCurrent, EntriesOf, Undisturbed
<1>5. FilesWritten'
  BY DEF PlannerInv, LoopInOrder, FilesWritten, Working
<1> QED
  BY <1>2, <1>3, <1>4, <1>5 DEF PlannerInv

\* The candidates are collected, and the account's sequence number read.
LEMMA ResolveKeeps ==
  ASSUME TypeOK, PlannerInv, ResolveCandidates \/ ReadSequence
  PROVE  TypeOK' /\ PlannerInv'
<1>1. CASE ResolveCandidates
  <2>1. /\ pc = "resolve" /\ pc' = "sequence" /\ candidates' = CandidatesOf
        /\ UNCHANGED <<archived, sequence, changes, disturbed, run, opts,
                       item, seqRead, results, sent, files, exit>>
    BY <1>1 DEF ResolveCandidates, network, command
  <2>2. CandidatesOf \subseteq Entries
    BY <2>1, CandidatesType DEF TypeOK
  <2>3. TypeOK'
    BY <2>1, <2>2 DEF TypeOK
  <2> QED
    BY <2>1, <2>3, MoveOnKeeps DEF Working
<1>2. CASE ReadSequence
  <2>1. /\ pc = "sequence" /\ pc' = "simulate" /\ seqRead' = sequence
        /\ UNCHANGED <<archived, sequence, changes, disturbed, run, opts,
                       item, candidates, results, sent, files, exit>>
    BY <1>2 DEF ReadSequence, network, command
  <2>2. TypeOK'
    BY <2>1 DEF TypeOK
  <2> QED
    BY <2>1, <2>2, MoveOnKeeps DEF Working
<1> QED
  BY <1>1, <1>2

\* The simulation answers: with nothing archived among the candidates, not the
\* instance entry either, so that the code entry was among them.
LEMMA SimulateKeeps ==
  ASSUME TypeOK, PlannerInv, Simulate
  PROVE  TypeOK' /\ PlannerInv'
<1>1. /\ pc = "simulate" /\ item \in Items
      /\ UNCHANGED <<archived, sequence, changes, disturbed, run, opts,
                     files, exit>>
  BY DEF Simulate, network, command, TypeOK
<1>2. CASE PushResult(Planned(FALSE)) /\ UNCHANGED sent
  <2> DEFINE r == Planned(FALSE)
  <2>1. r \in Result /\ r.item = item /\ r.archived = candidates \cap archived
    BY <1>1, PlannedType
  <2>2. ASSUME opts.dry_run, r.archived = {}, Undisturbed(item)
        PROVE  EntriesOf(item) \cap archived = {}
    <3>1. CandidatesOf \cap archived = {}
      BY <1>1, <2>1, <2>2 DEF PlannerInv, PlansAreCurrent
    <3>2. HashKnown
      BY <3>1 DEF CandidatesOf, HashKnown
    <3> QED
      BY <3>1, <3>2 DEF CandidatesOf, EntriesOf
  <2>3. archived' \subseteq Entries /\ sequence' \in Nat
    BY <1>1 DEF TypeOK
  <2> HIDE DEF r
  <2> QED
    BY <1>1, <1>2, <2>1, <2>2, <2>3, PushResultKeeps DEF r, Working, command
<1>3. CASE ItemFails /\ UNCHANGED sent
  <2>1. archived' \subseteq Entries /\ sequence' \in Nat
    BY <1>1 DEF TypeOK
  <2> QED
    BY <1>1, <1>3, <2>1, ItemFailsKeeps DEF Working, command
<1>4. CASE /\ opts.submit # "no"
           /\ sent' = sent \cup {EnvelopeOf(Planned(FALSE))}
           /\ pc' = "submit"
           /\ UNCHANGED progress
  <2>1. EnvelopeOf(Planned(FALSE)) \in Envelope
    BY <1>1, PlannedType, EnvelopeType
  <2>2. TypeOK'
    BY <1>1, <1>4, <2>1 DEF TypeOK, progress
  <2>3. ~opts.dry_run
    BY <1>1, <1>4 DEF PlannerInv, NoConflict, Conflicting, Working
  <2> QED
    BY <1>1, <1>4, <2>2, <2>3, MoveOnKeeps DEF Working, progress
<1> QED
  BY <1>2, <1>3, <1>4 DEF Simulate

\* A submission; there is none in a dry run.
LEMMA SubmitKeeps ==
  ASSUME TypeOK, PlannerInv, Submit
  PROVE  TypeOK' /\ PlannerInv'
<1>1. PICK envelope \in {e \in sent : e.item = item}, heard \in BOOLEAN :
       /\ IF Applicable(envelope)
            THEN archived' = archived \ envelope.keys /\ sequence' = sequence + 1
            ELSE UNCHANGED <<archived, sequence>>
       /\ IF Applicable(envelope) /\ heard
            THEN PushResult([item |-> item, ok |-> TRUE, submitted |-> TRUE,
                             archived |-> envelope.keys, seq |-> envelope.seq])
            ELSE ItemFails
  BY DEF Submit
<1>2. /\ pc = "submit" /\ item \in Items
      /\ UNCHANGED <<changes, disturbed, command, sent, files, exit>>
  BY DEF Submit, TypeOK
<1>3. /\ envelope.keys \subseteq Entries /\ envelope.seq \in Nat
      /\ archived' \subseteq Entries /\ sequence' \in Nat
  BY <1>1 DEF TypeOK, Envelope
<1>4. ~opts.dry_run
  BY <1>2 DEF PlannerInv, NoConflict, Working, Conflicting
<1>5. CASE ItemFails
  BY <1>2, <1>3, <1>4, <1>5, ItemFailsKeeps DEF Working
<1>6. CASE PushResult([item |-> item, ok |-> TRUE, submitted |-> TRUE,
                       archived |-> envelope.keys, seq |-> envelope.seq])
  <2> DEFINE r == [item |-> item, ok |-> TRUE, submitted |-> TRUE,
                   archived |-> envelope.keys, seq |-> envelope.seq]
  <2>1. r \in Result /\ r.item = item
    BY <1>2, <1>3 DEF Result
  <2> HIDE DEF r
  <2> QED
    BY <1>2, <1>3, <1>4, <1>6, <2>1, PushResultKeeps DEF r, Working
<1> QED
  BY <1>1, <1>5, <1>6

\* Any call for a contract fails.
LEMMA PlanFailsKeeps ==
  ASSUME TypeOK, PlannerInv, PlanFails
  PROVE  TypeOK' /\ PlannerInv'
<1>1. /\ pc \in Working /\ ItemFails
      /\ UNCHANGED <<archived, sequence, changes, disturbed, command, sent,
                     files, exit>>
  BY DEF PlanFails, Working, network
<1>2. archived' \subseteq Entries /\ sequence' \in Nat
  BY <1>1 DEF TypeOK
<1> QED
  BY <1>1, <1>2, ItemFailsKeeps

\* An envelope is written, over the one of an earlier result or run.
LEMMA WriteEnvelopeKeeps ==
  ASSUME TypeOK, PlannerInv, WriteEnvelope
  PROVE  TypeOK' /\ PlannerInv'
<1>1. /\ pc = "output" /\ item <= Len(results) /\ opts.out /\ ~opts.dry_run
      /\ item' = item + 1
      /\ files' = IF ~ToWrite(results[item]) THEN files
                  ELSE {f \in files : f.contract # Contract[results[item].item]}
                       \cup {EnvelopeOf(results[item])}
      /\ UNCHANGED <<archived, sequence, changes, disturbed, run, opts, pc,
                     candidates, seqRead, results, sent, exit>>
  BY DEF WriteEnvelope, Writing, network, command
<1>2. /\ NumItems \in Nat /\ LastItem \in 1 .. NumItems /\ item \in Nat
      /\ item >= 1 /\ results \in Seq(Result) /\ Len(results) = LastItem
      /\ LastItem' = LastItem
  BY <1>1, LastItemType
  DEF TypeOK, PlannerInv, LoopInOrder, Items, LastItem
<1>3. /\ results[item] \in Result
      /\ results[item].item = item
  BY <1>1, <1>2 DEF PlannerInv, LoopInOrder
<1>4. TypeOK'
  <2>1. files' \subseteq Envelope
    BY <1>1, <1>3, EnvelopeType DEF TypeOK
  <2>2. item' \in 1 .. NumItems + 1
    BY <1>1, <1>2
  <2> QED
    BY <1>1, <2>1, <2>2 DEF TypeOK
<1>5. LoopInOrder'
  BY <1>1, <1>2 DEF PlannerInv, LoopInOrder, Working
<1>6. NoConflict'
  BY <1>1 DEF PlannerInv, NoConflict, Working
<1>7. PlansAreCurrent'
  BY <1>1 DEF PlannerInv, PlansAreCurrent, EntriesOf, Undisturbed
<1>8. FilesWritten'
  <2> DEFINE e == EnvelopeOf(results[item])
  <2>1. /\ e.contract = Contract[item] /\ e.item = item
        /\ \A r : EnvelopeOf(r)' = EnvelopeOf(r)
        /\ \A r : ToWrite(r)' = ToWrite(r)
    BY <1>1, <1>3 DEF EnvelopeOf, ToWrite
  <2>2. ASSUME NEW i \in 1 .. item, ToWrite(results[i]) PROVE HasFile(i)'
    <3>1. CASE ~ToWrite(results[item])
      <4>1. i \in 1 .. item - 1 /\ files' = files
        BY <1>1, <1>2, <2>2, <3>1
      <4>2. HasFile(i)
        BY <1>1, <2>2, <4>1 DEF PlannerInv, FilesWritten
      <4> QED
        BY <1>1, <2>1, <4>1, <4>2 DEF HasFile, FilesOf
    <3>2. CASE ToWrite(results[item]) /\ Contract[i] = Contract[item]
      <4>1. files' = {f \in files : f.contract # Contract[item]} \cup {e}
        BY <1>1, <1>3, <3>2
      <4>2. FilesOf(i)' = {e}
        BY <2>1, <3>2, <4>1 DEF FilesOf
      <4>3. e \in files' /\ results[e.item].ok /\ e = EnvelopeOf(results[e.item])
        BY <2>1, <3>2, <4>1 DEF ToWrite
      <4> HIDE DEF e
      <4> QED
        BY <1>1, <2>1, <4>2, <4>3 DEF HasFile
    <3>3. CASE ToWrite(results[item]) /\ Contract[i] # Contract[item]
      <4>1. files' = {f \in files : f.contract # Contract[item]} \cup {e}
        BY <1>1, <1>3, <3>3
      <4>2. i \in 1 .. item - 1
        BY <1>2, <2>2, <3>3
      <4>3. PICK f \in files : /\ FilesOf(i) = {f} /\ results[f.item].ok
                               /\ f = EnvelopeOf(results[f.item])
        BY <1>1, <2>2, <4>2 DEF PlannerInv, FilesWritten, HasFile
      <4>4. f.contract = Contract[i]
        BY <4>3 DEF FilesOf
      <4>5. f \in files' /\ FilesOf(i)' = {f}
        BY <2>1, <3>3, <4>1, <4>3, <4>4 DEF FilesOf
      <4> QED
        BY <1>1, <2>1, <4>3, <4>5 DEF HasFile
    <3> QED
      BY <3>1, <3>2, <3>3
  <2>3. item' - 1 = item
    BY <1>1, <1>2
  <2> QED
    BY <1>1, <2>1, <2>2, <2>3 DEF PlannerInv, LoopInOrder, FilesWritten
<1> QED
  BY <1>4, <1>5, <1>6, <1>7, <1>8 DEF PlannerInv

\* main ends, well or badly, and its exit code says which.
LEMMA EndKeeps ==
  ASSUME TypeOK, PlannerInv, WriteFails \/ Finish
  PROVE  TypeOK' /\ PlannerInv'
<1>1. /\ pc = "output" /\ pc' = "done"
      /\ UNCHANGED <<archived, sequence, changes, disturbed, run, opts,
                     item, candidates, seqRead, results, sent, files>>
      /\ exit' = "failure" \/ (exit' = ExitCode /\ ~Writing)
  BY DEF WriteFails, Finish, Exit, network, command, progress
<1>2. /\ LastItem' = LastItem /\ Len(results) = LastItem
      /\ item \in Nat
  BY <1>1 DEF LastItem, PlannerInv, LoopInOrder, TypeOK
<1>3. /\ exit' \in {"failure", "nothing_to_restore", "success"}
      /\ exit' = "nothing_to_restore" =>
           /\ opts.dry_run
           /\ \A i \in 1 .. Len(results) :
                results[i].ok /\ results[i].archived = {}
  BY <1>1 DEF ExitCode
<1>4. TypeOK'
  BY <1>1, <1>3 DEF TypeOK
<1>5. LoopInOrder'
  BY <1>1, <1>2 DEF PlannerInv, LoopInOrder, Working
<1>6. NoConflict'
  BY <1>1 DEF PlannerInv, NoConflict, Working
<1>7. PlansAreCurrent'
  BY <1>1, <1>3 DEF PlannerInv, PlansAreCurrent, EntriesOf, Undisturbed
<1>8. FilesWritten'
  BY <1>1
  DEF PlannerInv, FilesWritten, HasFile, FilesOf, EnvelopeOf, ToWrite, Writing
<1> QED
  BY <1>4, <1>5, <1>6, <1>7, <1>8 DEF PlannerInv

\* The command is run again.
LEMMA RunAgainKeeps ==
  ASSUME TypeOK, PlannerInv, RunAgain
  PROVE  TypeOK' /\ PlannerInv'
<1>1. /\ pc' = "start" /\ run' = run + 1 /\ run < MaxRuns
      /\ item' = 1 /\ candidates' = {} /\ seqRead' = 0 /\ results' = <<>>
      /\ sent' = {} /\ exit' = "running"
      /\ opts' \in Options /\ disturbed' = {}
      /\ UNCHANGED <<archived, sequence, changes, files>>
  BY DEF RunAgain, network
<1>2. TypeOK'
  <2>1. run' \in 1 .. MaxRuns /\ 1 \in Items /\ 1 \in 1 .. NumItems + 1
    BY <1>1, PlannerAssumption DEF TypeOK, Items
  <2> QED
    BY <1>1, <2>1 DEF TypeOK
<1>3. LoopInOrder' /\ NoConflict'
  BY <1>1 DEF PlannerInv, LoopInOrder, NoConflict, Working
<1>4. PlansAreCurrent' /\ FilesWritten'
  BY <1>1 DEF PlansAreCurrent, FilesWritten
<1> QED
  BY <1>2, <1>3, <1>4 DEF PlannerInv

\* Others act, which from then on is on record.
LEMMA OthersKeep ==
  ASSUME TypeOK, PlannerInv, Others
  PROVE  TypeOK' /\ PlannerInv'
<1>1. /\ pc # "done" /\ changes < MaxChanges /\ changes' = changes + 1
      /\ UNCHANGED <<run, opts, pc, item, candidates, seqRead, results, sent,
                     files, exit>>
      /\ archived' \subseteq Entries /\ sequence' \in Nat
      /\ disturbed \subseteq disturbed' /\ disturbed' \subseteq Entries
      /\ \A e : e \notin disturbed' => (e \in archived' <=> e \in archived)
  BY DEF Others, command, progress, TypeOK
<1>2. changes' \in 0 .. MaxChanges
  BY <1>1, PlannerAssumption DEF TypeOK
<1>3. TypeOK'
  BY <1>1, <1>2 DEF TypeOK
<1>4. LoopInOrder'
  BY <1>1 DEF PlannerInv, LoopInOrder, LastItem
<1>5. NoConflict'
  BY <1>1 DEF PlannerInv, NoConflict, Conflicting
<1>6. PlansAreCurrent'
  <2>1. ASSUME NEW i, Undisturbed(i)'
        PROVE  /\ Undisturbed(i)
               /\ EntriesOf(i) \cap archived' = EntriesOf(i) \cap archived
    BY <1>1, <2>1 DEF Undisturbed, EntriesOf
  <2>2. Undisturbed(item)' => CandidatesOf' = CandidatesOf
    <3>1. Instance[Contract[item]] \in EntriesOf(item)
      BY DEF EntriesOf
    <3> QED
      BY <1>1, <2>1, <3>1 DEF CandidatesOf, HashKnown
  <2>3. \A i : EntriesOf(i)' = EntriesOf(i)
    BY DEF EntriesOf
  <2> QED
    BY <1>1, <2>1, <2>2, <2>3 DEF PlannerInv, PlansAreCurrent
<1>7. FilesWritten'
  BY <1>1
  DEF PlannerInv, FilesWritten, HasFile, FilesOf, EnvelopeOf, ToWrite, Writing
<1> QED
  BY <1>3, <1>4, <1>5, <1>6, <1>7 DEF PlannerInv

\* Types and invariant hold throughout.
LEMMA PlannerInvariant == Spec => [](TypeOK /\ PlannerInv)
<1>1. Init => TypeOK /\ PlannerInv
  <2> SUFFICES ASSUME Init PROVE TypeOK /\ PlannerInv
    OBVIOUS
  <2>1. 1 \in Items /\ 1 \in 1 .. NumItems + 1 /\ 1 \in 1 .. MaxRuns
        /\ 0 \in 0 .. MaxChanges
    BY PlannerAssumption DEF Items
  <2>2. TypeOK
    BY <2>1 DEF Init, TypeOK
  <2>3. LoopInOrder /\ NoConflict
    BY DEF Init, LoopInOrder, NoConflict, Working
  <2>4. PlansAreCurrent /\ FilesWritten
    BY DEF Init, PlansAreCurrent, FilesWritten
  <2> QED
    BY <2>2, <2>3, <2>4 DEF PlannerInv
<1>2. TypeOK /\ PlannerInv /\ [Next]_vars => (TypeOK /\ PlannerInv)'
  <2> SUFFICES ASSUME TypeOK, PlannerInv, [Next]_vars
               PROVE  TypeOK' /\ PlannerInv'
    OBVIOUS
  <2>1. CASE UNCHANGED vars
    <3>1. UNCHANGED <<archived, sequence, changes, disturbed, run, opts,
                      pc, item, candidates, seqRead, results, sent, files,
                      exit>>
      BY <2>1 DEF vars, network, command, progress
    <3>2. TypeOK'
      BY <3>1 DEF TypeOK
    <3>3. LoopInOrder' /\ NoConflict'
      BY <3>1 DEF PlannerInv, LoopInOrder, NoConflict, Conflicting, LastItem
    <3>4. PlansAreCurrent'
      BY <3>1 DEF PlannerInv, PlansAreCurrent, CandidatesOf, HashKnown, EntriesOf,
                  Undisturbed
    <3>5. FilesWritten'
      BY <3>1 DEF PlannerInv, FilesWritten, HasFile, FilesOf, EnvelopeOf, ToWrite,
                  Writing
    <3> QED
      BY <3>2, <3>3, <3>4, <3>5 DEF PlannerInv
  <2> QED
    BY <2>1, StartKeeps, ResolveKeeps, SimulateKeeps, SubmitKeeps,
       PlanFailsKeeps, WriteEnvelopeKeeps, EndKeeps, RunAgainKeeps, OthersKeep
    DEF Next, Planner
<1> QED
  BY <1>1, <1>2, PTL DEF Spec

(***************************************************************************)
(* Every variable keeps its type, and the loop stays within the contracts. *)
(***************************************************************************)
THEOREM TypeCorrect == Spec => []TypeOK
BY PlannerInvariant, PTL

(***************************************************************************)
(* A failing contract does not end the run: there is one result for each   *)
(* contract, in order, before anything is written or reported.             *)
(***************************************************************************)
THEOREM EveryContractHasAResult == Spec => []OneResultPerContract
<1>1. TypeOK /\ PlannerInv => OneResultPerContract
  BY DEF PlannerInv, LoopInOrder, OneResultPerContract
<1> QED
  BY <1>1, PlannerInvariant, PTL

(***************************************************************************)
(* No step of a dry run sends a transaction or touches a file, whatever    *)
(* asks for more and whatever earlier runs sent and wrote.                 *)
(***************************************************************************)
THEOREM DryRunsAreDry == Spec => DryRunTouchesNothing
<1>1. TypeOK /\ PlannerInv /\ [Next]_vars
        => [opts.dry_run => files' = files /\ sent' \subseteq sent]_vars
  <2> SUFFICES ASSUME TypeOK, PlannerInv, Next, opts.dry_run
               PROVE  files' = files /\ sent' \subseteq sent
    BY DEF vars
  <2>1. pc \in Working => opts.submit = "no"
    BY DEF PlannerInv, NoConflict, Conflicting
  <2>2. CASE Start \/ ResolveCandidates \/ ReadSequence \/ PlanFails
    BY <2>2 DEF Start, ResolveCandidates, ReadSequence, PlanFails
  <2>3. CASE Simulate
    BY <2>1, <2>3 DEF Simulate, Working
  <2>4. CASE Submit \/ WriteFails \/ Finish \/ Others
    BY <2>4 DEF Submit, WriteFails, Finish, Others
  <2>5. CASE WriteEnvelope
    BY <2>5 DEF WriteEnvelope, Writing
  <2>6. CASE RunAgain
    BY <2>6 DEF RunAgain
  <2> QED
    BY <2>2, <2>3, <2>4, <2>5, <2>6 DEF Next, Planner
<1> QED
  BY <1>1, PlannerInvariant, PTL DEF Spec, DryRunTouchesNothing

(***************************************************************************)
(* Exit code 3 means that nothing is archived of any contract whose        *)
(* entries others left alone during the run.                               *)
(***************************************************************************)
THEOREM NothingCanBeTrusted == Spec => []NothingMeansNothing
<1>1. PlannerInv => NothingMeansNothing
  BY DEF PlannerInv, LoopInOrder, PlansAreCurrent, NothingMeansNothing
<1> QED
  BY <1>1, PlannerInvariant, PTL

(***************************************************************************)
(* Every contract the writer passed has its one file, of this run,         *)
(* whichever others failed, wherever writing stopped and whatever was in   *)
(* the directory before; and success means that it passed them all.        *)
(***************************************************************************)
THEOREM EnvelopesSurvive == Spec => []EnvelopesSurviveFailures
<1>1. TypeOK /\ PlannerInv => EnvelopesSurviveFailures
  <2> SUFFICES ASSUME TypeOK, PlannerInv, exit = "success", opts.out,
                      ~opts.dry_run
               PROVE  item = LastItem + 1
    BY DEF EnvelopesSurviveFailures, PlannerInv, FilesWritten
  <2>1. pc = "done" /\ item \in Nat /\ LastItem \in Nat
    BY LastItemType DEF PlannerInv, LoopInOrder, TypeOK
  <2>2. Len(results) = LastItem /\ item <= LastItem + 1 /\ ~(item <= LastItem)
    BY <2>1 DEF PlannerInv, LoopInOrder, FilesWritten, Writing
  <2> QED
    BY <2>1, <2>2
<1> QED
  BY <1>1, PlannerInvariant, PTL
=============================================================================
