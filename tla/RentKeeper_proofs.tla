-------------------------- MODULE RentKeeper_proofs --------------------------
(***************************************************************************)
(* Theorems about RentKeeper, for all watches, policies and bounds; and    *)
(* about KeeperDaemon, for all configurations besides: the process is the  *)
(* keeper of RentKeeper and more, so what is proved of the one holds of    *)
(* the other, and what its metrics say can be relied on.                   *)
(***************************************************************************)
EXTENDS KeeperDaemon, FiniteSums

\* Cardinalities of sets of keys are numbers.
LEMMA KeySetsCounted ==
  ASSUME NEW S \in SUBSET Keys
  PROVE  Cardinality(S) \in Nat
BY LedgerAssumption, FS_Subset, FS_CardinalityType

\* A TTL extension yields a ledger number.
LEMMA ExtendedType ==
  ASSUME LedgerTypeOK, NEW k \in Keys, NEW ttl \in Nat
  PROVE  Extended(k, ttl) \in Nat
BY LedgerAssumption DEF Extended, LedgerTypeOK

\* The retry budget is a natural number.
LEMMA RetriesType == Retries \in Nat
BY KeeperAssumption DEF Retries, SatSub

\* The type of the tally, and of the variables the poll loop assigns.
TallyType == [checked: Nat, critical: Nat, extended_batches: Nat,
              submitted: Nat]

LoopTypeOK ==
  /\ pc \in Steps
  /\ attempt \in 0 .. Retries
  /\ current \in Nat
  /\ watch \in Watches
  /\ due \subseteq Keys /\ batch \subseteq Keys
  /\ tx \in Transaction
  /\ seqFresh \in BOOLEAN /\ applied \in BOOLEAN
  /\ tally \in TallyType
  /\ reports \in Seq(Reports)

\* The type invariant is that of the ledger, of the poll and of the histories.
LEMMA TypeOKSplit ==
  /\ TypeOK <=> /\ LedgerTypeOK /\ LoopTypeOK
                /\ faults \in 0 .. MaxFaults
                /\ covered \in [Watches -> Nat \cup {Never}]
  /\ TypeOK' <=> /\ LedgerTypeOK' /\ LoopTypeOK'
                 /\ faults' \in 0 .. MaxFaults
                 /\ covered' \in [Watches -> Nat \cup {Never}]
BY DEF TypeOK, LoopTypeOK, TallyType

\* The absent transaction is a transaction.
LEMMA NoTxType == NoTx \in Transaction
BY DEF NoTx, Transaction

\* The empty tally is a tally.
LEMMA NoTallyType == NoTally \in TallyType
BY DEF NoTally, TallyType

\* What ForgetBatch leaves behind is well typed.
LEMMA ForgetBatchType ==
  ASSUME ForgetBatch
  PROVE  tx' \in Transaction /\ seqFresh' \in BOOLEAN /\ applied' \in BOOLEAN
BY NoTxType DEF ForgetBatch

\* A report of a watch, or of watch 0, belongs to Reports.
LEMMA ReportType ==
  ASSUME NEW STATE w, w \in 0 .. NumWatches, NEW STATE ok, ok \in BOOLEAN,
         NEW STATE t, t \in TallyType, NEW STATE tries, tries \in Nat
  PROVE  Report(w, ok, t, tries) \in Reports
BY DEF Report, Reports, TallyType

\* A lone report, as poll_once returns when it cannot read the ledger.
LEMMA SingleReport ==
  ASSUME NEW STATE r, r \in Reports
  PROVE  <<r>> \in Seq(Reports)
OBVIOUS

\* Moving on to the next watch keeps the loop's variables in their types.
LEMMA PushReportType ==
  ASSUME LoopTypeOK, NEW STATE r, r \in Reports, PushReport(r)
  PROVE  LoopTypeOK'
<1>1. reports' \in Seq(Reports)
  BY DEF PushReport, LoopTypeOK
<1>2. tally' \in TallyType
  BY NoTallyType DEF PushReport
<1>3. tx' \in Transaction /\ seqFresh' \in BOOLEAN /\ applied' \in BOOLEAN
  BY ForgetBatchType DEF PushReport
<1>4. pc' \in Steps /\ current' \in Nat
  BY DEF PushReport, LoopTypeOK, Steps
<1>5. watch' \in Watches
  BY KeeperAssumption DEF PushReport, LoopTypeOK, Watches
<1>6. attempt' \in 0 .. Retries /\ due' \subseteq Keys /\ batch' \subseteq Keys
  BY RetriesType DEF PushReport
<1> QED
  BY <1>1, <1>2, <1>3, <1>4, <1>5, <1>6 DEF LoopTypeOK

\* poll_watch returning keeps the poll and covered in their types.
LEMMA ReturnReportType ==
  ASSUME LoopTypeOK, covered \in [Watches -> Nat \cup {Never}],
         NEW STATE t, t \in TallyType, ReturnReport(t)
  PROVE  LoopTypeOK' /\ covered' \in [Watches -> Nat \cup {Never}]
<1>1. Report(watch, TRUE, t, 0) \in Reports
  <2>1. watch \in 0 .. NumWatches
    BY KeeperAssumption DEF LoopTypeOK, Watches
  <2>2. TRUE \in BOOLEAN /\ 0 \in Nat
    OBVIOUS
  <2> QED
    BY <2>1, <2>2, ReportType
<1>2. LoopTypeOK'
  BY <1>1, PushReportType DEF ReturnReport
<1>3. covered' \in [Watches -> Nat \cup {Never}]
  BY DEF ReturnReport, LoopTypeOK
<1> QED
  BY <1>2, <1>3

\* Counting a batch, or retrying it, is well typed.
LEMMA CountBatchType ==
  ASSUME LoopTypeOK, NEW won \in {0, 1}, CountBatch(won),
         UNCHANGED <<current, watch, due, reports>>
  PROVE  LoopTypeOK'
<1>1. /\ tally \in TallyType
      /\ tally.extended_batches + 1 \in Nat /\ tally.submitted + won \in Nat
  BY DEF LoopTypeOK, TallyType
<1>3. tally' \in TallyType
  BY <1>1 DEF CountBatch, TallyType
<1>2. tx' \in Transaction /\ seqFresh' \in BOOLEAN /\ applied' \in BOOLEAN
  BY ForgetBatchType DEF CountBatch
<1> QED
  BY <1>2, <1>3, RetriesType DEF CountBatch, LoopTypeOK, Steps

\* A retry stays within the retry budget.
LEMMA RetryType ==
  ASSUME attempt \in 0 .. Retries, NEW e \in Errors, NEW step \in Steps,
         Retry(e, step)
  PROVE  attempt' \in 0 .. Retries /\ pc' \in Steps
BY RetriesType DEF Retry, GivesUp, Errors

\* A failed extension, retried or counted, keeps the poll in its types.
LEMMA ExtensionFailsType ==
  ASSUME LoopTypeOK, NEW e \in Errors, ExtensionFails(e),
         UNCHANGED <<current, watch, due, reports>>
  PROVE  LoopTypeOK'
<1>1. CASE Retry(e, "prepare") /\ ForgetBatch /\ UNCHANGED <<batch, tally>>
  <2>1. attempt' \in 0 .. Retries /\ pc' \in Steps
    BY <1>1, RetryType DEF LoopTypeOK, Steps
  <2>2. tx' \in Transaction /\ seqFresh' \in BOOLEAN /\ applied' \in BOOLEAN
    BY <1>1, ForgetBatchType
  <2> QED
    BY <1>1, <2>1, <2>2 DEF LoopTypeOK
<1>2. CASE GivesUp(e) /\ CountBatch(0)
  BY <1>2, CountBatchType
<1> QED
  BY <1>1, <1>2 DEF ExtensionFails

\* The steps of the network.
LEMMA NetworkType ==
  ASSUME TypeOK, Network
  PROVE  TypeOK'
<1>1. CASE CloseLedger /\ UNCHANGED <<pollVars, faults, covered>>
  BY <1>1, LedgerAssumption
  DEF CloseLedger, pollVars, TypeOK, LedgerTypeOK
<1>2. ASSUME NEW k \in Keys, ContractBump(k),
             UNCHANGED <<pollVars, faults, covered>>
      PROVE  TypeOK'
  <2>1. Extended(k, TrafficTtl) \in Nat
    BY ExtendedType, LedgerAssumption DEF TypeOK
  <2>2. live' \in [Keys -> Nat]
    BY <1>2, <2>1 DEF ContractBump, TypeOK, LedgerTypeOK
  <2> QED
    BY <1>2, <2>2 DEF ContractBump, pollVars, TypeOK, LedgerTypeOK
<1>3. ASSUME NEW t \in mempool, ApplyExtension(t)
      PROVE  TypeOK'
  <2>1. t.extend_to \in Nat
    BY DEF TypeOK, LedgerTypeOK, Transaction
  <2>2. \A k \in Keys : Extended(k, t.extend_to) \in Nat
    BY <2>1, ExtendedType DEF TypeOK
  <2>3. live' \in [Keys -> Nat] /\ mempool' = {} /\ ledger' = ledger
    BY <1>3, <2>2 DEF ApplyExtension, Apply, TypeOK, LedgerTypeOK
  <2>4. LedgerTypeOK'
    BY <2>3 DEF TypeOK, LedgerTypeOK
  <2>5. applied' \in BOOLEAN
    BY <1>3 DEF ApplyExtension, TypeOK
  <2> QED
    BY <1>3, <2>4, <2>5 DEF ApplyExtension, TypeOK
<1>4. ASSUME NEW t \in mempool, Forget(t), UNCHANGED <<pollVars, faults, covered>>
      PROVE  TypeOK'
  BY <1>4 DEF Forget, pollVars, TypeOK, LedgerTypeOK
<1>5. CASE SpendSequence
  <2>1. faults' \in 0 .. MaxFaults
    BY <1>5, KeeperAssumption DEF SpendSequence, Fault, TypeOK
  <2>2. LedgerTypeOK'
    BY <1>5 DEF SpendSequence, ForeignTransaction, TypeOK, LedgerTypeOK
  <2> QED
    BY <1>5, <2>1, <2>2 DEF SpendSequence, TypeOK
<1> QED
  BY <1>1, <1>2, <1>3, <1>4, <1>5 DEF Network

\* The steps of the keeper.
LEMMA ReadingsType ==
  ASSUME LedgerTypeOK, NEW r \in Readings
  PROVE  r \in Nat /\ r <= ledger
BY LedgerAssumption DEF Readings, LedgerTypeOK

\* Every step of the keeper keeps the type invariant.
LEMMA KeeperType ==
  ASSUME TypeOK, Keeper
  PROVE  TypeOK'
<1> USE TypeOKSplit
<1>1. CASE StartPoll
  BY <1>1 DEF StartPoll, ledgerVars, LoopTypeOK, LedgerTypeOK, Steps
<1>2. ASSUME NEW r \in Readings, LatestLedger(r)
      PROVE  TypeOK'
  BY <1>2, ReadingsType, RetriesType
  DEF LatestLedger, ledgerVars, LoopTypeOK, LedgerTypeOK, Steps
<1>3. ASSUME NEW r \in Readings, PrepareExtension(r)
      PROVE  TypeOK'
  <2>1. r + LedgerWindow \in Nat /\ ExtendTo[watch] \in Nat
    BY ReadingsType, KeeperAssumption DEF LoopTypeOK
  <2>2. tx' \in Transaction
    BY <1>3, <2>1 DEF PrepareExtension, Transaction, LoopTypeOK
  <2> QED
    BY <1>3, <2>2
    DEF PrepareExtension, ledgerVars, LoopTypeOK, LedgerTypeOK, Steps
<1>4. ASSUME NEW m \in SUBSET WatchKeys[watch], FetchEntries(m)
      PROVE  TypeOK'
  <2> DEFINE seen == WatchKeys[watch] \ m
             t == [NoTally EXCEPT !.checked = Cardinality(seen),
                        !.critical = Cardinality(CriticalEntries(seen))]
  <2>1. seen \subseteq Keys
    BY KeeperAssumption DEF LoopTypeOK
  <2>2. Cardinality(seen) \in Nat /\ Cardinality(CriticalEntries(seen)) \in Nat
    <3>1. CriticalEntries(seen) \subseteq Keys
      BY <2>1 DEF CriticalEntries
    <3> QED
      BY <2>1, <3>1, KeySetsCounted
  <2>3. t \in TallyType
    BY <2>2 DEF NoTally, TallyType
  <2>4. LoopTypeOK' /\ covered' \in [Watches -> Nat \cup {Never}]
    <3>1. CASE ReturnReport(t)
      <4> HIDE DEF t
      <4> QED
        BY <2>3, <3>1, ReturnReportType
    <3>2. CASE /\ due' = DueEntries(seen)
               /\ tally' = t
               /\ pc' = "batches"
               /\ attempt' = 0
               /\ UNCHANGED <<current, watch, batch, tx, seqFresh, applied,
                              reports, covered>>
      <4>1. DueEntries(seen) \subseteq Keys
        BY <2>1 DEF DueEntries
      <4> HIDE DEF t, seen
      <4> QED
        BY <2>3, <3>2, <4>1, RetriesType DEF LoopTypeOK, Steps
    <3> QED
      BY <1>4, <3>1, <3>2 DEF FetchEntries
  <2> QED
    BY <1>4, <2>4 DEF FetchEntries, ledgerVars, LedgerTypeOK
<1>5. ASSUME NEW b \in SUBSET due, TakeBatch(b)
      PROVE  TypeOK'
  BY <1>5, RetriesType
  DEF TakeBatch, ledgerVars, LoopTypeOK, LedgerTypeOK, Steps
<1>6. CASE FinishWatch
  <2>1. LoopTypeOK' /\ covered' \in [Watches -> Nat \cup {Never}]
    BY <1>6, ReturnReportType DEF FinishWatch, LoopTypeOK
  <2> QED
    BY <1>6, <2>1 DEF FinishWatch, ledgerVars, LedgerTypeOK
<1>7. CASE SendTransaction
  <2>1. mempool' \subseteq Transaction
    BY <1>7 DEF SendTransaction, Accepted, LedgerTypeOK, LoopTypeOK
  <2> QED
    BY <1>7, <2>1 DEF SendTransaction, LoopTypeOK, LedgerTypeOK, Steps
<1>8. CASE ExtensionSucceeds
  <2>1. LoopTypeOK'
    BY <1>8, CountBatchType DEF ExtensionSucceeds
  <2> QED
    BY <1>8, <2>1 DEF ExtensionSucceeds, ledgerVars, LedgerTypeOK
<1>9. ASSUME NEW e \in Errors, LatestLedgerFails(e)
      PROVE  TypeOK'
  <2>1. CASE Retry(e, "latest") /\ UNCHANGED reports
    <3>1. attempt' \in 0 .. Retries /\ pc' \in Steps
      BY <2>1, RetryType DEF LoopTypeOK, Steps
    <3> QED
      BY <1>9, <2>1, <3>1
      DEF LatestLedgerFails, ledgerVars, LoopTypeOK, LedgerTypeOK
  <2>2. CASE /\ reports' = <<Report(0, FALSE, NoTally, attempt + 1)>>
             /\ attempt' = 0
             /\ pc' = "sleep"
    <3>1. Report(0, FALSE, NoTally, attempt + 1) \in Reports
      <4>1. attempt + 1 \in Nat /\ 0 \in 0 .. NumWatches /\ FALSE \in BOOLEAN
        BY RetriesType, KeeperAssumption DEF LoopTypeOK
      <4> QED
        BY <4>1, ReportType, NoTallyType
    <3>2. reports' \in Seq(Reports)
      BY <2>2, <3>1, SingleReport
    <3>3. pc' \in Steps /\ attempt' \in 0 .. Retries
      BY <2>2, RetriesType DEF Steps
    <3> QED
      BY <1>9, <3>2, <3>3
      DEF LatestLedgerFails, ledgerVars, LoopTypeOK, LedgerTypeOK, Steps
  <2> QED
    BY <1>9, <2>1, <2>2 DEF LatestLedgerFails
<1>10. ASSUME NEW e \in Errors, FetchFails(e)
       PROVE  TypeOK'
  <2>1. LoopTypeOK'
    <3>1. CASE /\ Retry(e, "fetch")
               /\ UNCHANGED <<current, watch, due, batch, tx, seqFresh,
                              applied, tally, reports>>
      <4>1. attempt' \in 0 .. Retries /\ pc' \in Steps
        BY <3>1, RetryType DEF LoopTypeOK, Steps
      <4> QED
        BY <3>1, <4>1 DEF LoopTypeOK
    <3>2. CASE PushReport(Report(watch, FALSE, NoTally, attempt + 1))
      <4>1. /\ watch \in 0 .. NumWatches /\ FALSE \in BOOLEAN
            /\ attempt + 1 \in Nat
        BY RetriesType, KeeperAssumption DEF LoopTypeOK, Watches
      <4>2. Report(watch, FALSE, NoTally, attempt + 1) \in Reports
        BY <4>1, ReportType, NoTallyType
      <4> QED
        BY <3>2, <4>2, PushReportType
    <3> QED
      BY <1>10, <3>1, <3>2 DEF FetchFails
  <2> QED
    BY <1>10, <2>1 DEF FetchFails, ledgerVars, LedgerTypeOK
<1>11. ASSUME NEW e \in Errors, PrepareFails(e)
       PROVE  TypeOK'
  <2>1. LoopTypeOK'
    BY <1>11, ExtensionFailsType DEF PrepareFails
  <2> QED
    BY <1>11, <2>1 DEF PrepareFails, ledgerVars, LedgerTypeOK
<1>12. ASSUME NEW e \in Errors, SendFails(e)
       PROVE  TypeOK'
  <2>1. LoopTypeOK'
    BY <1>12, ExtensionFailsType DEF SendFails
  <2>2. mempool' \subseteq Transaction
    BY <1>12 DEF SendFails, Accepted, LedgerTypeOK, LoopTypeOK
  <2> QED
    BY <1>12, <2>1, <2>2 DEF SendFails, LedgerTypeOK
<1>13. ASSUME NEW e \in Errors, WaitFails(e)
       PROVE  TypeOK'
  <2>1. LoopTypeOK'
    BY <1>13, ExtensionFailsType DEF WaitFails
  <2> QED
    BY <1>13, <2>1 DEF WaitFails, ledgerVars, LedgerTypeOK
<1> QED
  BY <1>1, <1>2, <1>3, <1>4, <1>5, <1>6, <1>7, <1>8, <1>9, <1>10, <1>11,
     <1>12, <1>13 DEF Keeper

\* A restart keeps the type invariant.
LEMMA RestartType ==
  ASSUME TypeOK, Restart
  PROVE  TypeOK'
<1>1. tx' \in Transaction /\ seqFresh' \in BOOLEAN /\ applied' \in BOOLEAN
  BY ForgetBatchType DEF Restart
<1>2. tally' \in TallyType
  BY NoTallyType DEF Restart
<1>3. 1 \in Watches
  BY KeeperAssumption DEF Watches
<1>4. LoopTypeOK'
  BY <1>1, <1>2, <1>3, RetriesType DEF Restart, LoopTypeOK, Steps
<1>5. faults' \in 0 .. MaxFaults
  BY KeeperAssumption DEF Restart, Fault, TypeOK
<1> QED
  BY <1>4, <1>5, TypeOKSplit DEF Restart, ledgerVars, LedgerTypeOK

(***************************************************************************)
(* The variables keep their types, and with_retry its budget, whatever     *)
(* calls fail and whenever the process dies.                               *)
(***************************************************************************)
THEOREM TypeCorrect == Spec => []TypeOK
<1>1. Init => TypeOK
  <2> SUFFICES ASSUME Init PROVE TypeOK
    OBVIOUS
  <2>1. LedgerTypeOK
    BY LedgerAssumption DEF Init, LedgerInit, LedgerTypeOK
  <2>2. LoopTypeOK
    <3>1. 0 \in 0 .. Retries /\ 1 \in Watches
      BY RetriesType, KeeperAssumption DEF Watches
    <3>2. <<>> \in Seq(Reports)
      OBVIOUS
    <3> QED
      BY NoTxType, NoTallyType, <3>1, <3>2 DEF Init, LoopTypeOK, Steps
  <2>3. faults \in 0 .. MaxFaults /\ covered \in [Watches -> Nat \cup {Never}]
    BY KeeperAssumption DEF Init
  <2> QED
    BY <2>1, <2>2, <2>3, TypeOKSplit
<1>2. TypeOK /\ [Next]_vars => TypeOK'
  <2> SUFFICES ASSUME TypeOK, [Next]_vars PROVE TypeOK'
    OBVIOUS
  <2>1. CASE UNCHANGED vars
    BY <2>1 DEF vars, pollVars, ledgerVars, TypeOK, LedgerTypeOK
  <2> QED
    BY <2>1, KeeperType, RestartType, NetworkType DEF Next
<1> QED
  BY <1>1, <1>2, PTL DEF Spec
-----------------------------------------------------------------------------
(***************************************************************************)
(* The inductive invariant.  CleanReportsProtect alone is not inductive:   *)
(* a report is returned many steps after the entries were classified, so   *)
(* IInv carries through the batch loop which entries outlive the threshold *)
(* already and which still wait in due or in the batch.                    *)
(***************************************************************************)

\* The only way the network changes TTLs.
LiveOnlyGrows ==
  /\ ledger' >= ledger
  /\ \A k \in Keys : IF Archived(k) THEN live'[k] = live[k]
                                    ELSE live'[k] >= live[k]

\* What outlives a reading goes on to: later ledgers, grown TTLs and archival
\* do not take it back.
LEMMA OutlivesStable ==
  ASSUME TypeOK, TypeOK', LiveOnlyGrows,
         NEW k \in Keys, NEW STATE w, w \in Watches, NEW STATE r, r \in Nat,
         Outlives(k, w, r)
  PROVE  live'[k] > r + Threshold[w] \/ live'[k] < ledger'
<1>1. /\ live[k] \in Nat /\ live'[k] \in Nat /\ ledger \in Nat /\ ledger' \in Nat
      /\ Threshold[w] \in Nat
  BY LedgerAssumption, KeeperAssumption DEF TypeOK, LedgerTypeOK
<1> QED
  BY <1>1 DEF LiveOnlyGrows, Outlives, Archived

\* The keys of a watch are ledger keys.
LEMMA WatchKeysAreKeys ==
  ASSUME NEW STATE w, w \in Watches
  PROVE  WatchKeys[w] \subseteq Keys
BY KeeperAssumption

\* A step of the network lets TTLs only grow, leaves the poll alone, and marks
\* the keeper's transaction applied only with its entries extended.
LEMMA NetworkEffect ==
  ASSUME TypeOK, Network
  PROVE  /\ LiveOnlyGrows
         /\ UNCHANGED <<pc, current, watch, due, batch, tx, tally, covered>>
         /\ applied' => \/ applied
                        \/ /\ pc = "wait"
                           /\ ledger' = ledger
                           /\ \A k \in tx.keys :
                                live'[k] >= ledger + tx.extend_to
                                \/ live'[k] < ledger
<1> USE LedgerAssumption
<1>0. ledger \in Nat /\ live \in [Keys -> Nat] /\ tx \in Transaction
  BY DEF TypeOK, LedgerTypeOK
<1>1. CASE CloseLedger /\ UNCHANGED <<pollVars, faults, covered>>
  BY <1>0, <1>1 DEF CloseLedger, pollVars, LiveOnlyGrows
<1>2. ASSUME NEW k \in Keys, ContractBump(k),
             UNCHANGED <<pollVars, faults, covered>>
      PROVE  /\ LiveOnlyGrows
             /\ UNCHANGED <<pc, current, watch, due, batch, tx, tally, covered>>
             /\ applied' = applied
  BY <1>0, <1>2 DEF ContractBump, pollVars, LiveOnlyGrows, Extended
<1>3. ASSUME NEW t \in mempool, ApplyExtension(t)
      PROVE  /\ LiveOnlyGrows
             /\ UNCHANGED <<pc, current, watch, due, batch, tx, tally, covered>>
             /\ applied' => \/ applied
                            \/ /\ pc = "wait"
                               /\ ledger' = ledger
                               /\ \A k \in tx.keys :
                                    live'[k] >= ledger + tx.extend_to
                                    \/ live'[k] < ledger
  <2>1. t \in Transaction
    BY DEF TypeOK, LedgerTypeOK
  <2>2. /\ ledger' = ledger
        /\ live' = [k \in Keys |-> IF k \in t.keys THEN Extended(k, t.extend_to)
                                                    ELSE live[k]]
    BY <1>3 DEF ApplyExtension, Apply
  <2>3. \A k \in Keys : /\ Archived(k) => live'[k] = live[k]
                        /\ ~Archived(k) => live'[k] >= live[k]
                        /\ k \in t.keys => live'[k] >= ledger + t.extend_to
                                           \/ live'[k] < ledger
    BY <1>0, <2>1, <2>2 DEF Extended, Archived, Transaction
  <2>4. LiveOnlyGrows
    BY <1>0, <2>2, <2>3 DEF LiveOnlyGrows
  <2>5. tx.keys \subseteq Keys
    BY <1>0 DEF Transaction
  <2> QED
    BY <1>3, <2>2, <2>3, <2>4, <2>5 DEF ApplyExtension
<1>4. ASSUME NEW t \in mempool, Forget(t), UNCHANGED <<pollVars, faults, covered>>
      PROVE  /\ LiveOnlyGrows
             /\ UNCHANGED <<pc, current, watch, due, batch, tx, tally, covered>>
             /\ applied' = applied
  BY <1>0, <1>4 DEF Forget, pollVars, LiveOnlyGrows
<1>5. CASE SpendSequence
  BY <1>0, <1>5 DEF SpendSequence, ForeignTransaction, LiveOnlyGrows
<1> QED
  BY <1>1, <1>2, <1>3, <1>4, <1>5 DEF Network

\* Every step of the network keeps the loop invariant.
LEMMA NetworkInv ==
  ASSUME TypeOK, TypeOK', IInv, Network
  PROVE  IInv'
<1> USE NetworkEffect
<1>0. /\ ledger \in Nat /\ ledger' \in Nat /\ current \in Nat /\ watch \in Watches
      /\ ledger <= ledger'
      /\ \A w \in Watches : covered[w] \in Nat \cup {Never}
  <2>1. ledger \in Nat /\ ledger' \in Nat
    BY LedgerAssumption DEF TypeOK, LedgerTypeOK
  <2>2. ledger <= ledger'
    BY <2>1 DEF LiveOnlyGrows
  <2>3. /\ current \in Nat /\ watch \in Watches
        /\ \A w \in Watches : covered[w] \in Nat \cup {Never}
    BY DEF TypeOK
  <2> QED
    BY <2>1, <2>2, <2>3
<1>1. ReadingsArePast'
  BY <1>0 DEF IInv, ReadingsArePast, Never
<1>2. ASSUME NEW k \in Keys, Outlives(k, watch, current)
      PROVE  Outlives(k, watch, current)'
  <2>1. live'[k] > current + Threshold[watch] \/ live'[k] < ledger'
    BY <1>0, <1>2, OutlivesStable
  <2> QED
    BY <2>1 DEF Outlives, Archived
<1>3. TransactionIsForBatch'
  <2>0. applied' => pc = "wait"
    BY DEF IInv, TransactionIsForBatch
  <2>1. ASSUME pc = "wait", applied', NEW k \in batch
        PROVE  Outlives(k, watch, current)'
    <3>1. k \in Keys
      BY <2>1 DEF TypeOK
    <3>2. CASE applied
      BY <1>2, <2>1, <3>1, <3>2 DEF IInv, TransactionIsForBatch
    <3>3. CASE ~applied
      <4>1. /\ k \in tx.keys /\ tx.extend_to = ExtendTo[watch]
            /\ ledger' = ledger
            /\ live'[k] >= ledger + ExtendTo[watch] \/ live'[k] < ledger
        BY <2>1, <3>3 DEF IInv, TransactionIsForBatch
      <4>2. /\ Threshold[watch] \in Nat /\ ExtendTo[watch] \in Nat
            /\ Threshold[watch] < ExtendTo[watch] /\ current <= ledger
        BY <1>0, KeeperAssumption DEF IInv, ReadingsArePast
      <4>3. live'[k] \in Nat
        BY <3>1 DEF TypeOK, LedgerTypeOK
      <4> QED
        BY <1>0, <4>1, <4>2, <4>3 DEF Outlives, Archived
    <3> QED
      BY <3>2, <3>3
  <2> QED
    BY <2>0, <2>1 DEF IInv, TransactionIsForBatch
<1>4. LoopProtects'
  <2>1. WatchKeys[watch] \subseteq Keys
    BY <1>0, WatchKeysAreKeys
  <2> QED
    BY <1>2, <2>1 DEF IInv, LoopProtects, InBatchLoop
<1>5. CleanReportsProtect'
  <2> SUFFICES ASSUME NEW w \in Watches, covered[w] # Never,
                      NEW k \in WatchKeys[w]
               PROVE  Outlives(k, w, covered[w])'
    BY DEF CleanReportsProtect
  <2>1. k \in Keys /\ covered[w] \in Nat /\ Outlives(k, w, covered[w])
    BY <1>0, WatchKeysAreKeys DEF IInv, CleanReportsProtect
  <2>2. live'[k] > covered[w] + Threshold[w] \/ live'[k] < ledger'
    BY <2>1, OutlivesStable
  <2> QED
    BY <2>2 DEF Outlives, Archived
<1> QED
  BY <1>1, <1>3, <1>4, <1>5 DEF IInv

\* Reports already returned stay true while ledger and TTLs stand still.
LEMMA CoveredKept ==
  ASSUME IInv, UNCHANGED <<ledger, live, covered>>
  PROVE  CleanReportsProtect' /\ \A w \in Watches : covered'[w] <= ledger'
BY DEF IInv, ReadingsArePast, CleanReportsProtect, Outlives, Archived

\* A poll of a watch that ends without a clean report.
LEMMA PushReportInv ==
  ASSUME TypeOK, IInv, NEW STATE r, r \in Reports, PushReport(r),
         UNCHANGED <<ledger, live, covered>>
  PROVE  IInv'
<1>1. ReadingsArePast'
  BY CoveredKept, LedgerAssumption
  DEF PushReport, IInv, ReadingsArePast, TypeOK, LedgerTypeOK
<1>2. pc' \in {"fetch", "sleep"} /\ tally' = NoTally /\ batch' = {} /\ ~applied'
  BY DEF PushReport, ForgetBatch
<1>3. TransactionIsForBatch'
  BY <1>2 DEF TransactionIsForBatch
<1>4. LoopProtects'
  BY <1>2 DEF LoopProtects, InBatchLoop, NoTally
<1> QED
  BY <1>1, <1>3, <1>4, CoveredKept DEF IInv

\* A report is returned; if it is clean, the entries bear it out.
LEMMA ReturnReportInv ==
  ASSUME TypeOK, IInv, NEW STATE t, t \in TallyType, ReturnReport(t),
         UNCHANGED <<ledger, live>>,
         t.submitted = t.extended_batches =>
           \A k \in WatchKeys[watch] : Outlives(k, watch, current)
  PROVE  IInv'
<1>0. /\ watch \in Watches /\ current \in Nat /\ current <= ledger
      /\ ledger \in Nat /\ covered \in [Watches -> Nat \cup {Never}]
  BY LedgerAssumption DEF TypeOK, LedgerTypeOK, IInv, ReadingsArePast
<1>1. pc' \in {"fetch", "sleep"} /\ tally' = NoTally /\ batch' = {} /\ ~applied'
      /\ (current' = current \/ current' = 0)
  BY DEF ReturnReport, PushReport, ForgetBatch
<1>2. TransactionIsForBatch' /\ LoopProtects'
  BY <1>1 DEF TransactionIsForBatch, LoopProtects, InBatchLoop, NoTally
<1>3. \/ covered' = covered
      \/ /\ covered' = [covered EXCEPT ![watch] = current]
         /\ \A k \in WatchKeys[watch] : Outlives(k, watch, current)
  BY DEF ReturnReport, CleanReport, Report
<1>4. ReadingsArePast'
  BY <1>0, <1>1, <1>3 DEF IInv, ReadingsArePast
<1>5. CleanReportsProtect'
  <2>1. CASE covered' = covered
    BY <2>1, CoveredKept
  <2>2. CASE /\ covered' = [covered EXCEPT ![watch] = current]
             /\ \A k \in WatchKeys[watch] : Outlives(k, watch, current)
    <3> SUFFICES ASSUME NEW w \in Watches, covered'[w] # Never,
                        NEW k \in WatchKeys[w]
                 PROVE  Outlives(k, w, covered'[w])
      BY DEF CleanReportsProtect, Outlives, Archived
    <3>1. CASE w = watch
      BY <1>0, <2>2, <3>1
    <3>2. CASE w # watch
      BY <1>0, <2>2, <3>2 DEF IInv, CleanReportsProtect
    <3> QED
      BY <3>1, <3>2
  <2> QED
    BY <1>3, <2>1, <2>2
<1> QED
  BY <1>2, <1>4, <1>5 DEF IInv

\* A batch is counted; a submitted one has its entries extended.
LEMMA CountBatchInv ==
  ASSUME TypeOK, IInv, NEW won \in {0, 1}, CountBatch(won),
         pc \in {"prepare", "send", "wait"},
         UNCHANGED <<ledger, live, covered, current, watch, due>>,
         won = 1 => \A k \in batch : Outlives(k, watch, current)
  PROVE  IInv'
<1>1. ReadingsArePast'
  BY DEF IInv, ReadingsArePast
<1>2. TransactionIsForBatch'
  BY DEF CountBatch, ForgetBatch, TransactionIsForBatch
<1>3. /\ tally'.extended_batches = tally.extended_batches + 1
      /\ tally'.submitted = tally.submitted + won
      /\ tally.extended_batches \in Nat /\ tally.submitted \in Nat
      /\ tally.submitted <= tally.extended_batches
  BY DEF CountBatch, TypeOK, IInv, LoopProtects
<1>4. tally'.submitted <= tally'.extended_batches
  BY <1>3
<1>5. ASSUME tally'.submitted = tally'.extended_batches,
             NEW k \in WatchKeys[watch] \ due
      PROVE  Outlives(k, watch, current)
  <2>1. won = 1 /\ tally.submitted = tally.extended_batches
    BY <1>3, <1>5
  <2> QED
    BY <1>5, <2>1 DEF IInv, LoopProtects, InBatchLoop
<1>6. LoopProtects'
  BY <1>4, <1>5 DEF CountBatch, LoopProtects, Outlives, Archived
<1> QED
  BY <1>1, <1>2, <1>6, CoveredKept DEF IInv

\* A failed extension is retried from the start or counted as not submitted.
LEMMA ExtensionFailsInv ==
  ASSUME TypeOK, IInv, NEW e \in Errors, ExtensionFails(e),
         pc \in {"prepare", "send", "wait"},
         UNCHANGED <<ledger, live, covered, current, watch, due>>
  PROVE  IInv'
<1>1. CASE Retry(e, "prepare") /\ ForgetBatch /\ UNCHANGED <<batch, tally>>
  <2>1. pc' = "prepare"
    BY <1>1 DEF Retry
  <2>2. TransactionIsForBatch'
    BY <1>1, <2>1 DEF ForgetBatch, TransactionIsForBatch
  <2>3. LoopProtects'
    BY <1>1, <2>1 DEF IInv, LoopProtects, InBatchLoop, Outlives, Archived
  <2> QED
    BY <2>2, <2>3, CoveredKept DEF IInv, ReadingsArePast
<1>2. CASE GivesUp(e) /\ CountBatch(0)
  BY <1>2, CountBatchInv
<1> QED
  BY <1>1, <1>2 DEF ExtensionFails

\* An entry that is not due, or is missing, outlives the threshold.
LEMMA NotDueOutlives ==
  ASSUME TypeOK, NEW m \in SUBSET WatchKeys[watch],
         \A k \in m : Archived(k),
         NEW k \in WatchKeys[watch] \ DueEntries(WatchKeys[watch] \ m)
  PROVE  Outlives(k, watch, current)
<1>1. CASE k \in m
  BY <1>1 DEF Outlives
<1>2. CASE k \notin m
  <2>1. watch \in Watches /\ k \in Keys
    BY WatchKeysAreKeys DEF TypeOK
  <2>2. live[k] \in Nat /\ current \in Nat /\ Threshold[watch] \in Nat
    BY <2>1, KeeperAssumption DEF TypeOK, LedgerTypeOK
  <2>3. ~(TtlRemaining(live[k], current) <= Threshold[watch])
    BY <1>2 DEF DueEntries, ShouldExtend
  <2> QED
    BY <2>2, <2>3 DEF TtlRemaining, SatSub, Outlives
<1> QED
  BY <1>1, <1>2

\* Every step of the keeper keeps the loop invariant.
LEMMA KeeperInv ==
  ASSUME TypeOK, IInv, Keeper
  PROVE  IInv'
<1>1. CASE StartPoll
  <2>1. pc = "sleep" /\ pc' = "latest"
        /\ UNCHANGED <<ledger, live, covered, current, tally, batch, applied>>
    BY <1>1 DEF StartPoll, ledgerVars
  <2> QED
    BY <2>1, CoveredKept DEF IInv, ReadingsArePast, TransactionIsForBatch,
                             LoopProtects, InBatchLoop
<1>2. ASSUME NEW r \in Readings, LatestLedger(r)
      PROVE  IInv'
  <2>1. /\ pc = "latest" /\ pc' = "fetch" /\ current' <= ledger
        /\ UNCHANGED <<ledger, live, covered, tally, batch, applied>>
    BY <1>2, ReadingsType DEF LatestLedger, ledgerVars, TypeOK
  <2> QED
    BY <2>1, CoveredKept DEF IInv, ReadingsArePast, TransactionIsForBatch,
                             LoopProtects, InBatchLoop
<1>3. ASSUME NEW r \in Readings, PrepareExtension(r)
      PROVE  IInv'
  <2>1. /\ pc = "prepare" /\ pc' = "send"
        /\ UNCHANGED <<ledger, live, covered, current, watch, due, batch, tally,
                       applied>>
        /\ tx'.keys = batch /\ tx'.extend_to = ExtendTo[watch]
    BY <1>3 DEF PrepareExtension, ledgerVars
  <2>2. TransactionIsForBatch'
    BY <2>1 DEF IInv, TransactionIsForBatch
  <2>3. LoopProtects'
    BY <2>1 DEF IInv, LoopProtects, InBatchLoop, Outlives, Archived
  <2> QED
    BY <2>1, <2>2, <2>3, CoveredKept DEF IInv, ReadingsArePast
<1>4. ASSUME NEW m \in SUBSET WatchKeys[watch], FetchEntries(m)
      PROVE  IInv'
  <2> DEFINE seen == WatchKeys[watch] \ m
             t == [NoTally EXCEPT !.checked = Cardinality(seen),
                        !.critical = Cardinality(CriticalEntries(seen))]
  <2>0. UNCHANGED <<ledger, live>> /\ \A k \in m : Archived(k)
    BY <1>4 DEF FetchEntries, ledgerVars
  <2>1. \A k \in WatchKeys[watch] \ DueEntries(seen) :
          Outlives(k, watch, current)
    BY <2>0, NotDueOutlives
  <2>2. t \in TallyType /\ t.submitted = 0 /\ t.extended_batches = 0
    <3>1. seen \subseteq Keys
      BY WatchKeysAreKeys DEF TypeOK
    <3>2. CriticalEntries(seen) \subseteq Keys
      BY <3>1 DEF CriticalEntries
    <3>3. Cardinality(seen) \in Nat /\ Cardinality(CriticalEntries(seen)) \in Nat
      BY <3>1, <3>2, KeySetsCounted
    <3> QED
      BY <3>3 DEF NoTally, TallyType
  <2>3. CASE DueEntries(seen) = {} /\ ReturnReport(t)
    <3> HIDE DEF t
    <3> QED
      BY <2>0, <2>1, <2>2, <2>3, ReturnReportInv
  <2>4. CASE /\ due' = DueEntries(seen)
             /\ tally' = t
             /\ pc' = "batches"
             /\ UNCHANGED <<current, watch, batch, applied, covered>>
    <3>1. batch' = {} /\ ~applied'
      BY <1>4, <2>4 DEF FetchEntries, IInv, TransactionIsForBatch
    <3>2. TransactionIsForBatch'
      BY <2>4, <3>1 DEF TransactionIsForBatch
    <3>3. LoopProtects'
      BY <2>0, <2>1, <2>2, <2>4 DEF LoopProtects, Outlives, Archived
    <3> QED
      BY <2>0, <2>4, <3>2, <3>3, CoveredKept DEF IInv, ReadingsArePast
  <2> QED
    BY <1>4, <2>3, <2>4 DEF FetchEntries
<1>5. ASSUME NEW b \in SUBSET due, TakeBatch(b)
      PROVE  IInv'
  <2>1. /\ pc = "batches" /\ pc' = "prepare"
        /\ UNCHANGED <<ledger, live, covered, current, watch, tally, applied>>
        /\ due' = due \ b /\ batch' = b
    BY <1>5 DEF TakeBatch, ledgerVars
  <2>2. TransactionIsForBatch'
    BY <2>1 DEF IInv, TransactionIsForBatch
  <2>3. due \cup batch = due' \cup batch'
    BY <2>1 DEF IInv, TransactionIsForBatch
  <2>4. LoopProtects'
    BY <2>1, <2>3 DEF IInv, LoopProtects, InBatchLoop, Outlives, Archived
  <2> QED
    BY <2>1, <2>2, <2>4, CoveredKept DEF IInv, ReadingsArePast
<1>6. CASE FinishWatch
  <2>1. /\ pc = "batches" /\ due = {} /\ batch = {}
        /\ UNCHANGED <<ledger, live>> /\ ReturnReport(tally)
    BY <1>6 DEF FinishWatch, ledgerVars, IInv, TransactionIsForBatch
  <2>2. tally.submitted = tally.extended_batches =>
          \A k \in WatchKeys[watch] : Outlives(k, watch, current)
    BY <2>1 DEF IInv, LoopProtects, InBatchLoop
  <2>3. tally \in TallyType
    BY DEF TypeOK, TallyType
  <2> QED
    BY <2>1, <2>2, <2>3, ReturnReportInv
<1>7. CASE SendTransaction
  <2>1. /\ pc = "send" /\ pc' = "wait"
        /\ UNCHANGED <<ledger, live, covered, current, watch, due, batch, tx,
                       applied, tally>>
    BY <1>7 DEF SendTransaction
  <2>3. TransactionIsForBatch'
    BY <2>1 DEF IInv, TransactionIsForBatch
  <2>4. LoopProtects'
    BY <2>1 DEF IInv, LoopProtects, InBatchLoop, Outlives, Archived
  <2> QED
    BY <2>1, <2>3, <2>4, CoveredKept DEF IInv, ReadingsArePast
<1>8. CASE ExtensionSucceeds
  <2>1. /\ \A k \in batch : Outlives(k, watch, current)
        /\ pc = "wait" /\ CountBatch(1)
        /\ UNCHANGED <<ledger, live, covered, current, watch, due>>
    BY <1>8 DEF ExtensionSucceeds, ledgerVars, IInv, TransactionIsForBatch
  <2> QED
    BY <2>1, CountBatchInv
<1>9. ASSUME NEW e \in Errors, LatestLedgerFails(e)
      PROVE  IInv'
  <2>1. /\ pc = "latest" /\ pc' \in {"latest", "sleep"}
        /\ UNCHANGED <<ledger, live, covered, current, tally, batch, applied>>
    BY <1>9 DEF LatestLedgerFails, ledgerVars, Retry
  <2> QED
    BY <2>1, CoveredKept DEF IInv, ReadingsArePast, TransactionIsForBatch,
                             LoopProtects, InBatchLoop
<1>10. ASSUME NEW e \in Errors, FetchFails(e)
       PROVE  IInv'
  <2>0. UNCHANGED <<ledger, live, covered>>
    BY <1>10 DEF FetchFails, ledgerVars
  <2>1. CASE Retry(e, "fetch") /\ UNCHANGED <<current, tally, batch, applied>>
    <3>1. pc = "fetch" /\ pc' = "fetch"
      BY <1>10, <2>1 DEF FetchFails, Retry
    <3> QED
      BY <2>0, <2>1, <3>1, CoveredKept
      DEF IInv, ReadingsArePast, TransactionIsForBatch, LoopProtects, InBatchLoop
  <2>2. CASE PushReport(Report(watch, FALSE, NoTally, attempt + 1))
    <3>1. /\ watch \in 0 .. NumWatches /\ FALSE \in BOOLEAN
          /\ attempt + 1 \in Nat
      BY RetriesType, KeeperAssumption DEF TypeOK, Watches
    <3>2. Report(watch, FALSE, NoTally, attempt + 1) \in Reports
      BY <3>1, ReportType, NoTallyType
    <3> QED
      BY <2>0, <2>2, <3>2, PushReportInv
  <2> QED
    BY <1>10, <2>1, <2>2 DEF FetchFails
<1>11. ASSUME NEW e \in Errors, PrepareFails(e) \/ SendFails(e) \/ WaitFails(e)
       PROVE  IInv'
  <2>1. /\ pc \in {"prepare", "send", "wait"} /\ ExtensionFails(e)
        /\ UNCHANGED <<ledger, live, covered, current, watch, due>>
    BY <1>11 DEF PrepareFails, SendFails, WaitFails, ledgerVars
  <2> QED
    BY <2>1, ExtensionFailsInv
<1> QED
  BY <1>1, <1>2, <1>3, <1>4, <1>5, <1>6, <1>7, <1>8, <1>9, <1>10, <1>11
  DEF Keeper

\* A restart keeps the loop invariant: the new poll has vouched for nothing.
LEMMA RestartInv ==
  ASSUME TypeOK, IInv, Restart
  PROVE  IInv'
<1>1. /\ pc' = "latest" /\ current' = 0 /\ tally' = NoTally /\ batch' = {}
      /\ ~applied' /\ UNCHANGED <<ledger, live, covered>>
  BY DEF Restart, ForgetBatch, ledgerVars
<1>2. ReadingsArePast'
  BY <1>1, LedgerAssumption DEF IInv, ReadingsArePast, TypeOK, LedgerTypeOK
<1>3. TransactionIsForBatch' /\ LoopProtects'
  BY <1>1 DEF TransactionIsForBatch, LoopProtects, InBatchLoop, NoTally
<1> QED
  BY <1>1, <1>2, <1>3, CoveredKept DEF IInv

\* The loop invariant holds initially.
LEMMA InitInv == Init => IInv
<1> SUFFICES ASSUME Init PROVE IInv
  OBVIOUS
<1>1. ReadingsArePast
  BY DEF Init, LedgerInit, ReadingsArePast, Never
<1>2. TransactionIsForBatch /\ LoopProtects /\ CleanReportsProtect
  BY DEF Init, TransactionIsForBatch, LoopProtects, InBatchLoop, NoTally,
         CleanReportsProtect
<1> QED
  BY <1>1, <1>2 DEF IInv

\* Every step keeps the loop invariant.
LEMMA NextInv ==
  ASSUME TypeOK, TypeOK', IInv, [Next]_vars
  PROVE  IInv'
<1>1. CASE UNCHANGED vars
  BY <1>1 DEF vars, pollVars, ledgerVars, IInv, ReadingsArePast,
              TransactionIsForBatch, LoopProtects, InBatchLoop,
              CleanReportsProtect, Outlives, Archived
<1> QED
  BY <1>1, KeeperInv, RestartInv, NetworkInv DEF Next

(***************************************************************************)
(* The loop invariant of poll_watch's batch loop holds in every behaviour. *)
(***************************************************************************)
THEOREM LoopInvariant == Spec => []IInv
<1>1. TypeOK /\ TypeOK' /\ IInv /\ [Next]_vars => IInv'
  BY NextInv
<1> QED
  BY <1>1, InitInv, TypeCorrect, PTL DEF Spec

(***************************************************************************)
(* A clean report can be trusted, for any number of watches and entries,   *)
(* any valid policies, and whatever calls fail, answers are lost, readings *)
(* are stale or processes die.                                             *)
(***************************************************************************)
THEOREM CleanReportsCanBeTrusted == Spec => []CleanReportsProtect
<1>1. IInv => CleanReportsProtect
  BY DEF IInv
<1> QED
  BY <1>1, LoopInvariant, PTL

\* Only reports change covered, and then to the reading of the poll.
LEMMA CoveredByReports ==
  ASSUME TypeOK, Keeper
  PROVE  /\ UNCHANGED <<ledger, live>>
         /\ \/ covered' = covered
            \/ covered' = [covered EXCEPT ![watch] = current]
<1>1. ASSUME NEW STATE t, ReturnReport(t)
      PROVE  \/ covered' = covered
             \/ covered' = [covered EXCEPT ![watch] = current]
  BY <1>1 DEF ReturnReport
<1>2. ASSUME NEW m \in SUBSET WatchKeys[watch], FetchEntries(m)
      PROVE  /\ UNCHANGED <<ledger, live>>
             /\ \/ covered' = covered
                \/ covered' = [covered EXCEPT ![watch] = current]
  BY <1>1, <1>2 DEF FetchEntries, ledgerVars
<1>3. CASE FinishWatch
  BY <1>1, <1>3 DEF FinishWatch, ledgerVars
<1>4. CASE StartPoll \/ SendTransaction \/ ExtensionSucceeds
  BY <1>4 DEF StartPoll, SendTransaction, ExtensionSucceeds, ledgerVars
<1>5. ASSUME NEW r \in Readings, LatestLedger(r) \/ PrepareExtension(r)
      PROVE  UNCHANGED <<ledger, live, covered>>
  BY <1>5 DEF LatestLedger, PrepareExtension, ledgerVars
<1>6. ASSUME NEW b \in SUBSET due, TakeBatch(b)
      PROVE  UNCHANGED <<ledger, live, covered>>
  BY <1>6 DEF TakeBatch, ledgerVars
<1>7. ASSUME NEW e \in Errors,
             \/ LatestLedgerFails(e) \/ FetchFails(e) \/ PrepareFails(e)
             \/ SendFails(e) \/ WaitFails(e)
      PROVE  UNCHANGED <<ledger, live, covered>>
  BY <1>7 DEF LatestLedgerFails, FetchFails, PrepareFails, SendFails,
              WaitFails, ledgerVars
<1> QED
  BY <1>2, <1>3, <1>4, <1>5, <1>6, <1>7 DEF Keeper

(***************************************************************************)
(* No entry is archived within threshold ledgers of the reading of a clean *)
(* report: what the threshold check of the configuration relies on.        *)
(***************************************************************************)
THEOREM NoExpiryBetweenPolls == Spec => NoExpiryWithinThreshold
<1>1. ASSUME TypeOK, TypeOK', IInv, [Next]_vars,
             NEW w \in Watches, covered[w] # Never,
             NEW k \in WatchKeys[w], ~Archived(k), Archived(k)'
      PROVE  ledger' > covered[w] + Threshold[w] + 1
  <2>1. /\ k \in Keys /\ covered[w] \in Nat /\ Threshold[w] \in Nat
        /\ live[k] \in Nat /\ ledger \in Nat
    BY <1>1, WatchKeysAreKeys, LedgerAssumption, KeeperAssumption
    DEF TypeOK, LedgerTypeOK
  <2>2. live[k] > covered[w] + Threshold[w]
    BY <1>1 DEF IInv, CleanReportsProtect, Outlives
  <2>3. live'[k] >= live[k] /\ live'[k] < ledger'
    <3>1. CASE Network
      BY <1>1, <2>1, <3>1, NetworkEffect DEF LiveOnlyGrows, Archived
    <3>2. CASE UNCHANGED <<ledger, live>>
      BY <1>1, <3>2 DEF Archived
    <3>3. Keeper => UNCHANGED <<ledger, live>>
      BY <1>1, CoveredByReports
    <3>4. Restart \/ UNCHANGED vars => UNCHANGED <<ledger, live>>
      BY DEF Restart, vars, ledgerVars
    <3> QED
      BY <1>1, <3>1, <3>2, <3>3, <3>4 DEF Next
  <2>4. live'[k] \in Nat /\ ledger' \in Nat
    BY <1>1, <2>1, LedgerAssumption DEF TypeOK, LedgerTypeOK
  <2> QED
    BY <2>1, <2>2, <2>3, <2>4
<1>2. TypeOK /\ TypeOK' /\ IInv /\ [Next]_vars =>
        [\A w \in Watches : covered[w] # Never =>
           \A k \in WatchKeys[w] :
             ~Archived(k) /\ Archived(k)' =>
               ledger' > covered[w] + Threshold[w] + 1]_vars
  BY <1>1
<1> QED
  BY <1>2, TypeCorrect, LoopInvariant, PTL DEF Spec, NoExpiryWithinThreshold

(***************************************************************************)
(* The poll loop implements the promise: every step of the keeper and of   *)
(* the network is a step of TtlPromise or changes nothing it speaks of.    *)
(***************************************************************************)
THEOREM ImplementsPromise == Spec => KeepsPromise
<1>1. Init => Promise!Init
  <2> SUFFICES ASSUME Init PROVE Promise!Init
    OBVIOUS
  <2>1. live \in [Keys -> Nat]
    BY LedgerAssumption DEF Init, LedgerInit
  <2> QED
    BY <2>1 DEF Init, LedgerInit, Promise!Init, Never, Promise!Never
<1>2. ASSUME TypeOK, TypeOK', IInv, IInv', [Next]_vars
      PROVE  [Promise!Next]_<<ledger, live, covered>>
  <2>0. /\ ledger \in Nat /\ live' \in [Keys -> Nat] /\ watch \in Watches
        /\ current \in 0 .. ledger /\ covered \in [Watches -> Nat \cup {Never}]
    BY <1>2, LedgerAssumption DEF TypeOK, LedgerTypeOK, IInv, ReadingsArePast
  <2>1. CASE Keeper
    <3>1. CASE covered' = covered
      BY <1>2, <2>1, <3>1, CoveredByReports
    <3>2. CASE covered' = [covered EXCEPT ![watch] = current]
      <4>1. UNCHANGED <<ledger, live>>
        BY <1>2, <2>1, CoveredByReports
      <4>2. covered'[watch] = current /\ current # Never
        BY <2>0, <3>2 DEF Never
      <4>3. \A k \in WatchKeys[watch] : Outlives(k, watch, current)
        BY <1>2, <2>0, <4>1, <4>2
        DEF IInv, CleanReportsProtect, Outlives, Archived
      <4>4. Promise!Vouch(watch)
        BY <2>0, <3>2, <4>1, <4>3
        DEF Promise!Vouch, Promise!Outlives, Promise!Archived, Outlives, Archived
      <4> QED
        BY <2>0, <4>4 DEF Promise!Next
    <3> QED
      BY <1>2, <2>1, <3>1, <3>2, CoveredByReports
  <2>2. CASE Restart \/ UNCHANGED vars
    BY <2>2 DEF Restart, vars, ledgerVars
  <2>3. CASE Network
    <3>1. covered' = covered /\ LiveOnlyGrows
      BY <1>2, <2>3, NetworkEffect
    <3>2. CASE ledger' = ledger
      <4>1. Promise!Renew
        BY <2>0, <3>1, <3>2
        DEF LiveOnlyGrows, Archived, Promise!Renew, Promise!Archived
      <4> QED
        BY <4>1 DEF Promise!Next
    <3>3. CASE CloseLedger
      BY <3>1, <3>3 DEF CloseLedger, Promise!CloseLedger, Promise!Next
    <3>4. ledger' = ledger \/ CloseLedger
      BY <2>3 DEF Network, ContractBump, ApplyExtension, Apply, Forget,
                  SpendSequence, ForeignTransaction
    <3> QED
      BY <3>2, <3>3, <3>4
  <2> QED
    BY <1>2, <2>1, <2>2, <2>3 DEF Next
<1>3. TypeOK /\ TypeOK' /\ IInv /\ IInv' /\ [Next]_vars =>
        [Promise!Next]_(Promise!promiseVars)
  BY <1>2 DEF Promise!promiseVars
<1> QED
  BY <1>1, <1>3, TypeCorrect, LoopInvariant, PTL
  DEF Spec, KeepsPromise, Promise!Spec
-----------------------------------------------------------------------------
(***************************************************************************)
(* What a poll returns and what it queues.  None of the three invariants   *)
(* is inductive: the position in the list of watches, the tally of the     *)
(* batch loop and the contents of the batch have to be carried to where    *)
(* the report is pushed and the transaction sent.                          *)
(***************************************************************************)

\* The watches are visited in order from the first.
VisitsInOrder ==
  /\ WatchesInOrder
  /\ pc \in {"latest", "sleep"} => watch = 1
  /\ pc = "latest" => reports = <<>>

\* Critical entries not yet counted in a batch pay for the batches to come,
\* and there is one to come until the first is counted.
TallyAddsUp ==
  InBatchLoop =>
    /\ tally.extended_batches + Cardinality(due)
         + (IF pc = "batches" THEN 0 ELSE 1) <= tally.critical
    /\ tally.critical <= tally.checked
    /\ tally.submitted <= tally.extended_batches
    /\ pc = "batches" /\ due = {} => tally.extended_batches > 0

\* The size rule of a batch.
FitsBatch(keys) == Cardinality(keys) = 1 \/ Bytes(Size, keys) <= MaxBatchBytes

\* What is due or in the batch belongs to the watch, and the batch fits.
BatchOfWatch ==
  /\ due \subseteq WatchKeys[watch]
  /\ batch \subseteq WatchKeys[watch]
  /\ pc \in {"prepare", "send", "wait"} => FitsBatch(batch)

PollInv ==
  /\ VisitsInOrder
  /\ ReportsAddUp /\ TallyAddsUp
  /\ QueuedTransactionsAreBatches /\ BatchOfWatch

\* What ReportsAddUp asks of a single report.
AddsUp(r) ==
  /\ r.ok => /\ r.submitted <= r.extended_batches
             /\ r.extended_batches <= r.critical
             /\ r.critical <= r.checked
             /\ (r.critical > 0) = (r.extended_batches > 0)
  /\ ~r.ok => r.attempts \in 1 .. Retries + 1

\* A poll and a queue untouched keep the invariant.
LEMMA PollUntouched ==
  ASSUME PollInv, UNCHANGED <<pc, watch, reports, tally, due, batch, mempool>>
  PROVE  PollInv'
<1>1. VisitsInOrder' /\ BatchOfWatch'
  BY DEF PollInv, VisitsInOrder, WatchesInOrder, BatchOfWatch
<1>2. ReportsAddUp' /\ TallyAddsUp'
  BY DEF PollInv, ReportsAddUp, TallyAddsUp, InBatchLoop
<1> QED
  BY <1>1, <1>2 DEF PollInv, QueuedTransactionsAreBatches

\* Pushing a report that adds up keeps the reports in order and adding up.
LEMMA PushReportPoll ==
  ASSUME TypeOK, PollInv, NEW STATE r, r \in Reports, r.watch = watch, AddsUp(r),
         pc \in {"fetch", "batches"}, PushReport(r), UNCHANGED mempool
  PROVE  PollInv'
<1>1. /\ reports \in Seq(Reports) /\ watch \in 1 .. NumWatches
      /\ NumWatches \in Nat \ {0}
  BY KeeperAssumption DEF TypeOK, Watches
<1>2. /\ Len(reports) = watch - 1
      /\ \A i \in 1 .. Len(reports) : reports[i].watch = i
  BY DEF PollInv, VisitsInOrder, WatchesInOrder
<1>3. reports' = Append(reports, r)
  BY DEF PushReport
<1>4. Len(reports') = watch
  BY <1>1, <1>2, <1>3
<1>5. \A i \in 1 .. Len(reports') :
        reports'[i] = IF i = watch THEN r ELSE reports[i]
  BY <1>1, <1>2, <1>3
<1>6. \A i \in 1 .. Len(reports') : reports'[i].watch = i
  BY <1>1, <1>2, <1>4, <1>5
<1>7. \/ watch < NumWatches /\ watch' = watch + 1 /\ pc' = "fetch"
      \/ watch = NumWatches /\ watch' = 1 /\ pc' = "sleep"
  BY <1>1 DEF PushReport
<1>8. VisitsInOrder'
  BY <1>1, <1>4, <1>6, <1>7 DEF VisitsInOrder, WatchesInOrder
<1>9. \A i \in 1 .. Len(reports') : AddsUp(reports'[i])
  <2>1. \A i \in 1 .. Len(reports) : AddsUp(reports[i])
    BY DEF PollInv, ReportsAddUp, AddsUp
  <2> QED
    BY <1>1, <1>2, <1>4, <1>5, <2>1
<1>10. ReportsAddUp'
  BY <1>9 DEF ReportsAddUp, AddsUp
<1>11. TallyAddsUp' /\ BatchOfWatch'
  BY <1>7 DEF PushReport, TallyAddsUp, InBatchLoop, BatchOfWatch
<1> QED
  BY <1>8, <1>10, <1>11 DEF PollInv, QueuedTransactionsAreBatches

\* So does returning a report whose tally adds up.
LEMMA ReturnReportPoll ==
  ASSUME TypeOK, PollInv, NEW STATE t, t \in TallyType,
         pc \in {"fetch", "batches"}, ReturnReport(t), UNCHANGED mempool,
         t.submitted <= t.extended_batches, t.extended_batches <= t.critical,
         t.critical <= t.checked,
         (t.critical > 0) = (t.extended_batches > 0)
  PROVE  PollInv'
<1> DEFINE r == Report(watch, TRUE, t, 0)
<1>1. r \in Reports
  <2>1. watch \in 0 .. NumWatches /\ TRUE \in BOOLEAN /\ 0 \in Nat
    BY KeeperAssumption DEF TypeOK, Watches
  <2> QED
    BY <2>1, ReportType
<1>2. r.watch = watch /\ AddsUp(r)
  BY DEF Report, AddsUp
<1>3. PushReport(r)
  BY DEF ReturnReport
<1> HIDE DEF r
<1> QED
  BY <1>1, <1>2, <1>3, PushReportPoll

\* Counting a batch.
LEMMA CountBatchPoll ==
  ASSUME TypeOK, PollInv, NEW won \in {0, 1}, CountBatch(won),
         pc \in {"prepare", "send", "wait"}, UNCHANGED <<watch, due, reports>>,
         QueuedTransactionsAreBatches'
  PROVE  PollInv'
<1>1. pc' = "batches" /\ batch' = {}
  BY DEF CountBatch
<1>2. VisitsInOrder' /\ BatchOfWatch'
  BY <1>1 DEF PollInv, VisitsInOrder, WatchesInOrder, BatchOfWatch
<1>3. TallyAddsUp'
  <2>1. /\ tally'.extended_batches = tally.extended_batches + 1
        /\ tally'.submitted = tally.submitted + won
        /\ tally'.critical = tally.critical /\ tally'.checked = tally.checked
        /\ tally.extended_batches \in Nat /\ tally.submitted \in Nat
        /\ tally.critical \in Nat /\ tally.checked \in Nat
    BY DEF CountBatch, TypeOK
  <2>2. /\ tally.extended_batches + Cardinality(due) + 1 <= tally.critical
        /\ tally.critical <= tally.checked
        /\ tally.submitted <= tally.extended_batches
    BY DEF PollInv, TallyAddsUp, InBatchLoop
  <2>3. Cardinality(due) \in Nat
    BY KeySetsCounted DEF TypeOK
  <2> QED
    BY <1>1, <2>1, <2>2, <2>3 DEF TallyAddsUp
<1> QED
  BY <1>2, <1>3 DEF PollInv, ReportsAddUp

\* A failed extension: the batch is retried from the start, or counted.
LEMMA ExtensionFailsPoll ==
  ASSUME TypeOK, PollInv, NEW e \in Errors, ExtensionFails(e),
         pc \in {"prepare", "send", "wait"}, UNCHANGED <<watch, due, reports>>,
         QueuedTransactionsAreBatches'
  PROVE  PollInv'
<1>1. CASE Retry(e, "prepare") /\ ForgetBatch /\ UNCHANGED <<batch, tally>>
  <2>1. pc' = "prepare"
    BY <1>1 DEF Retry
  <2>2. VisitsInOrder' /\ BatchOfWatch'
    BY <1>1, <2>1 DEF PollInv, VisitsInOrder, WatchesInOrder, BatchOfWatch
  <2>3. TallyAddsUp'
    BY <1>1, <2>1 DEF PollInv, TallyAddsUp, InBatchLoop
  <2> QED
    BY <2>2, <2>3 DEF PollInv, ReportsAddUp
<1>2. CASE GivesUp(e) /\ CountBatch(0)
  BY <1>2, CountBatchPoll
<1> QED
  BY <1>1, <1>2 DEF ExtensionFails

\* An entry is due exactly when it is critical.
LEMMA DueIsCritical ==
  ASSUME TypeOK, NEW seen \in SUBSET Keys
  PROVE  DueEntries(seen) = CriticalEntries(seen)
<1>1. /\ watch \in Watches /\ current \in Nat
      /\ \A k \in seen : live[k] \in Nat
  BY DEF TypeOK, LedgerTypeOK
<1>2. Threshold[watch] \in Nat /\ ExtendTo[watch] \in Nat
  BY <1>1, KeeperAssumption
<1>3. ASSUME NEW ttl \in Nat, NEW low \in Nat, NEW high \in Nat
      PROVE  ttl <= low <=> Classify(ttl, low, high) = "critical"
  BY <1>3 DEF Classify
<1>4. \A k \in seen : TtlRemaining(live[k], current) \in Nat
  BY <1>1 DEF TtlRemaining, SatSub
<1> QED
  BY <1>2, <1>3, <1>4 DEF DueEntries, CriticalEntries, ShouldExtend

\* A queue that gains at most the transaction of the current batch.
LEMMA SentIsBatch ==
  ASSUME TypeOK, IInv, PollInv, pc = "send",
         mempool' = mempool \/ mempool' = mempool \cup {tx}
  PROVE  QueuedTransactionsAreBatches'
<1>1. /\ tx.keys \subseteq WatchKeys[watch] /\ tx.extend_to = ExtendTo[watch]
      /\ FitsBatch(tx.keys) /\ watch \in Watches
  BY DEF TypeOK, IInv, TransactionIsForBatch, PollInv, BatchOfWatch
<1> QED
  BY <1>1 DEF PollInv, QueuedTransactionsAreBatches, FitsBatch

\* Every step of the keeper keeps the invariant of the poll.
LEMMA KeeperPoll ==
  ASSUME TypeOK, IInv, PollInv, Keeper
  PROVE  PollInv'
<1>1. CASE StartPoll
  <2>1. /\ pc = "sleep" /\ pc' = "latest" /\ reports' = <<>>
        /\ UNCHANGED <<watch, tally, due, batch, mempool>>
    BY <1>1 DEF StartPoll, ledgerVars
  <2> QED
    BY <2>1 DEF PollInv, VisitsInOrder, WatchesInOrder, ReportsAddUp,
                TallyAddsUp, InBatchLoop, BatchOfWatch,
                QueuedTransactionsAreBatches
<1>2. ASSUME NEW r \in Readings, LatestLedger(r)
      PROVE  PollInv'
  <2>1. /\ pc = "latest" /\ pc' = "fetch"
        /\ UNCHANGED <<watch, reports, tally, due, batch, mempool>>
    BY <1>2 DEF LatestLedger, ledgerVars
  <2>2. watch = 1 /\ reports = <<>>
    BY <2>1 DEF PollInv, VisitsInOrder
  <2>3. VisitsInOrder'
    BY <2>1, <2>2 DEF VisitsInOrder, WatchesInOrder
  <2> QED
    BY <2>1, <2>3 DEF PollInv, ReportsAddUp, TallyAddsUp, InBatchLoop,
                      BatchOfWatch, QueuedTransactionsAreBatches
<1>3. ASSUME NEW r \in Readings, PrepareExtension(r)
      PROVE  PollInv'
  <2>1. /\ pc = "prepare" /\ pc' = "send"
        /\ UNCHANGED <<watch, reports, tally, due, batch, mempool>>
    BY <1>3 DEF PrepareExtension, ledgerVars
  <2>2. VisitsInOrder'
    BY <2>1 DEF PollInv, VisitsInOrder, WatchesInOrder
  <2>3. TallyAddsUp' /\ BatchOfWatch'
    BY <2>1 DEF PollInv, TallyAddsUp, InBatchLoop, BatchOfWatch
  <2> QED
    BY <2>1, <2>2, <2>3 DEF PollInv, ReportsAddUp, QueuedTransactionsAreBatches
<1>4. ASSUME NEW m \in SUBSET WatchKeys[watch], FetchEntries(m)
      PROVE  PollInv'
  <2> DEFINE seen == WatchKeys[watch] \ m
             t == [NoTally EXCEPT !.checked = Cardinality(seen),
                        !.critical = Cardinality(CriticalEntries(seen))]
  <2>1. pc = "fetch" /\ UNCHANGED mempool
    BY <1>4 DEF FetchEntries, ledgerVars
  <2>2. seen \in SUBSET Keys
    BY WatchKeysAreKeys DEF TypeOK
  <2>3. IsFiniteSet(seen) /\ IsFiniteSet(DueEntries(seen))
    BY <2>2, LedgerAssumption, FS_Subset DEF DueEntries
  <2>4. /\ Cardinality(seen) \in Nat
        /\ Cardinality(DueEntries(seen)) \in Nat
        /\ Cardinality(DueEntries(seen)) <= Cardinality(seen)
        /\ DueEntries(seen) = {} <=> Cardinality(DueEntries(seen)) = 0
    BY <2>3, FS_CardinalityType, FS_Subset, FS_EmptySet DEF DueEntries
  <2>5. /\ t \in TallyType /\ t.submitted = 0 /\ t.extended_batches = 0
        /\ t.checked = Cardinality(seen)
        /\ t.critical = Cardinality(DueEntries(seen))
    <3>1. CriticalEntries(seen) = DueEntries(seen)
      BY <2>2, DueIsCritical
    <3> HIDE DEF seen
    <3> QED
      BY <2>4, <3>1 DEF NoTally, TallyType
  <2> HIDE DEF t, seen
  <2>6. CASE DueEntries(seen) = {} /\ ReturnReport(t)
    BY <2>1, <2>4, <2>5, <2>6, ReturnReportPoll
  <2>7. CASE /\ DueEntries(seen) # {}
             /\ due' = DueEntries(seen)
             /\ tally' = t
             /\ pc' = "batches"
             /\ UNCHANGED <<watch, batch, reports>>
    <3>1. VisitsInOrder' /\ BatchOfWatch'
      <4>1. due' \subseteq WatchKeys[watch]
        BY <2>7 DEF DueEntries, seen
      <4> QED
        BY <2>1, <2>7, <4>1
        DEF PollInv, VisitsInOrder, WatchesInOrder, BatchOfWatch
    <3>2. TallyAddsUp'
      BY <2>4, <2>5, <2>7 DEF TallyAddsUp
    <3> QED
      BY <2>1, <2>7, <3>1, <3>2
      DEF PollInv, ReportsAddUp, QueuedTransactionsAreBatches
  <2> QED
    BY <1>4, <2>6, <2>7 DEF FetchEntries, t, seen
<1>5. ASSUME NEW b \in SUBSET due, TakeBatch(b)
      PROVE  PollInv'
  <2>1. /\ pc = "batches" /\ pc' = "prepare"
        /\ batch' = b /\ due' = due \ b
        /\ UNCHANGED <<watch, reports, tally, mempool>>
    BY <1>5 DEF TakeBatch, ledgerVars
  <2>2. b # {} /\ FitsBatch(b)
    BY <1>5 DEF TakeBatch, NextBatches, FitsBatch
  <2>3. VisitsInOrder' /\ BatchOfWatch'
    BY <2>1, <2>2 DEF PollInv, VisitsInOrder, WatchesInOrder, BatchOfWatch
  <2>4. /\ Cardinality(due) \in Nat /\ Cardinality(due') \in Nat
        /\ Cardinality(due') + 1 <= Cardinality(due)
    <3>1. IsFiniteSet(due) /\ IsFiniteSet(due') /\ due' \subseteq due /\ due' # due
      BY <2>1, <2>2, LedgerAssumption, FS_Subset DEF TypeOK
    <3>2. /\ Cardinality(due) \in Nat /\ Cardinality(due') \in Nat
          /\ Cardinality(due') < Cardinality(due)
      BY <3>1, FS_Subset, FS_CardinalityType
    <3> QED
      BY <3>2
  <2>5. TallyAddsUp'
    <3>1. tally.extended_batches \in Nat /\ tally.critical \in Nat
      BY DEF TypeOK
    <3> QED
      BY <2>1, <2>4, <3>1 DEF PollInv, TallyAddsUp, InBatchLoop
  <2> QED
    BY <2>1, <2>3, <2>5 DEF PollInv, ReportsAddUp, QueuedTransactionsAreBatches
<1>6. CASE FinishWatch
  <2>1. /\ pc = "batches" /\ due = {} /\ ReturnReport(tally) /\ UNCHANGED mempool
    BY <1>6 DEF FinishWatch, ledgerVars
  <2>2. tally \in TallyType /\ Cardinality(due) = 0
    BY <2>1, FS_EmptySet DEF TypeOK, TallyType
  <2>3. /\ tally.submitted <= tally.extended_batches
        /\ tally.extended_batches <= tally.critical
        /\ tally.critical <= tally.checked
        /\ tally.extended_batches > 0
    BY <2>1, <2>2 DEF PollInv, TallyAddsUp, InBatchLoop, TallyType
  <2>4. tally.critical > 0
    BY <2>2, <2>3 DEF TallyType
  <2> QED
    BY <2>1, <2>2, <2>3, <2>4, ReturnReportPoll
<1>7. CASE SendTransaction
  <2>1. /\ pc = "send" /\ pc' = "wait" /\ mempool' = mempool \cup {tx}
        /\ UNCHANGED <<watch, reports, tally, due, batch>>
    BY <1>7 DEF SendTransaction, Accepted
  <2>2. QueuedTransactionsAreBatches'
    BY <2>1, SentIsBatch
  <2>3. VisitsInOrder' /\ BatchOfWatch'
    BY <2>1 DEF PollInv, VisitsInOrder, WatchesInOrder, BatchOfWatch
  <2>4. TallyAddsUp'
    BY <2>1 DEF PollInv, TallyAddsUp, InBatchLoop
  <2> QED
    BY <2>1, <2>2, <2>3, <2>4 DEF PollInv, ReportsAddUp
<1>8. CASE ExtensionSucceeds
  <2>1. /\ pc = "wait" /\ CountBatch(1)
        /\ UNCHANGED <<watch, due, reports, mempool>>
    BY <1>8 DEF ExtensionSucceeds, ledgerVars
  <2>2. QueuedTransactionsAreBatches'
    BY <2>1 DEF PollInv, QueuedTransactionsAreBatches
  <2> QED
    BY <2>1, <2>2, CountBatchPoll
<1>9. ASSUME NEW e \in Errors, LatestLedgerFails(e)
      PROVE  PollInv'
  <2>0. pc = "latest" /\ UNCHANGED <<watch, tally, due, batch, mempool>>
    BY <1>9 DEF LatestLedgerFails, ledgerVars
  <2>1. CASE Retry(e, "latest") /\ UNCHANGED reports
    BY <2>0, <2>1, PollUntouched DEF Retry
  <2>2. CASE /\ reports' = <<Report(0, FALSE, NoTally, attempt + 1)>>
             /\ pc' = "sleep"
    <3>1. watch = 1
      BY <2>0 DEF PollInv, VisitsInOrder
    <3>2. VisitsInOrder'
      BY <2>0, <2>2, <3>1 DEF VisitsInOrder, WatchesInOrder, Report
    <3>3. AddsUp(Report(0, FALSE, NoTally, attempt + 1))
      BY RetriesType DEF AddsUp, Report, TypeOK
    <3>4. ReportsAddUp'
      <4> DEFINE r == Report(0, FALSE, NoTally, attempt + 1)
      <4>1. Len(reports') = 1 /\ reports'[1] = r
        BY <2>2
      <4>2. AddsUp(r)
        BY <3>3
      <4> HIDE DEF r
      <4>3. \A i \in 1 .. Len(reports') : AddsUp(reports'[i])
        BY <4>1, <4>2
      <4> QED
        BY <4>3 DEF ReportsAddUp, AddsUp
    <3>5. TallyAddsUp' /\ BatchOfWatch'
      BY <2>0, <2>2 DEF PollInv, TallyAddsUp, InBatchLoop, BatchOfWatch
    <3> QED
      BY <2>0, <3>2, <3>4, <3>5 DEF PollInv, QueuedTransactionsAreBatches
  <2> QED
    BY <1>9, <2>1, <2>2 DEF LatestLedgerFails
<1>10. ASSUME NEW e \in Errors, FetchFails(e)
       PROVE  PollInv'
  <2>0. pc = "fetch" /\ UNCHANGED mempool
    BY <1>10 DEF FetchFails, ledgerVars
  <2>1. CASE Retry(e, "fetch") /\ UNCHANGED <<watch, due, batch, tally, reports>>
    BY <2>0, <2>1, PollUntouched DEF Retry
  <2>2. CASE PushReport(Report(watch, FALSE, NoTally, attempt + 1))
    <3> DEFINE r == Report(watch, FALSE, NoTally, attempt + 1)
    <3>1. /\ watch \in 0 .. NumWatches /\ FALSE \in BOOLEAN
          /\ attempt + 1 \in Nat /\ attempt + 1 \in 1 .. Retries + 1
      BY RetriesType, KeeperAssumption DEF TypeOK, Watches
    <3>2. r \in Reports
      BY <3>1, ReportType, NoTallyType
    <3>3. r.watch = watch /\ AddsUp(r)
      BY <3>1 DEF Report, AddsUp
    <3> HIDE DEF r
    <3> QED
      BY <2>0, <2>2, <3>2, <3>3, PushReportPoll DEF r
  <2> QED
    BY <1>10, <2>1, <2>2 DEF FetchFails
<1>11. ASSUME NEW e \in Errors, PrepareFails(e) \/ SendFails(e) \/ WaitFails(e)
       PROVE  PollInv'
  <2>1. /\ pc \in {"prepare", "send", "wait"} /\ ExtensionFails(e)
        /\ UNCHANGED <<watch, due, reports>>
    BY <1>11 DEF PrepareFails, SendFails, WaitFails
  <2>2. \/ mempool' = mempool
        \/ pc = "send" /\ mempool' = mempool \cup {tx}
    <3>1. PrepareFails(e) \/ WaitFails(e) => mempool' = mempool
      BY DEF PrepareFails, WaitFails, ledgerVars
    <3>2. SendFails(e) =>
            pc = "send" /\ mempool' \in {mempool, mempool \cup {tx}}
      BY DEF SendFails, Accepted
    <3> QED
      BY <1>11, <3>1, <3>2
  <2>3. QueuedTransactionsAreBatches'
    <3>1. CASE mempool' = mempool
      BY <3>1 DEF PollInv, QueuedTransactionsAreBatches
    <3>2. CASE pc = "send" /\ mempool' = mempool \cup {tx}
      BY <3>2, SentIsBatch
    <3> QED
      BY <2>2, <3>1, <3>2
  <2> QED
    BY <2>1, <2>3, ExtensionFailsPoll
<1> QED
  BY <1>1, <1>2, <1>3, <1>4, <1>5, <1>6, <1>7, <1>8, <1>9, <1>10, <1>11
  DEF Keeper

\* A restart begins a fresh poll and leaves the queue as it was.
LEMMA RestartPoll ==
  ASSUME TypeOK, PollInv, Restart
  PROVE  PollInv'
<1>1. /\ pc' = "latest" /\ watch' = 1 /\ reports' = <<>> /\ due' = {}
      /\ batch' = {} /\ UNCHANGED mempool
  BY DEF Restart, ledgerVars
<1> QED
  BY <1>1 DEF PollInv, VisitsInOrder, WatchesInOrder, ReportsAddUp, TallyAddsUp,
              InBatchLoop, BatchOfWatch, QueuedTransactionsAreBatches

\* The network only takes transactions out of the queue.
LEMMA NetworkPoll ==
  ASSUME TypeOK, PollInv, Network
  PROVE  PollInv'
<1>1. UNCHANGED <<pc, watch, reports, tally, due, batch>>
  BY DEF Network, CloseLedger, ContractBump, ApplyExtension, Forget,
         SpendSequence, pollVars
<1>2. mempool' \subseteq mempool
  BY DEF Network, CloseLedger, ContractBump, ApplyExtension, Apply, Forget,
         SpendSequence, ForeignTransaction
<1>3. QueuedTransactionsAreBatches'
  BY <1>2 DEF PollInv, QueuedTransactionsAreBatches
<1>4. VisitsInOrder' /\ BatchOfWatch'
  BY <1>1 DEF PollInv, VisitsInOrder, WatchesInOrder, BatchOfWatch
<1>5. ReportsAddUp' /\ TallyAddsUp'
  BY <1>1 DEF PollInv, ReportsAddUp, TallyAddsUp, InBatchLoop
<1> QED
  BY <1>3, <1>4, <1>5 DEF PollInv

(***************************************************************************)
(* What a poll returns and queues is as PollInv says, in every behaviour.  *)
(***************************************************************************)
THEOREM PollInvariant == Spec => []PollInv
<1>1. Init => PollInv
  <2> SUFFICES ASSUME Init PROVE PollInv
    OBVIOUS
  <2>1. /\ pc = "latest" /\ watch = 1 /\ reports = <<>> /\ due = {}
        /\ batch = {} /\ mempool = {}
    BY DEF Init, LedgerInit
  <2> QED
    BY <2>1 DEF PollInv, VisitsInOrder, WatchesInOrder, ReportsAddUp,
                TallyAddsUp, InBatchLoop, BatchOfWatch,
                QueuedTransactionsAreBatches
<1>2. TypeOK /\ IInv /\ PollInv /\ [Next]_vars => PollInv'
  <2> SUFFICES ASSUME TypeOK, IInv, PollInv, [Next]_vars PROVE PollInv'
    OBVIOUS
  <2>1. CASE UNCHANGED vars
    BY <2>1, PollUntouched DEF vars, pollVars, ledgerVars
  <2> QED
    BY <2>1, KeeperPoll, RestartPoll, NetworkPoll DEF Next
<1> QED
  BY <1>1, <1>2, TypeCorrect, LoopInvariant, PTL DEF Spec

(***************************************************************************)
(* One watch's failure costs no other watch its turn, whatever fails.      *)
(***************************************************************************)
THEOREM NoWatchIsSkipped == Spec => []WatchesInOrder
<1>1. PollInv => WatchesInOrder
  BY DEF PollInv, VisitsInOrder
<1> QED
  BY <1>1, PollInvariant, PTL

(***************************************************************************)
(* Every report adds up: batches exactly when something was critical, at   *)
(* most one per critical entry, at most one submission per batch, and an   *)
(* error only after 1 to max_attempts tries.                               *)
(***************************************************************************)
THEOREM EveryReportAddsUp == Spec => []ReportsAddUp
<1>1. PollInv => ReportsAddUp
  BY DEF PollInv
<1> QED
  BY <1>1, PollInvariant, PTL

(***************************************************************************)
(* Whatever the network has queued for the signer is a batch of one watch, *)
(* within the size cap, also after timeouts and restarts.                  *)
(***************************************************************************)
THEOREM OnlyBatchesAreQueued == Spec => []QueuedTransactionsAreBatches
<1>1. PollInv => QueuedTransactionsAreBatches
  BY DEF PollInv
<1> QED
  BY <1>1, PollInvariant, PTL
-----------------------------------------------------------------------------
(* The process: KeeperDaemon *)

\* What a step of the daemon is to the keeper.
LEMMA DaemonStep ==
  ASSUME DaemonNext
  PROVE  Next \/ UNCHANGED vars
<1>1. CASE Startup
  BY <1>1 DEF Startup
<1>2. CASE Poll
  <2>1. Keeper
    BY <1>2 DEF Poll, SilentStep, Keeper
  <2> QED
    BY <2>1 DEF Next
<1>3. CASE Relaunch
  BY <1>3 DEF Relaunch, Next
<1>4. CASE Tick
  BY <1>4 DEF Tick, Next, Network
<1>5. CASE Land
  BY <1>5 DEF Land, Next, Network
<1>6. CASE Others
  BY <1>6 DEF Others, Next, Network
<1> QED
  BY <1>1, <1>2, <1>3, <1>4, <1>5, <1>6 DEF DaemonNext

(***************************************************************************)
(* The process implements the keeper: configuration, startup, the sleep    *)
(* between polls and the metrics only choose among the keeper's steps, so  *)
(* every invariant of RentKeeper holds of it (main.rs, keeper.rs).         *)
(***************************************************************************)
THEOREM DaemonIsKeeper == DaemonSpec => Spec
<1>1. DaemonInit => Init
  BY DEF DaemonInit
<1>2. [DaemonNext]_daemonVars => [Next]_vars
  BY DaemonStep DEF daemonVars
<1> QED
  BY <1>1, <1>2, PTL DEF DaemonSpec, Spec
-----------------------------------------------------------------------------
(* Type correctness *)

\* The sleep clock runs only while run sleeps.
DaemonInv ==
  /\ DaemonTypeOK
  /\ ~Asleep => slept = 0

\* The empty metrics are well typed.
LEMMA FreshMetricsType ==
  /\ NoTtls \in [Watches -> [Keys -> Nat \cup {NoSample}]]
  /\ NoEntries \in [Watches -> Nat \cup {NoSample}]
  /\ NoExtensions \in [Watches -> [Outcomes -> Nat]]
  /\ NoErrors \in [Watches \cup {0} -> Nat]
  /\ NoPolls \in [Watches -> Nat \cup {Never}]
BY DEF NoTtls, NoEntries, NoExtensions, NoErrors, NoPolls

\* The interval of a configuration is a number.
LEMMA IntervalType ==
  ASSUME NEW c \in ConfigFiles \cup {NoSettings}
  PROVE  c.poll_interval_secs \in Nat
BY DaemonAssumption DEF NoSettings

\* So is what closes during it, before and after a step.
LEMMA MostClosesType ==
  /\ config \in ConfigFiles \cup {NoSettings} => MostCloses \in Nat
  /\ config' \in ConfigFiles \cup {NoSettings} => MostCloses' \in Nat
<1>1. config \in ConfigFiles \cup {NoSettings} => config.poll_interval_secs \in Nat
  BY IntervalType
<1>2. config' \in ConfigFiles \cup {NoSettings} => config'.poll_interval_secs \in Nat
  BY IntervalType
<1> QED
  BY <1>1, <1>2 DEF MostCloses

\* The types of what the poll loop writes.
MetricsTypeOK ==
  /\ ttl_ledgers \in [Watches -> [Keys -> Nat \cup {NoSample}]]
  /\ entries_watched \in [Watches -> Nat \cup {NoSample}]
  /\ extensions_total \in [Watches -> [Outcomes -> Nat]]
  /\ poll_errors \in [Watches \cup {0} -> Nat]
  /\ polled \in [Watches -> Nat \cup {Never}]

\* A remaining TTL is a number.
LEMMA TtlRemainingType ==
  ASSUME TypeOK, NEW k \in Keys
  PROVE  TtlRemaining(live[k], current) \in Nat
BY LedgerAssumption DEF TypeOK, LedgerTypeOK, TtlRemaining, SatSub

\* What a fetch records is well typed.
LEMMA RecordFetchType ==
  ASSUME TypeOK, MetricsTypeOK, NEW m \in SUBSET WatchKeys[watch], RecordFetch(m)
  PROVE  MetricsTypeOK'
<1>1. watch \in Watches /\ current \in Nat /\ WatchKeys[watch] \subseteq Keys
  BY WatchKeysAreKeys DEF TypeOK
<1>2. EntriesWatched(m) \in Nat
  BY <1>1, KeySetsCounted DEF EntriesWatched
<1>3. entries_watched' \in [Watches -> Nat \cup {NoSample}]
  BY <1>1, <1>2 DEF RecordFetch, MetricsTypeOK
<1>4. ttl_ledgers' \in [Watches -> [Keys -> Nat \cup {NoSample}]]
  <2> DEFINE row == [k \in Keys |-> IF k \in WatchKeys[watch] \ m
                                     THEN TtlRemaining(live[k], current)
                                     ELSE ttl_ledgers[watch][k]]
  <2>1. row \in [Keys -> Nat \cup {NoSample}]
    BY <1>1, TtlRemainingType DEF MetricsTypeOK
  <2>2. ttl_ledgers' = [ttl_ledgers EXCEPT ![watch] = row]
    BY DEF RecordFetch
  <2> HIDE DEF row
  <2> QED
    BY <1>1, <2>1, <2>2 DEF MetricsTypeOK
<1>5. extensions_total' \in [Watches -> [Outcomes -> Nat]]
  BY <1>1 DEF RecordFetch, MetricsTypeOK, Outcomes
<1>6. polled' \in [Watches -> Nat \cup {Never}]
  BY <1>1 DEF RecordFetch, MetricsTypeOK
<1> QED
  BY <1>3, <1>4, <1>5, <1>6 DEF RecordFetch, MetricsTypeOK

\* So is what the counters are set to.
LEMMA CountExtensionType ==
  ASSUME TypeOK, MetricsTypeOK, NEW o \in Outcomes, CountExtension(o)
  PROVE  MetricsTypeOK'
<1>1. watch \in Watches
  BY DEF TypeOK
<1> QED
  BY <1>1 DEF CountExtension, MetricsTypeOK

\* So is what a failed attempt leaves behind.
LEMMA CountFailureType ==
  ASSUME TypeOK, MetricsTypeOK, NEW e \in Errors, CountFailure(e)
  PROVE  MetricsTypeOK'
<1>1. CASE GivesUp(e)
  BY <1>1, CountExtensionType DEF CountFailure, Outcomes
<1>2. CASE ~GivesUp(e)
  BY <1>2 DEF CountFailure, MetricsTypeOK, metrics
<1> QED
  BY <1>1, <1>2

\* So is what a failed poll leaves behind.
LEMMA CountPollErrorType ==
  ASSUME MetricsTypeOK, NEW e \in Errors, NEW STATE l, l \in Watches \cup {0},
         CountPollError(e, l)
  PROVE  MetricsTypeOK'
BY DEF CountPollError, MetricsTypeOK

\* A step of the poll loop keeps the metrics well typed.
LEMMA PollMetricsType ==
  ASSUME TypeOK, MetricsTypeOK, Poll
  PROVE  MetricsTypeOK'
<1>0. watch \in Watches
  BY DEF TypeOK
<1>1. CASE SilentStep
  BY <1>1 DEF SilentStep, MetricsTypeOK, metrics
<1>2. CASE \E m \in SUBSET WatchKeys[watch] : FetchEntries(m) /\ RecordFetch(m)
  BY <1>2, RecordFetchType
<1>3. CASE ExtensionSucceeds /\ CountExtension("submitted")
  BY <1>3, CountExtensionType DEF Outcomes
<1>4. ASSUME NEW e \in Errors, LatestLedgerFails(e) /\ CountPollError(e, 0)
      PROVE  MetricsTypeOK'
  BY <1>4, CountPollErrorType
<1>5. ASSUME NEW e \in Errors, FetchFails(e) /\ CountPollError(e, watch)
      PROVE  MetricsTypeOK'
  BY <1>0, <1>5, CountPollErrorType
<1>6. ASSUME NEW e \in Errors, CountFailure(e)
      PROVE  MetricsTypeOK'
  BY <1>6, CountFailureType
<1> QED
  BY <1>1, <1>2, <1>3, <1>4, <1>5, <1>6 DEF Poll

\* A process starts with it.
LEMMA DaemonInvStarts ==
  ASSUME Launched
  PROVE  DaemonInv
<1>1. 1 \in Watches
  BY KeeperAssumption DEF Watches
<1>2. slept \in 0 .. MostCloses
  BY MostClosesType DEF Launched
<1> QED
  BY <1>1, <1>2, FreshMetricsType DEF Launched, DaemonInv, DaemonTypeOK

\* Startup touches only the startup variables.
LEMMA StartupInv ==
  ASSUME DaemonInv, Startup
  PROVE  DaemonInv'
<1>1. /\ phase \in {"load", "connect", "balance", "watches"}
      /\ phase' \in {"connect", "balance", "watches", "running", "exited"}
      /\ config' \in ConfigFiles \cup {NoSettings}
      /\ setup' \in Watches
  <2>1. CASE \E c \in ConfigFiles : LoadConfig(c)
    BY <2>1 DEF LoadConfig, DaemonInv, DaemonTypeOK
  <2>2. CASE VerifyNetwork \/ \E b \in Balances : CheckBalance(b)
    BY <2>2 DEF VerifyNetwork, CheckBalance, DaemonInv, DaemonTypeOK
  <2>3. CASE BuildWatch
    BY <2>3, KeeperAssumption DEF BuildWatch, DaemonInv, DaemonTypeOK, Watches
  <2>4. CASE StartupFails
    BY <2>4, KeeperAssumption DEF StartupFails, Watches
  <2> QED
    BY <2>1, <2>2, <2>3, <2>4 DEF Startup
<1>2. slept = 0 /\ slept' = 0
  BY <1>1 DEF DaemonInv, Asleep, Startup
<1>3. MostCloses' \in Nat
  BY <1>1, MostClosesType
<1> QED
  BY <1>1, <1>2, <1>3 DEF Startup, metrics, DaemonInv, DaemonTypeOK

\* Every step keeps it.
LEMMA DaemonInvStep ==
  ASSUME TypeOK, DaemonInv, [DaemonNext]_daemonVars
  PROVE  DaemonInv'
<1>0. MostCloses \in Nat /\ MetricsTypeOK
  BY MostClosesType DEF DaemonInv, DaemonTypeOK, MetricsTypeOK
<1>1. CASE Startup
  BY <1>1, StartupInv
<1>2. CASE Poll
  <2>1. MetricsTypeOK'
    BY <1>0, <1>2, PollMetricsType
  <2>2. slept' = 0 /\ UNCHANGED <<phase, config, setup, landed>>
    BY <1>2 DEF Poll, startup
  <2> QED
    BY <1>0, <2>1, <2>2 DEF DaemonInv, DaemonTypeOK, MetricsTypeOK, MostCloses
<1>3. CASE Relaunch
  <2>1. 1 \in Watches /\ MostCloses' \in Nat
    <3>1. config' \in ConfigFiles \cup {NoSettings}
      BY <1>3 DEF Relaunch
    <3> QED
      BY <3>1, KeeperAssumption, MostClosesType DEF Watches
  <2> QED
    BY <1>3, <2>1, FreshMetricsType DEF Relaunch, DaemonInv, DaemonTypeOK
<1>4. CASE Tick
  <2>1. slept' \in 0 .. MostCloses /\ (~Asleep => slept' = 0)
    BY <1>0, <1>4 DEF Tick, DaemonInv, DaemonTypeOK
  <2>2. UNCHANGED <<startup, metrics, polled, landed, pc>>
    BY <1>4 DEF Tick, pollVars
  <2> QED
    BY <2>1, <2>2 DEF startup, metrics, DaemonInv, DaemonTypeOK, Asleep, MostCloses
<1>5. CASE Land
  BY <1>5 DEF Land, ApplyExtension, startup, metrics, DaemonInv, DaemonTypeOK,
              Asleep, MostCloses
<1>6. CASE Others
  <2>1. UNCHANGED <<startup, slept, metrics, polled, landed, pc>>
    BY <1>6 DEF Others, pollVars, SpendSequence
  <2> QED
    BY <2>1 DEF startup, metrics, DaemonInv, DaemonTypeOK, Asleep, MostCloses
<1>7. CASE UNCHANGED daemonVars
  BY <1>7 DEF daemonVars, vars, pollVars, startup, metrics, DaemonInv,
              DaemonTypeOK, Asleep, MostCloses
<1> QED
  BY <1>1, <1>2, <1>3, <1>4, <1>5, <1>6, <1>7 DEF DaemonNext

\* The sleep clock stays within the interval, the metrics keep their types and
\* build_watch is only called for contracts there are.
THEOREM DaemonTypeCorrect == DaemonSpec => []DaemonInv /\ []DaemonTypeOK
<1>1. DaemonInit => DaemonInv
  BY DaemonInvStarts DEF DaemonInit
<1>2. TypeOK /\ DaemonInv /\ [DaemonNext]_daemonVars => DaemonInv'
  BY DaemonInvStep
<1>3. DaemonInv => DaemonTypeOK
  BY DEF DaemonInv
<1> QED
  BY <1>1, <1>2, <1>3, DaemonIsKeeper, TypeCorrect, PTL DEF DaemonSpec
-----------------------------------------------------------------------------
(* Silence means safety *)

(***************************************************************************)
(* The inductive strengthening of SilenceMeansSafety: of a watch none of   *)
(* whose errors was counted, the last fetch was vouched for by a clean     *)
(* report, or is being served with every batch submitted so far; and the   *)
(* watches before the one in progress have been polled.                    *)
(***************************************************************************)
QuietWatch(w) ==
  /\ polled[w] # Never /\ ~(InBatchLoop /\ w = watch) => covered[w] = polled[w]
  /\ InBatchLoop /\ w = watch =>
       tally.submitted = tally.extended_batches /\ polled[w] = current
  /\ pc = "sleep" \/ (pc # "latest" /\ w < watch) => polled[w] # Never

QuietInv ==
  /\ pc \in {"latest", "sleep"} => watch = 1
  /\ \A w \in Watches : Quiet(w) => QuietWatch(w)

\* A step that stays inside or outside of the batch loop, and passes no watch.
LEMMA QuietKept ==
  ASSUME TypeOK, QuietInv, InBatchLoop' = InBatchLoop,
         pc' = "latest" => pc \in {"latest", "sleep"},
         pc' = "sleep" => pc = "sleep",
         pc = "latest" => pc' \in {"latest", "fetch"},
         UNCHANGED <<watch, polled, covered>>,
         UNCHANGED <<tally, current>> \/ ~InBatchLoop,
         \A w \in Watches : Quiet(w)' => Quiet(w)
  PROVE  QuietInv'
<1>1. watch \in Watches /\ \A w \in Watches : w >= 1
  BY DEF TypeOK, Watches
<1>2. pc' \in {"latest", "sleep"} => watch' = 1
  BY DEF QuietInv
<1>3. ASSUME NEW w \in Watches, Quiet(w)'
      PROVE  QuietWatch(w)'
  <2>1. QuietWatch(w)
    BY <1>3 DEF QuietInv
  <2>2. pc = "latest" => ~(w < watch)
    BY <1>1 DEF QuietInv, Watches
  <2>3. pc = "sleep" => polled[w] # Never
    BY <2>1 DEF QuietWatch
  <2>4. pc = "sleep" /\ w < watch => FALSE
    BY <1>1 DEF QuietInv, Watches
  <2> QED
    BY <2>1, <2>2, <2>3, <2>4 DEF QuietWatch
<1> QED
  BY <1>2, <1>3 DEF QuietInv

\* A step that ends a watch's turn, with a report that vouches for its fetch
\* unless an error was counted.
LEMMA QuietPushed ==
  ASSUME TypeOK, QuietInv, NEW STATE r, PushReport(r),
         pc \in {"fetch", "batches"},
         \A w \in Watches : Quiet(w)' => Quiet(w),
         \A w \in Watches \ {watch} :
           polled'[w] = polled[w] /\ covered'[w] = covered[w],
         \A w \in Watches : w = watch /\ Quiet(w)' =>
           polled'[w] # Never /\ covered'[w] = polled'[w]
  PROVE  QuietInv'
<1>1. NumWatches \in Nat /\ watch \in 1 .. NumWatches
  BY KeeperAssumption DEF TypeOK, Watches
<1>2. \/ watch < NumWatches /\ watch' = watch + 1 /\ pc' = "fetch"
      \/ watch = NumWatches /\ watch' = 1 /\ pc' = "sleep"
  BY <1>1 DEF PushReport
<1>3. ASSUME NEW w \in Watches, Quiet(w)'
      PROVE  QuietWatch(w)'
  <2>1. ~InBatchLoop'
    BY <1>2 DEF InBatchLoop
  <2>2. CASE w = watch
    BY <1>2, <1>3, <2>1, <2>2 DEF QuietWatch
  <2>3. CASE w # watch
    <3>1. QuietWatch(w) /\ polled'[w] = polled[w] /\ covered'[w] = covered[w]
      BY <1>3, <2>3 DEF QuietInv
    <3>2. pc' = "sleep" \/ w < watch' => w < watch
      BY <1>1, <1>2, <2>3 DEF Watches
    <3> QED
      BY <2>1, <2>3, <3>1, <3>2 DEF QuietWatch
  <2> QED
    BY <2>2, <2>3
<1> QED
  BY <1>2, <1>3 DEF QuietInv

\* A fetch: nothing due ends the turn, something due enters the batch loop.
LEMMA QuietFetch ==
  ASSUME TypeOK, DaemonTypeOK, QuietInv, NEW m \in SUBSET WatchKeys[watch],
         FetchEntries(m), RecordFetch(m)
  PROVE  QuietInv'
<1>1. /\ watch \in Watches /\ current \in Nat
      /\ polled' = [polled EXCEPT ![watch] = current]
      /\ polled \in [Watches -> Nat \cup {Never}]
      /\ covered \in [Watches -> Nat \cup {Never}]
  BY DEF TypeOK, DaemonTypeOK, RecordFetch
<1>2. polled'[watch] = current /\ current # Never
      /\ \A w \in Watches \ {watch} : polled'[w] = polled[w]
  BY <1>1 DEF Never
<1>3. \A w \in Watches : Quiet(w)' => Quiet(w)
  <2>1. \A w \in Watches : extensions_total'[w]["error"] = extensions_total[w]["error"]
    BY DEF RecordFetch, DaemonTypeOK, Outcomes
  <2> QED
    BY <2>1 DEF RecordFetch, Quiet
<1> DEFINE seen == WatchKeys[watch] \ m
           t == [NoTally EXCEPT !.checked = Cardinality(seen),
                                !.critical = Cardinality(CriticalEntries(seen))]
<1>4. t.submitted = 0 /\ t.extended_batches = 0
  BY DEF NoTally
<1>5. CASE DueEntries(seen) = {} /\ ReturnReport(t)
  <2> DEFINE r == Report(watch, TRUE, t, 0)
  <2>1. CleanReport(r)
    BY <1>4 DEF CleanReport, Report
  <2>2. PushReport(r) /\ covered' = [covered EXCEPT ![watch] = current]
    BY <1>5, <2>1 DEF ReturnReport
  <2>3. pc = "fetch"
    BY DEF FetchEntries
  <2>4. covered'[watch] = current
        /\ \A w \in Watches \ {watch} : covered'[w] = covered[w]
    BY <1>1, <2>2
  <2> HIDE DEF r
  <2> QED
    BY <1>2, <1>3, <2>2, <2>3, <2>4, QuietPushed
<1>6. CASE ~(DueEntries(seen) = {} /\ ReturnReport(t))
  <2>1. /\ pc = "fetch" /\ pc' = "batches" /\ tally' = t
        /\ UNCHANGED <<current, watch, covered>>
    BY <1>6 DEF FetchEntries
  <2>2. ASSUME NEW w \in Watches, Quiet(w)'
        PROVE  QuietWatch(w)'
    <3>1. QuietWatch(w)
      BY <1>3, <2>2 DEF QuietInv
    <3>2. ~InBatchLoop /\ InBatchLoop'
      BY <2>1 DEF InBatchLoop
    <3> HIDE DEF t
    <3>3. CASE w = watch
      BY <1>1, <1>2, <1>4, <2>1, <3>2, <3>3 DEF QuietWatch, Watches
    <3>4. CASE w # watch
      BY <1>2, <2>1, <3>1, <3>2, <3>4 DEF QuietWatch
    <3> QED
      BY <3>3, <3>4
  <2> QED
    BY <2>1, <2>2 DEF QuietInv
<1> QED
  BY <1>5, <1>6

\* The return from the batch loop.
LEMMA QuietFinish ==
  ASSUME TypeOK, DaemonTypeOK, QuietInv, FinishWatch, UNCHANGED <<metrics, polled>>
  PROVE  QuietInv'
<1>1. /\ watch \in Watches /\ current \in Nat /\ pc = "batches"
      /\ covered \in [Watches -> Nat \cup {Never}]
  BY DEF TypeOK, FinishWatch
<1> DEFINE r == Report(watch, TRUE, tally, 0)
<1>2. PushReport(r)
  BY DEF FinishWatch, ReturnReport
<1>3. \A w \in Watches : Quiet(w)' => Quiet(w)
  BY DEF metrics, Quiet
<1>4. \A w \in Watches \ {watch} : covered'[w] = covered[w]
  BY <1>1 DEF FinishWatch, ReturnReport
<1>5. ASSUME NEW w \in Watches, w = watch, Quiet(w)'
      PROVE  polled'[w] # Never /\ covered'[w] = polled'[w]
  <2>1. QuietWatch(w) /\ InBatchLoop
    BY <1>1, <1>3, <1>5 DEF QuietInv, InBatchLoop
  <2>2. CleanReport(r)
    BY <1>5, <2>1 DEF QuietWatch, CleanReport, Report
  <2>3. covered' = [covered EXCEPT ![watch] = current]
    BY <2>2 DEF FinishWatch, ReturnReport
  <2> QED
    BY <1>1, <1>5, <2>1, <2>3 DEF QuietWatch, Never
<1> HIDE DEF r
<1> QED
  BY <1>1, <1>2, <1>3, <1>4, <1>5, QuietPushed

\* A failed attempt of a batch: retried, or counted against the watch.
LEMMA QuietBatchFailure ==
  ASSUME TypeOK, DaemonTypeOK, QuietInv, NEW e \in Errors,
         pc \in {"prepare", "send", "wait"}, ExtensionFails(e), CountFailure(e),
         UNCHANGED <<current, watch, covered>>
  PROVE  QuietInv'
<1>1. watch \in Watches
  BY DEF TypeOK
<1>2. CASE Retry(e, "prepare") /\ UNCHANGED tally
  <2>1. pc' = "prepare" /\ UNCHANGED <<metrics, polled>>
    BY <1>2 DEF Retry, CountFailure
  <2>2. InBatchLoop /\ InBatchLoop'
    BY <2>1 DEF InBatchLoop
  <2>3. \A w \in Watches : Quiet(w)' => Quiet(w)
    BY <2>1 DEF metrics, Quiet
  <2> QED
    BY <1>2, <2>1, <2>2, <2>3, QuietKept
<1>3. CASE GivesUp(e) /\ CountBatch(0)
  <2>1. CountExtension("error") /\ pc' = "batches"
    BY <1>3 DEF CountFailure, CountBatch
  <2>2. ~ \E w \in Watches : w = watch /\ Quiet(w)'
    BY <1>1, <2>1 DEF CountExtension, Quiet, DaemonTypeOK, Outcomes
  <2>3. \A w \in Watches : Quiet(w)' => Quiet(w)
    BY <1>1, <2>1, <2>2 DEF CountExtension, Quiet, DaemonTypeOK, Outcomes
  <2>4. ASSUME NEW w \in Watches, Quiet(w)'
        PROVE  QuietWatch(w)'
    <3>1. w # watch /\ QuietWatch(w)
      BY <2>2, <2>3, <2>4 DEF QuietInv
    <3>2. UNCHANGED polled
      BY <2>1 DEF CountExtension
    <3> QED
      BY <2>1, <3>1, <3>2 DEF QuietWatch
  <2> QED
    BY <2>1, <2>4 DEF QuietInv
<1> QED
  BY <1>2, <1>3 DEF ExtensionFails

\* A failed read: retried, or counted against the poll or the watch.
LEMMA QuietReadFailure ==
  ASSUME TypeOK, DaemonTypeOK, QuietInv, NEW e \in Errors,
         \/ LatestLedgerFails(e) /\ CountPollError(e, 0)
         \/ FetchFails(e) /\ CountPollError(e, watch)
  PROVE  QuietInv'
<1>1. /\ watch \in Watches /\ poll_errors \in [Watches \cup {0} -> Nat]
      /\ \A w \in Watches : w # 0
  BY DEF TypeOK, DaemonTypeOK, Watches
<1>2. /\ UNCHANGED <<extensions_total, polled, covered>>
      /\ \A l \in Watches \cup {0} : poll_errors'[l] = 0 => poll_errors[l] = 0
  <2>1. ASSUME NEW STATE label, label \in Watches \cup {0}, CountPollError(e, label),
               NEW l \in Watches \cup {0}, poll_errors'[l] = 0
        PROVE  poll_errors[l] = 0
    BY <1>1, <2>1 DEF CountPollError
  <2>2. \E l \in {0, watch} : CountPollError(e, l)
    OBVIOUS
  <2>3. UNCHANGED <<extensions_total, polled>>
    BY <2>2 DEF CountPollError
  <2>4. UNCHANGED covered
    BY DEF LatestLedgerFails, FetchFails
  <2> QED
    BY <1>1, <2>1, <2>3, <2>4
<1>3. \A w \in Watches : Quiet(w)' => Quiet(w)
  BY <1>2 DEF Quiet
<1>4. CASE pc' = pc /\ UNCHANGED <<watch, current, tally>>
  BY <1>2, <1>3, <1>4, QuietKept DEF InBatchLoop
<1>5. CASE LatestLedgerFails(e) /\ CountPollError(e, 0) /\ GivesUp(e)
  <2>1. poll_errors'[0] # 0
    BY <1>1, <1>5 DEF CountPollError
  <2>2. pc = "latest" /\ pc' = "sleep" /\ watch' = watch
    BY <1>5 DEF LatestLedgerFails, Retry
  <2> QED
    BY <2>1, <2>2 DEF QuietInv, Quiet
<1>6. CASE FetchFails(e) /\ CountPollError(e, watch) /\ GivesUp(e)
  <2>1. poll_errors'[watch] # 0
    BY <1>1, <1>6 DEF CountPollError
  <2>2. pc = "fetch" /\ PushReport(Report(watch, FALSE, NoTally, attempt + 1))
    BY <1>6 DEF FetchFails, Retry
  <2>3. \A w \in Watches : w = watch => ~Quiet(w)'
    BY <2>1 DEF Quiet
  <2> QED
    BY <1>2, <1>3, <2>2, <2>3, QuietPushed
<1> QED
  BY <1>4, <1>5, <1>6 DEF LatestLedgerFails, FetchFails, Retry

\* The steps that write no metric.
LEMMA QuietSilent ==
  ASSUME TypeOK, DaemonTypeOK, QuietInv, SilentStep
  PROVE  QuietInv'
<1>1. UNCHANGED <<metrics, polled>>
  BY DEF SilentStep
<1>2. \A w \in Watches : Quiet(w)' => Quiet(w)
  BY <1>1 DEF metrics, Quiet
<1>3. CASE StartPoll
  BY <1>1, <1>2, <1>3, QuietKept DEF StartPoll, InBatchLoop
<1>4. CASE \E r \in Readings : LatestLedger(r)
  BY <1>1, <1>2, <1>4, QuietKept DEF LatestLedger, InBatchLoop
<1>5. CASE (\E r \in Readings : PrepareExtension(r)) \/ SendTransaction
  BY <1>1, <1>2, <1>5, QuietKept DEF PrepareExtension, SendTransaction, InBatchLoop
<1>6. CASE \E b \in SUBSET due : TakeBatch(b)
  BY <1>1, <1>2, <1>6, QuietKept DEF TakeBatch, InBatchLoop
<1>7. CASE FinishWatch
  BY <1>1, <1>7, QuietFinish
<1> QED
  BY <1>3, <1>4, <1>5, <1>6, <1>7 DEF SilentStep

\* A batch submitted.
LEMMA QuietSuccess ==
  ASSUME TypeOK, DaemonTypeOK, QuietInv, ExtensionSucceeds,
         CountExtension("submitted")
  PROVE  QuietInv'
<1>1. /\ watch \in Watches /\ tally.submitted \in Nat /\ tally.extended_batches \in Nat
      /\ tally \in TallyType
  BY DEF TypeOK, TallyType
<1>2. /\ pc = "wait" /\ pc' = "batches"
      /\ UNCHANGED <<watch, current, covered, polled>>
      /\ tally' = [tally EXCEPT !.extended_batches = @ + 1, !.submitted = @ + 1]
  BY DEF ExtensionSucceeds, CountBatch, CountExtension
<1>3. \A w \in Watches : Quiet(w)' => Quiet(w)
  BY <1>1 DEF CountExtension, Quiet, DaemonTypeOK, Outcomes
<1>4. tally.submitted = tally.extended_batches =>
        tally'.submitted = tally'.extended_batches
  BY <1>1, <1>2 DEF TallyType
<1>5. InBatchLoop /\ InBatchLoop'
  BY <1>2 DEF InBatchLoop
<1>6. ASSUME NEW w \in Watches, Quiet(w)'
      PROVE  QuietWatch(w)'
  <2>1. QuietWatch(w)
    BY <1>3, <1>6 DEF QuietInv
  <2> QED
    BY <1>2, <1>4, <1>5, <2>1 DEF QuietWatch
<1> QED
  BY <1>2, <1>6 DEF QuietInv

\* Every step of the process keeps it.
LEMMA QuietStep ==
  ASSUME TypeOK, DaemonTypeOK, QuietInv, [DaemonNext]_daemonVars
  PROVE  QuietInv'
<1>1. CASE Poll
  <2>1. ASSUME NEW e \in Errors, CountFailure(e),
               PrepareFails(e) \/ SendFails(e) \/ WaitFails(e)
        PROVE  QuietInv'
    BY <2>1, QuietBatchFailure DEF PrepareFails, SendFails, WaitFails
  <2> QED
    BY <1>1, <2>1, QuietSilent, QuietFetch, QuietSuccess, QuietReadFailure DEF Poll
<1>2. CASE Relaunch
  <2>1. /\ pc' = "latest" /\ watch' = 1
        /\ \A w \in Watches : polled'[w] = Never
    BY <1>2 DEF Relaunch, Restart, NoPolls
  <2> QED
    BY <2>1 DEF QuietInv, QuietWatch, InBatchLoop
<1>3. CASE UNCHANGED <<pc, watch, current, tally, covered, polled, metrics>>
  <2>1. \A w \in Watches : Quiet(w)' => Quiet(w)
    BY <1>3 DEF metrics, Quiet
  <2> QED
    BY <1>3, <2>1, QuietKept DEF InBatchLoop
<1>4. Startup \/ UNCHANGED daemonVars =>
        UNCHANGED <<pc, watch, current, tally, covered, polled, metrics>>
  BY DEF Startup, daemonVars, vars, pollVars
<1>5. Tick \/ Land \/ Others =>
        Network /\ UNCHANGED <<metrics, polled>>
  BY DEF Tick, Land, Others, Network
<1> QED
  BY <1>1, <1>2, <1>3, <1>4, <1>5, NetworkEffect DEF DaemonNext

(***************************************************************************)
(* Silence means safety, for all watches, policies and configurations:     *)
(* while none of a watch's error counters has moved, its entries outlive   *)
(* the threshold from its last poll, or were archived before it could      *)
(* extend them (keeper.rs poll_once, poll_watch and metrics.rs).           *)
(***************************************************************************)
THEOREM SilenceIsSafe == DaemonSpec => []SilenceMeansSafety
<1>1. DaemonInit => QuietInv
  <2> SUFFICES ASSUME DaemonInit PROVE QuietInv
    OBVIOUS
  <2>1. pc = "latest" /\ watch = 1 /\ \A w \in Watches : polled[w] = Never
    BY DEF DaemonInit, Init, Launched, NoPolls
  <2> QED
    BY <2>1 DEF QuietInv, QuietWatch, InBatchLoop
<1>2. TypeOK /\ DaemonTypeOK /\ QuietInv /\ [DaemonNext]_daemonVars => QuietInv'
  BY QuietStep
<1>3. QuietInv /\ CleanReportsProtect => SilenceMeansSafety
  BY DEF QuietInv, QuietWatch, CleanReportsProtect, SilenceMeansSafety, Asleep,
         InBatchLoop
<1> QED
  BY <1>1, <1>2, <1>3, DaemonTypeCorrect, DaemonIsKeeper, TypeCorrect,
     CleanReportsCanBeTrusted, PTL DEF DaemonSpec
-----------------------------------------------------------------------------
(* What the gauges say *)

\* Whatever the step, TTLs only grow, and stay once the entry is archived.
LEMMA DaemonGrows ==
  ASSUME TypeOK, [DaemonNext]_daemonVars
  PROVE  LiveOnlyGrows
<1>1. ledger \in Nat /\ live \in [Keys -> Nat]
  BY LedgerAssumption DEF TypeOK, LedgerTypeOK
<1>2. [Next]_vars
  BY DaemonStep DEF daemonVars
<1>3. CASE Network
  BY <1>3, NetworkEffect
<1>4. CASE UNCHANGED <<ledger, live>>
  BY <1>1, <1>4 DEF LiveOnlyGrows
<1>5. Keeper => UNCHANGED <<ledger, live>>
  BY CoveredByReports
<1>6. Restart \/ UNCHANGED vars => UNCHANGED <<ledger, live>>
  BY DEF Restart, vars, ledgerVars
<1> QED
  BY <1>2, <1>3, <1>4, <1>5, <1>6 DEF Next

(***************************************************************************)
(* The inductive strengthening of CompleteGaugesAreHonest and              *)
(* NoExpiryAsleep: a gauge was written by a poll, tells how long the entry *)
(* lives from it if the entry is not archived, and also if it is when      *)
(* entries_watched counts all; and what runs has a valid configuration.    *)
(***************************************************************************)
GaugeHolds(w, k) ==
  /\ polled[w] = Never => ttl_ledgers[w][k] = NoSample
  /\ polled[w] # Never /\ ttl_ledgers[w][k] > 0 =>
       \/ live[k] >= polled[w] + ttl_ledgers[w][k]
       \/ Archived(k) /\ entries_watched[w] # Cardinality(WatchKeys[w])

GaugeInv ==
  /\ \A w \in Watches : \A k \in WatchKeys[w] : GaugeHolds(w, k)
  /\ phase \in {"connect", "balance", "watches", "running"} => Valid(config)

\* Gauges nobody writes go on holding.
LEMMA GaugeKept ==
  ASSUME TypeOK, TypeOK', DaemonTypeOK, LiveOnlyGrows,
         NEW w \in Watches, NEW k \in WatchKeys[w], GaugeHolds(w, k),
         polled'[w] = polled[w], ttl_ledgers'[w][k] = ttl_ledgers[w][k],
         entries_watched'[w] = entries_watched[w]
  PROVE  GaugeHolds(w, k)'
<1>1. /\ k \in Keys /\ live[k] \in Nat /\ live'[k] \in Nat
      /\ ledger \in Nat /\ ledger' \in Nat
      /\ polled[w] \in Nat \cup {Never}
      /\ ttl_ledgers[w][k] \in Nat \cup {NoSample}
  <2>1. k \in Keys
    BY WatchKeysAreKeys
  <2>2. live[k] \in Nat /\ live'[k] \in Nat /\ ledger \in Nat /\ ledger' \in Nat
    BY <2>1, LedgerAssumption DEF TypeOK, LedgerTypeOK
  <2> QED
    BY <2>1, <2>2 DEF DaemonTypeOK
<1> QED
  BY <1>1 DEF GaugeHolds, LiveOnlyGrows, Archived, Never, NoSample

\* Nothing is missing when as many entries are seen as there are keys.
LEMMA AllSeen ==
  ASSUME NEW S \in SUBSET Keys, NEW m \in SUBSET S,
         Cardinality(S \ m) = Cardinality(S)
  PROVE  m = {}
<1>1. IsFiniteSet(S)
  BY LedgerAssumption, FS_Subset
<1>2. S \ m = S
  BY <1>1, FS_Subset
<1> QED
  BY <1>2

\* The gauges a fetch writes hold.
LEMMA GaugeWritten ==
  ASSUME TypeOK, TypeOK', DaemonTypeOK, GaugeInv, LiveOnlyGrows,
         NEW m \in SUBSET WatchKeys[watch], FetchEntries(m), RecordFetch(m),
         NEW k \in WatchKeys[watch], NEW w \in Watches, w = watch
  PROVE  GaugeHolds(w, k)'
<1>1. /\ WatchKeys[watch] \in SUBSET Keys /\ k \in Keys
      /\ current \in Nat /\ live[k] \in Nat /\ ledger \in Nat
      /\ polled \in [Watches -> Nat \cup {Never}]
      /\ ttl_ledgers \in [Watches -> [Keys -> Nat \cup {NoSample}]]
      /\ entries_watched \in [Watches -> Nat \cup {NoSample}]
  <2>1. watch \in Watches /\ current \in Nat
    BY DEF TypeOK
  <2>2. WatchKeys[watch] \in SUBSET Keys /\ k \in Keys
    BY <2>1, WatchKeysAreKeys
  <2>3. live[k] \in Nat /\ ledger \in Nat
    BY <2>2, LedgerAssumption DEF TypeOK, LedgerTypeOK
  <2> QED
    BY <2>1, <2>2, <2>3 DEF DaemonTypeOK
<1>2. UNCHANGED <<ledger, live>> /\ (k \in m => Archived(k))
  BY DEF FetchEntries, ledgerVars
<1>3. /\ polled'[watch] = current
      /\ entries_watched'[watch] = Cardinality(WatchKeys[watch] \ m)
      /\ ttl_ledgers'[watch][k] = IF k \in WatchKeys[watch] \ m
                                    THEN TtlRemaining(live[k], current)
                                    ELSE ttl_ledgers[watch][k]
  BY <1>1 DEF RecordFetch, EntriesWatched
<1>4. k \in m => entries_watched'[watch] # Cardinality(WatchKeys[watch])
  BY <1>1, <1>3, AllSeen
<1>5. k \notin m /\ ttl_ledgers'[watch][k] > 0 =>
        live[k] >= current + ttl_ledgers'[watch][k]
  BY <1>1, <1>3 DEF TtlRemaining, SatSub
<1> QED
  BY <1>1, <1>2, <1>3, <1>4, <1>5 DEF GaugeHolds, Archived, Never

\* Every step of the process keeps it.
LEMMA GaugeStep ==
  ASSUME TypeOK, TypeOK', DaemonTypeOK, GaugeInv, [DaemonNext]_daemonVars
  PROVE  GaugeInv'
<1>0. LiveOnlyGrows
  BY DaemonGrows
<1>1. \A w \in Watches : \A k \in WatchKeys[w] : GaugeHolds(w, k)'
  <2>1. CASE UNCHANGED <<polled, ttl_ledgers, entries_watched>>
    BY <1>0, <2>1, GaugeKept DEF GaugeInv
  <2>2. ASSUME NEW m \in SUBSET WatchKeys[watch], FetchEntries(m), RecordFetch(m),
               NEW w \in Watches, NEW k \in WatchKeys[w]
        PROVE  GaugeHolds(w, k)'
    <3>1. CASE w = watch
      BY <1>0, <2>2, <3>1, GaugeWritten
    <3>2. CASE w # watch
      <4>1. /\ polled'[w] = polled[w] /\ ttl_ledgers'[w][k] = ttl_ledgers[w][k]
            /\ entries_watched'[w] = entries_watched[w]
        BY <2>2, <3>2 DEF RecordFetch, DaemonTypeOK
      <4> QED
        BY <1>0, <2>2, <4>1, GaugeKept DEF GaugeInv
    <3> QED
      BY <3>1, <3>2
  <2>3. CASE Relaunch
    <3>1. polled' = NoPolls /\ ttl_ledgers' = NoTtls
      BY <2>3 DEF Relaunch
    <3>2. \A w \in Watches : \A k \in WatchKeys[w] :
            polled'[w] = Never /\ ttl_ledgers'[w][k] = NoSample
      BY <3>1, WatchKeysAreKeys DEF NoPolls, NoTtls
    <3> QED
      BY <3>2 DEF GaugeHolds
  <2>4. CASE Poll
    <3>1. UNCHANGED <<polled, ttl_ledgers, entries_watched>>
          \/ \E m \in SUBSET WatchKeys[watch] : FetchEntries(m) /\ RecordFetch(m)
      BY <2>4 DEF Poll, SilentStep, CountExtension, CountPollError, CountFailure, metrics
    <3> QED
      BY <2>1, <2>2, <3>1
  <2>5. Startup \/ Tick \/ Land \/ Others \/ UNCHANGED daemonVars =>
          UNCHANGED <<polled, ttl_ledgers, entries_watched>>
    BY DEF Startup, Tick, Land, Others, daemonVars, metrics
  <2> QED
    BY <2>1, <2>3, <2>4, <2>5 DEF DaemonNext
<1>2. phase' \in {"connect", "balance", "watches", "running"} => Valid(config)'
  <2>1. CASE Startup
    BY <2>1 DEF Startup, LoadConfig, VerifyNetwork, CheckBalance, BuildWatch,
                StartupFails, GaugeInv, Valid
  <2>2. CASE Relaunch
    BY <2>2 DEF Relaunch
  <2>3. CASE UNCHANGED <<phase, config>>
    BY <2>3 DEF GaugeInv, Valid
  <2>4. Poll \/ Tick \/ Land \/ Others \/ UNCHANGED daemonVars =>
          UNCHANGED <<phase, config>>
    BY DEF Poll, Tick, Land, Others, daemonVars, startup
  <2> QED
    BY <2>1, <2>2, <2>3, <2>4 DEF DaemonNext
<1> QED
  BY <1>1, <1>2 DEF GaugeInv

\* The gauges hold in every state, and what runs has a valid configuration.
THEOREM GaugesHold == DaemonSpec => []GaugeInv
<1>1. DaemonInit => GaugeInv
  <2> SUFFICES ASSUME DaemonInit PROVE GaugeInv
    OBVIOUS
  <2>1. polled = NoPolls /\ ttl_ledgers = NoTtls /\ phase = "load"
    BY DEF DaemonInit, Launched
  <2>2. \A w \in Watches : \A k \in WatchKeys[w] :
          polled[w] = Never /\ ttl_ledgers[w][k] = NoSample
    BY <2>1, WatchKeysAreKeys DEF NoPolls, NoTtls
  <2> QED
    BY <2>1, <2>2 DEF GaugeInv, GaugeHolds
<1>2. TypeOK /\ TypeOK' /\ DaemonTypeOK /\ GaugeInv /\ [DaemonNext]_daemonVars
        => GaugeInv'
  BY GaugeStep
<1> QED
  BY <1>1, <1>2, DaemonTypeCorrect, DaemonIsKeeper, TypeCorrect, PTL DEF DaemonSpec

(***************************************************************************)
(* While entries_watched counts every key of a watch, its TTL gauges can   *)
(* be believed, for all watches and policies and however stale a reading   *)
(* was (keeper.rs poll_watch, metrics.rs).                                 *)
(***************************************************************************)
THEOREM GaugesAreHonest == DaemonSpec => []CompleteGaugesAreHonest
<1>1. GaugeInv => CompleteGaugesAreHonest
  BY DEF GaugeInv, GaugeHolds, CompleteGaugesAreHonest
<1> QED
  BY <1>1, GaugesHold, PTL

(***************************************************************************)
(* The check of the thresholds does what it is for, for all configurations *)
(* it accepts: an entry that expires while the keeper sleeps was due at    *)
(* the poll before, if that poll was prompt (config.rs validate).          *)
(***************************************************************************)
THEOREM SleepIsSafe == DaemonSpec => NoExpiryAsleep
<1>1. ASSUME TypeOK, TypeOK', DaemonInv, GaugeInv, [DaemonNext]_daemonVars,
             Asleep, ~config.allow_short_threshold,
             NEW w \in Watches, PromptPoll(w),
             NEW k \in WatchKeys[w], ~Archived(k), Archived(k)'
      PROVE  ttl_ledgers[w][k] <= Threshold[w]
  <2>1. /\ k \in Keys /\ live[k] \in Nat /\ live'[k] \in Nat
        /\ ledger \in Nat /\ ledger' \in Nat /\ slept \in Nat
        /\ polled[w] \in Nat \cup {Never}
        /\ ttl_ledgers[w][k] \in Nat \cup {NoSample}
        /\ Threshold[w] \in Nat /\ config.poll_interval_secs \in Nat
    <3>1. k \in Keys
      BY WatchKeysAreKeys
    <3>2. /\ live[k] \in Nat /\ live'[k] \in Nat
          /\ ledger \in Nat /\ ledger' \in Nat
      BY <1>1, <3>1, LedgerAssumption DEF TypeOK, LedgerTypeOK
    <3>3. MostCloses \in Nat /\ config.poll_interval_secs \in Nat
      BY <1>1, IntervalType, MostClosesType DEF DaemonInv, DaemonTypeOK
    <3>4. slept \in Nat
      BY <1>1, <3>3 DEF DaemonInv, DaemonTypeOK
    <3> QED
      BY <1>1, <3>1, <3>2, <3>3, <3>4, KeeperAssumption DEF DaemonInv, DaemonTypeOK
  <2>2. Threshold[w] >= config.poll_interval_secs \div 5
    BY <1>1, <2>1 DEF GaugeInv, Asleep, Valid, LedgersPerPoll
  <2>3. GaugeHolds(w, k)
    BY <1>1 DEF GaugeInv
  <2>4. ledger' > ledger
    BY <1>1, <2>1, DaemonGrows DEF LiveOnlyGrows, Archived
  <2>5. Tick
    <3>1. Startup \/ Poll \/ Relaunch \/ Land \/ Others \/ UNCHANGED daemonVars =>
            ledger' = ledger
      <4>1. Poll => Keeper
        BY DEF Poll, SilentStep, Keeper
      <4>2. Keeper => ledger' = ledger
        BY <1>1, CoveredByReports
      <4> QED
        BY <4>1, <4>2 DEF Startup, Relaunch, Restart, Land, ApplyExtension, Apply,
           Others, ContractBump, Forget, SpendSequence, ForeignTransaction,
           daemonVars, vars, ledgerVars
    <3> QED
      BY <1>1, <2>1, <2>4, <3>1 DEF DaemonNext
  <2>6. slept < MostCloses /\ ledger' = ledger + 1 /\ live' = live
    BY <1>1, <2>5 DEF Tick, CloseLedger
  <2>7. live[k] = ledger
    BY <1>1, <2>1, <2>6 DEF Archived
  <2>8. slept <= config.poll_interval_secs \div 5
    <3>1. MostCloses <= config.poll_interval_secs \div 5 + 1
      BY <2>1 DEF MostCloses
    <3> QED
      BY <2>1, <2>6, <3>1 DEF MostCloses
  <2>9. CASE polled[w] = Never \/ ~(ttl_ledgers[w][k] > 0)
    BY <2>1, <2>3, <2>9 DEF GaugeHolds, NoSample
  <2>10. CASE polled[w] # Never /\ ttl_ledgers[w][k] > 0
    <3>1. live[k] >= polled[w] + ttl_ledgers[w][k]
      BY <1>1, <2>3, <2>10 DEF GaugeHolds
    <3>2. ledger - slept <= polled[w]
      BY <1>1 DEF PromptPoll
    <3>3. ttl_ledgers[w][k] <= slept
      BY <2>1, <2>7, <2>10, <3>1, <3>2 DEF NoSample, Never
    <3> QED
      BY <2>1, <2>2, <2>8, <2>10, <3>3 DEF NoSample
  <2> QED
    BY <2>9, <2>10
<1>2. TypeOK /\ TypeOK' /\ DaemonInv /\ GaugeInv /\ [DaemonNext]_daemonVars =>
        [Asleep /\ ~config.allow_short_threshold =>
           \A w \in Watches : PromptPoll(w) =>
             \A k \in WatchKeys[w] : ~Archived(k) /\ Archived(k)' =>
               ttl_ledgers[w][k] <= Threshold[w]]_daemonVars
  BY <1>1
<1> QED
  BY <1>2, GaugesHold, DaemonTypeCorrect, DaemonIsKeeper, TypeCorrect, PTL
  DEF DaemonSpec, NoExpiryAsleep
-----------------------------------------------------------------------------
(* What the extension counter says *)

\* An extension the network applied and the keeper has yet to find out about.
Unreported == IF applied THEN 1 ELSE 0

\* Every extension reported and the one to be reported were applied.
LandedInv == Submissions + Unreported <= landed

\* The counters whose sum Submissions is.
SubmittedOf(e) == [w \in Watches |-> e[w]["submitted"]]

\* Submissions of extension counters: a number.
LEMMA SubmissionsFacts ==
  ASSUME DaemonTypeOK
  PROVE  /\ Submissions = SumFunctionOnSet(SubmittedOf(extensions_total), Watches)
         /\ Submissions \in Nat /\ IsFiniteSet(Watches)
         /\ \A w \in Watches : SubmittedOf(extensions_total)[w] \in Nat
<1>1. IsFiniteSet(Watches)
  BY KeeperAssumption, FS_Interval DEF Watches
<1>2. \A w \in Watches : SubmittedOf(extensions_total)[w] \in Nat
  BY DEF SubmittedOf, DaemonTypeOK, Outcomes
<1>3. Submissions = SumFunctionOnSet(SubmittedOf(extensions_total), Watches)
  BY DEF Submissions, SubmittedOf
<1> QED
  BY <1>1, <1>2, <1>3, SumType

\* Counting an extension adds one to Submissions if its outcome is submitted.
LEMMA CountedExtension ==
  ASSUME TypeOK, DaemonTypeOK, NEW o \in Outcomes, CountExtension(o)
  PROVE  Submissions' = IF o = "submitted" THEN Submissions + 1 ELSE Submissions
<1> DEFINE n == IF o = "submitted" THEN 1 ELSE 0
<1>1. watch \in Watches /\ n \in Nat
  BY DEF TypeOK
<1>2. extensions_total' = [extensions_total EXCEPT ![watch][o] = @ + 1]
  BY DEF CountExtension
<1>3. /\ SubmittedOf(extensions_total')[watch] =
           SubmittedOf(extensions_total)[watch] + n
      /\ \A w \in Watches \ {watch} :
           SubmittedOf(extensions_total')[w] = SubmittedOf(extensions_total)[w]
  BY <1>1, <1>2 DEF SubmittedOf, DaemonTypeOK, Outcomes
<1> HIDE DEF n
<1>4. SumFunctionOnSet(SubmittedOf(extensions_total'), Watches) =
        SumFunctionOnSet(SubmittedOf(extensions_total), Watches) + n
  BY <1>1, <1>3, SubmissionsFacts, SumDiffers
<1>5. Submissions' = Submissions + n
  BY <1>4, SubmissionsFacts DEF Submissions, SubmittedOf
<1> QED
  BY <1>5, SubmissionsFacts DEF n

\* Submissions depends on nothing but the submitted counters.
LEMMA SubmissionsStay ==
  ASSUME DaemonTypeOK,
         \A w \in Watches :
           extensions_total'[w]["submitted"] = extensions_total[w]["submitted"]
  PROVE  Submissions' = Submissions
<1>1. \A w \in Watches : SubmittedOf(extensions_total')[w] =
                           SubmittedOf(extensions_total)[w]
  BY DEF SubmittedOf
<1>2. SumFunctionOnSet(SubmittedOf(extensions_total'), Watches) =
        SumFunctionOnSet(SubmittedOf(extensions_total), Watches)
  BY <1>1, SubmissionsFacts, SumAgree
<1> QED
  BY <1>2 DEF Submissions, SubmittedOf

\* The counters of a process that was just started add up to nothing.
LEMMA NoneSubmitted ==
  SumFunctionOnSet(SubmittedOf(NoExtensions), Watches) = 0
<1>1. \A w \in Watches : SubmittedOf(NoExtensions)[w] = 0
  BY DEF SubmittedOf, NoExtensions, Outcomes
<1>2. IsFiniteSet(Watches)
  BY KeeperAssumption, FS_Interval DEF Watches
<1> QED
  BY <1>1, <1>2, SumOfZeros

\* Every step of the process keeps it.
LEMMA LandedStep ==
  ASSUME TypeOK, DaemonTypeOK, DaemonTypeOK', LandedInv, [DaemonNext]_daemonVars
  PROVE  LandedInv'
<1>0. Submissions \in Nat /\ landed \in Nat /\ applied \in BOOLEAN
  BY SubmissionsFacts DEF DaemonTypeOK, TypeOK
<1>1. ASSUME Submissions' = Submissions, applied' => applied, landed' = landed
      PROVE  LandedInv'
  BY <1>0, <1>1 DEF LandedInv, Unreported
<1>2. CASE Poll
  <2>1. landed' = landed
    BY <1>2 DEF Poll
  <2>2. CASE ExtensionSucceeds /\ CountExtension("submitted")
    <3>1. applied /\ ~applied'
      BY <2>2 DEF ExtensionSucceeds, CountBatch, ForgetBatch
    <3>2. Submissions' = Submissions + 1
      BY <2>2, CountedExtension DEF Outcomes
    <3> QED
      BY <1>0, <2>1, <3>1, <3>2 DEF LandedInv, Unreported
  <2>3. CASE \E m \in SUBSET WatchKeys[watch] : FetchEntries(m) /\ RecordFetch(m)
    <3>1. \A w \in Watches : extensions_total'[w]["submitted"] =
                               extensions_total[w]["submitted"]
      BY <2>3 DEF RecordFetch, DaemonTypeOK, TypeOK, Outcomes
    <3>2. applied' => applied
      BY <2>3 DEF FetchEntries, ReturnReport, PushReport, ForgetBatch
    <3> QED
      BY <1>1, <2>1, <3>1, <3>2, SubmissionsStay
  <2>4. CASE SilentStep
    <3>1. applied' => applied
      BY <2>4 DEF SilentStep, StartPoll, LatestLedger, PrepareExtension, TakeBatch,
                  FinishWatch, ReturnReport, PushReport, SendTransaction, ForgetBatch
    <3>2. extensions_total' = extensions_total
      BY <2>4 DEF SilentStep, metrics
    <3> QED
      BY <1>1, <2>1, <3>1, <3>2, SubmissionsStay
  <2>5. CASE \E e \in Errors : \/ LatestLedgerFails(e) /\ CountPollError(e, 0)
                               \/ FetchFails(e) /\ CountPollError(e, watch)
    <3>1. applied' => applied
      BY <2>5 DEF LatestLedgerFails, FetchFails, PushReport, ForgetBatch
    <3>2. extensions_total' = extensions_total
      BY <2>5 DEF CountPollError
    <3> QED
      BY <1>1, <2>1, <3>1, <3>2, SubmissionsStay
  <2>6. ASSUME NEW e \in Errors, CountFailure(e),
               PrepareFails(e) \/ SendFails(e) \/ WaitFails(e)
        PROVE  LandedInv'
    <3>1. applied' => applied
      BY <2>6 DEF PrepareFails, SendFails, WaitFails, ExtensionFails, CountBatch,
                  Retry, ForgetBatch
    <3>2. Submissions' = Submissions
      <4>1. CASE GivesUp(e)
        BY <2>6, <4>1, CountedExtension DEF CountFailure, Outcomes
      <4>2. CASE ~GivesUp(e)
        BY <2>6, <4>2, SubmissionsStay DEF CountFailure, metrics
      <4> QED
        BY <4>1, <4>2
    <3> QED
      BY <1>1, <2>1, <3>1, <3>2
  <2> QED
    BY <1>2, <2>2, <2>3, <2>4, <2>5, <2>6 DEF Poll
<1>3. CASE Relaunch
  <2>1. extensions_total' = NoExtensions /\ landed' = 0 /\ ~applied'
    BY <1>3 DEF Relaunch, Restart, ForgetBatch
  <2>2. Submissions' = 0
    BY <2>1, NoneSubmitted DEF Submissions, SubmittedOf
  <2> QED
    BY <2>1, <2>2 DEF LandedInv, Unreported
<1>4. CASE Land
  <2>1. landed' = landed + 1 /\ extensions_total' = extensions_total
        /\ applied' \in BOOLEAN
    BY <1>0, <1>4 DEF Land, ApplyExtension, metrics
  <2>2. Submissions' = Submissions
    BY <2>1, SubmissionsStay
  <2> QED
    BY <1>0, <2>1, <2>2 DEF LandedInv, Unreported
<1>5. Startup \/ Tick \/ Others \/ UNCHANGED daemonVars =>
        UNCHANGED <<extensions_total, applied, landed>>
  BY DEF Startup, Tick, Others, daemonVars, metrics, vars, pollVars, SpendSequence
<1> QED
  BY <1>1, <1>2, <1>3, <1>4, <1>5, SubmissionsStay DEF DaemonNext

(***************************************************************************)
(* extensions_total{outcome="submitted"} never counts more than the        *)
(* network applied, for all watches, policies, configurations and bounds,  *)
(* and whatever timed out, was retried, or was left in the network's queue *)
(* by an earlier process (keeper.rs extend_batch, stellar.rs, metrics.rs). *)
(***************************************************************************)
THEOREM SubmissionsHaveLanded == DaemonSpec => []SubmittedMeansLanded
<1>1. DaemonInit => LandedInv
  <2> SUFFICES ASSUME DaemonInit PROVE LandedInv
    OBVIOUS
  <2>1. extensions_total = NoExtensions /\ landed = 0 /\ ~applied
    BY DEF DaemonInit, Launched, Init
  <2>2. Submissions = 0
    BY <2>1, NoneSubmitted DEF Submissions, SubmittedOf
  <2> QED
    BY <2>1, <2>2 DEF LandedInv, Unreported
<1>2. TypeOK /\ DaemonTypeOK /\ DaemonTypeOK' /\ LandedInv
        /\ [DaemonNext]_daemonVars => LandedInv'
  BY LandedStep
<1>3. TypeOK /\ DaemonTypeOK /\ LandedInv => SubmittedMeansLanded
  BY SubmissionsFacts DEF LandedInv, Unreported, SubmittedMeansLanded, DaemonTypeOK
<1> QED
  BY <1>1, <1>2, <1>3, DaemonTypeCorrect, DaemonIsKeeper, TypeCorrect, PTL
  DEF DaemonSpec
=============================================================================
