-------------------------- MODULE BatchPlan_proofs --------------------------
(***************************************************************************)
(* Theorems about BatchPlan, for lists of any length and any cap.          *)
(***************************************************************************)
EXTENDS BatchPlan, FiniteSums

\* Saturating sums of 32-bit numbers are 32-bit numbers.
LEMMA SatAddType ==
  ASSUME NEW a \in U32, NEW b \in U32
  PROVE  SatAdd(a, b) \in U32
BY PlanAssumption DEF SatAdd, U32

\* A list of entries is a sequence, and has a number of them.
LEMMA SizesType ==
  ASSUME NEW n \in 0 .. MaxEntries, NEW s \in [1 .. n -> U32]
  PROVE  s \in Seq(U32)
<1>1. n \in Nat
  BY PlanAssumption
<1> QED
  BY <1>1

\* The entry the loop takes next is one of the list, and 0 is a size.
LEMMA EntriesType ==
  ASSUME TypeOK
  PROVE  /\ Len(size) \in Nat /\ Entries = 1 .. Len(size)
         /\ \A e \in Entries : size[e] \in U32
         /\ 0 \in U32
BY PlanAssumption DEF TypeOK, Entries, U32

\* TypeOK is kept by every step.
LEMMA TypeStep == TypeOK /\ [Next]_planVars => TypeOK'
<1> SUFFICES ASSUME TypeOK, [Next]_planVars PROVE TypeOK'
  OBVIOUS
<1> USE EntriesType DEF TypeOK
<1>1. CASE TakeEntry
  <2>1. taken + 1 \in Entries
    BY <1>1 DEF TakeEntry
  <2>2. size' = size /\ Entries' = Entries
    BY <1>1 DEF TakeEntry, Entries
  <2>3. CASE StartBatch(taken + 1)
    BY <1>1, <2>1, <2>2, <2>3, SatAddType DEF TakeEntry, StartBatch
  <2>4. CASE JoinBatch(taken + 1)
    BY <1>1, <2>1, <2>2, <2>4, SatAddType DEF TakeEntry, JoinBatch
  <2> QED
    BY <1>1, <2>3, <2>4 DEF TakeEntry
<1>2. CASE Return
  <2>1. Entries' = Entries
    BY <1>2 DEF Return, Entries
  <2> QED
    BY <1>2, <2>1 DEF Return
<1>3. CASE UNCHANGED planVars
  <2>1. Entries' = Entries
    BY <1>3 DEF planVars, Entries
  <2> QED
    BY <1>3, <2>1 DEF planVars
<1> QED
  BY <1>1, <1>2, <1>3 DEF Next

\* TypeOK holds at the start.
LEMMA TypeInit == Init => TypeOK
<1> SUFFICES ASSUME Init PROVE TypeOK
  OBVIOUS
<1>1. PICK n \in 0 .. MaxEntries : size \in [1 .. n -> U32]
  BY DEF Init
<1>2. size \in Seq(U32)
  BY <1>1, SizesType
<1>3. taken \in 0 .. Len(size)
  BY <1>2 DEF Init
<1>4. batches \in Seq(SUBSET Entries) /\ open \subseteq Entries
  BY DEF Init
<1>5. cap \in U32 /\ openBytes \in U32
  BY PlanAssumption DEF Init, U32
<1>6. returned \in BOOLEAN
  BY DEF Init
<1> QED
  BY <1>2, <1>3, <1>4, <1>5, <1>6 DEF TypeOK

(***************************************************************************)
(* The loop variables keep their types, and the accounted size stays a     *)
(* u32, for lists of any length (risk.rs plan_batches).                    *)
(***************************************************************************)
THEOREM BatchTypeCorrect == Spec => []TypeOK
BY TypeInit, TypeStep, PTL DEF Spec
-----------------------------------------------------------------------------
\* The union of one set more.
LEMMA UnionOneMore ==
  ASSUME NEW F, NEW A, NEW c
  PROVE  UNION {F[b] : b \in A \cup {c}} = (UNION {F[b] : b \in A}) \cup F[c]
OBVIOUS

\* What one more batch adds to the entries of the closed ones.
LEMMA ClosedAppend ==
  ASSUME NEW S, NEW s \in Seq(S), NEW e \in S
  PROVE  LET t == Append(s, e) IN
         UNION {t[b] : b \in 1 .. Len(t)} = (UNION {s[b] : b \in 1 .. Len(s)}) \cup e
<1> DEFINE t == Append(s, e)
<1>1. Len(t) = Len(s) + 1 /\ Len(s) \in Nat
  OBVIOUS
<1>2. \A b \in 1 .. Len(s) : t[b] = s[b]
  OBVIOUS
<1>3. t[Len(s) + 1] = e
  OBVIOUS
<1>4. 1 .. Len(t) = (1 .. Len(s)) \cup {Len(s) + 1}
  BY <1>1
<1>5. UNION {t[b] : b \in 1 .. Len(t)}
        = (UNION {t[b] : b \in 1 .. Len(s)}) \cup t[Len(s) + 1]
  BY <1>4, UnionOneMore
<1>6. {t[b] : b \in 1 .. Len(s)} = {s[b] : b \in 1 .. Len(s)}
  BY <1>2, Zenon
<1> QED
  BY <1>3, <1>5, <1>6

\* Closing the open batch, for a new one or for good, keeps the partition.
LEMMA ClosingKeepsOrder ==
  ASSUME TypeOK, EveryEntryOnce, open # {}, batches' = Append(batches, open)
  PROVE  /\ Closed' = Closed \cup open
         /\ \A b \in 1 .. Len(batches') : batches'[b] # {}
         /\ \A a, b \in 1 .. Len(batches') : a < b =>
              \A x \in batches'[a], y \in batches'[b] : x < y
<1>1. batches \in Seq(SUBSET Entries) /\ open \in SUBSET Entries
  BY DEF TypeOK
<1>2. Closed' = Closed \cup open
  BY <1>1, ClosedAppend DEF Closed
<1>3. Len(batches') = Len(batches) + 1 /\ Len(batches) \in Nat
  BY <1>1
<1>4. \A b \in 1 .. Len(batches) : batches'[b] = batches[b]
  BY <1>1
<1>5. batches'[Len(batches) + 1] = open
  BY <1>1
<1>6. \A b \in 1 .. Len(batches') : batches'[b] # {}
  BY <1>3, <1>4, <1>5 DEF EveryEntryOnce
<1>7. ASSUME NEW a \in 1 .. Len(batches'), NEW b \in 1 .. Len(batches'), a < b,
             NEW x \in batches'[a], NEW y \in batches'[b]
      PROVE  x < y
  <2>1. a \in 1 .. Len(batches) /\ x \in batches[a]
    BY <1>3, <1>4, <1>7
  <2>2. CASE b \in 1 .. Len(batches)
    BY <1>4, <1>7, <2>1, <2>2 DEF EveryEntryOnce
  <2>3. CASE b = Len(batches) + 1
    BY <1>5, <1>7, <2>1, <2>3 DEF EveryEntryOnce, Closed
  <2> QED
    BY <1>3, <2>2, <2>3
<1> QED
  BY <1>2, <1>6, <1>7

\* EveryEntryOnce is kept by every step.
LEMMA OnceStep == TypeOK /\ EveryEntryOnce /\ [Next]_planVars => EveryEntryOnce'
<1> SUFFICES ASSUME TypeOK, EveryEntryOnce, [Next]_planVars
             PROVE  EveryEntryOnce'
  OBVIOUS
<1>0. taken \in Nat /\ Closed \cup open = 1 .. taken
  BY EntriesType DEF TypeOK, EveryEntryOnce
<1>1. CASE TakeEntry
  <2>1. taken' = taken + 1 /\ size' = size /\ returned' = returned /\ ~returned
    BY <1>0, <1>1 DEF TakeEntry, EveryEntryOnce
  <2>2. CASE StartBatch(taken + 1)
    <3>1. open # {} /\ batches' = Append(batches, open) /\ open' = {taken + 1}
      BY <2>2 DEF StartBatch, Overflows
    <3>2. Closed' = 1 .. taken
      BY <1>0, <3>1, ClosingKeepsOrder
    <3>3. Closed' \cup open' = 1 .. taken'
      BY <1>0, <2>1, <3>1, <3>2
    <3>4. \A x \in Closed', y \in open' : x < y
      BY <1>0, <3>1, <3>2
    <3> QED
      BY <2>1, <3>1, <3>3, <3>4, ClosingKeepsOrder DEF EveryEntryOnce
  <2>3. CASE JoinBatch(taken + 1)
    <3>1. batches' = batches /\ open' = open \cup {taken + 1}
      BY <2>3 DEF JoinBatch
    <3>2. Closed' = Closed
      BY <3>1 DEF Closed
    <3>3. Closed' \cup open' = 1 .. taken'
      BY <1>0, <2>1, <3>1, <3>2
    <3>4. \A x \in Closed', y \in open' : x < y
      BY <1>0, <3>1, <3>2 DEF EveryEntryOnce
    <3> QED
      BY <2>1, <3>1, <3>3, <3>4 DEF EveryEntryOnce
  <2> QED
    BY <1>1, <2>2, <2>3 DEF TakeEntry
<1>2. CASE Return
  <2>1. open' = {} /\ taken' = taken /\ size' = size /\ taken = Len(size)
    BY <1>2 DEF Return
  <2>2. CASE open # {}
    <3>1. batches' = Append(batches, open)
      BY <1>2, <2>2 DEF Return
    <3> QED
      BY <1>0, <2>1, <2>2, <3>1, ClosingKeepsOrder DEF EveryEntryOnce
  <2>3. CASE open = {}
    <3>1. batches' = batches
      BY <1>2, <2>3 DEF Return
    <3>2. Closed' = Closed
      BY <3>1 DEF Closed
    <3> QED
      BY <2>1, <2>3, <3>1, <3>2 DEF EveryEntryOnce
  <2> QED
    BY <2>2, <2>3
<1>3. CASE UNCHANGED planVars
  BY <1>3 DEF planVars, EveryEntryOnce, Closed
<1> QED
  BY <1>1, <1>2, <1>3 DEF Next

\* EveryEntryOnce holds at the start.
LEMMA OnceInit == Init => EveryEntryOnce
<1> SUFFICES ASSUME Init PROVE EveryEntryOnce
  OBVIOUS
<1>1. Len(batches) = 0 /\ open = {} /\ taken = 0 /\ ~returned
  BY DEF Init
<1>2. Closed = {}
  BY <1>1 DEF Closed
<1> QED
  BY <1>1, <1>2 DEF EveryEntryOnce

(***************************************************************************)
(* plan_batches puts every entry it is given into exactly one batch, in    *)
(* order, for lists of any length, any sizes and any cap.                  *)
(***************************************************************************)
THEOREM EveryEntryIsBatchedOnce == Spec => []EveryEntryOnce
BY OnceInit, OnceStep, BatchTypeCorrect, PTL DEF Spec
-----------------------------------------------------------------------------
(***************************************************************************)
(* The open batch: below the cap u32::MAX its accounted size is exact, and *)
(* it is a lone entry or within the cap.  EachBatchIsNext alone says too   *)
(* little of the open batch to hold once it is closed.                     *)
(***************************************************************************)
OpenFits ==
  cap < U32Max =>
    /\ ~returned => openBytes = Bytes(size, open)
    /\ Cardinality(open) <= 1 \/ Bytes(size, open) <= cap

\* Sets of entries are finite, and their sizes add up to a number.
LEMMA EntriesSum ==
  ASSUME TypeOK, NEW S, S \subseteq Entries
  PROVE  /\ IsFiniteSet(S) /\ Bytes(size, S) \in Nat
         /\ \A e \in S : size[e] \in Nat
<1>1. Entries = 1 .. Len(size) /\ Len(size) \in Nat
      /\ \A e \in Entries : size[e] \in Nat
  BY EntriesType, PlanAssumption DEF U32
<1>2. IsFiniteSet(S)
  <2>1. IsFiniteSet(1 .. Len(size))
    BY <1>1, FS_Interval
  <2> QED
    BY <1>1, <2>1, FS_Subset
<1> QED
  BY <1>1, <1>2, SumType DEF Bytes

\* An entry more adds its size to a set of entries.
LEMMA EntryAdds ==
  ASSUME TypeOK, NEW S, S \subseteq Entries, NEW e \in Entries, e \notin S
  PROVE  Bytes(size, S \cup {e}) = Bytes(size, S) + size[e]
<1>1. IsFiniteSet(S) /\ size[e] \in Nat /\ \A y \in S : size[y] \in Nat
  BY EntriesSum
<1> QED
  BY <1>1, SumAdd DEF Bytes

\* The next entry is not in a batch yet.
LEMMA NextEntryIsNew ==
  ASSUME TypeOK, EveryEntryOnce, TakeEntry
  PROVE  /\ taken + 1 \in Entries /\ taken + 1 \notin Closed
         /\ taken + 1 \notin open /\ taken' = taken + 1
         /\ open \subseteq Entries /\ ~returned
         /\ openBytes \in Nat /\ size[taken + 1] \in Nat
         /\ size[taken + 1] <= U32Max /\ cap \in Nat /\ U32Max \in Nat
<1>1. taken + 1 \in Entries /\ taken \in Nat
  BY EntriesType DEF TakeEntry, TypeOK
<1>2. taken + 1 \notin 1 .. taken
  BY <1>1
<1>3. size[taken + 1] \in U32
  BY <1>1, EntriesType
<1> QED
  BY <1>1, <1>2, <1>3, PlanAssumption DEF EveryEntryOnce, TakeEntry, TypeOK, U32

\* The loop keeps the open batch's account.
LEMMA OpenStep ==
  ASSUME TypeOK, EveryEntryOnce, OpenFits, [Next]_planVars
  PROVE  OpenFits'
<1>1. CASE TakeEntry
  <2> DEFINE e == taken + 1
  <2>1. /\ e \in Entries /\ e \notin open /\ open \subseteq Entries /\ ~returned
        /\ openBytes \in Nat /\ size[e] \in Nat /\ size[e] <= U32Max
        /\ cap \in Nat /\ U32Max \in Nat
        /\ UNCHANGED <<size, cap, returned>>
    BY <1>1, NextEntryIsNew DEF TakeEntry
  <2>2. Bytes(size, {e}) = size[e] /\ Cardinality({e}) = 1
    BY <2>1, SumSingle, FS_Singleton DEF Bytes
  <2>3. CASE StartBatch(e)
    <3>1. open' = {e} /\ openBytes' = size[e]
      BY <2>1, <2>3 DEF StartBatch, SatAdd
    <3> HIDE DEF e
    <3> QED
      BY <2>1, <2>2, <3>1 DEF OpenFits
  <2>4. CASE JoinBatch(e)
    <3>1. /\ open' = open \cup {e} /\ openBytes' = SatAdd(openBytes, size[e])
          /\ open = {} \/ SatAdd(openBytes, size[e]) <= cap
      BY <2>1, <2>4 DEF JoinBatch, Overflows, SatAdd
    <3> HIDE DEF e
    <3> SUFFICES ASSUME cap < U32Max
                 PROVE  /\ openBytes' = Bytes(size, open')
                        /\ Cardinality(open') <= 1 \/ Bytes(size, open') <= cap
      BY <2>1 DEF OpenFits
    <3>2. openBytes = Bytes(size, open)
      BY <2>1 DEF OpenFits
    <3>3. Bytes(size, open') = openBytes + size[e]
      BY <2>1, <3>1, <3>2, EntryAdds
    <3>4. CASE open = {}
      <4>1. openBytes = 0 /\ open' = {e}
        BY <3>1, <3>2, <3>4, SumEmpty DEF Bytes
      <4> QED
        BY <2>1, <2>2, <3>1, <3>3, <4>1 DEF SatAdd
    <3>5. CASE SatAdd(openBytes, size[e]) <= cap
      BY <2>1, <3>1, <3>3, <3>5 DEF SatAdd
    <3> QED
      BY <3>1, <3>4, <3>5
  <2> QED
    BY <1>1, <2>1, <2>3, <2>4, NextEntryIsNew DEF TakeEntry
<1>2. CASE Return
  <2>1. open' = {} /\ returned' /\ Cardinality({}) = 0
    BY <1>2, FS_EmptySet DEF Return
  <2> QED
    BY <2>1 DEF OpenFits
<1>3. CASE UNCHANGED planVars
  BY <1>3 DEF planVars, OpenFits
<1> QED
  BY <1>1, <1>2, <1>3 DEF Next

\* Appending a batch leaves the earlier ones what they were.
LEMMA EarlierStay ==
  ASSUME TypeOK, NEW c \in SUBSET Entries, batches' = Append(batches, c)
  PROVE  /\ \A b \in 1 .. Len(batches) : batches'[b] = batches[b]
         /\ \A b \in 1 .. Len(batches) + 1 :
              {batches'[a] : a \in 1 .. b - 1} = {batches[a] : a \in 1 .. b - 1}
         /\ {batches[a] : a \in 1 .. (Len(batches) + 1) - 1} =
              {batches[a] : a \in 1 .. Len(batches)}
         /\ Len(batches') = Len(batches) + 1 /\ Len(batches) \in Nat
         /\ batches'[Len(batches) + 1] = c
<1>1. batches \in Seq(SUBSET Entries)
  BY DEF TypeOK
<1>2. /\ Len(batches') = Len(batches) + 1 /\ Len(batches) \in Nat
      /\ \A b \in 1 .. Len(batches) : batches'[b] = batches[b]
      /\ batches'[Len(batches) + 1] = c
  BY <1>1
<1>3. ASSUME NEW b \in 1 .. Len(batches) + 1
      PROVE  {batches'[a] : a \in 1 .. b - 1} = {batches[a] : a \in 1 .. b - 1}
  <2>1. \A a \in 1 .. b - 1 : batches'[a] = batches[a]
    BY <1>2
  <2> QED
    BY <2>1, Zenon
<1>4. 1 .. (Len(batches) + 1) - 1 = 1 .. Len(batches)
  BY <1>2
<1>5. {batches[a] : a \in 1 .. (Len(batches) + 1) - 1} =
        {batches[a] : a \in 1 .. Len(batches)}
  BY <1>4, Zenon
<1> QED
  BY <1>2, <1>3, <1>5

\* Every step keeps EachBatchIsNext.
LEMMA NextStep ==
  ASSUME TypeOK, EveryEntryOnce, OpenFits, EachBatchIsNext, [Next]_planVars
  PROVE  EachBatchIsNext'
<1>1. ASSUME cap < U32Max => open \in NextBatches(Entries \ Closed, size, cap),
             batches' = Append(batches, open), UNCHANGED <<size, cap>>
      PROVE  EachBatchIsNext'
  <2>1. open \in SUBSET Entries
    BY DEF TypeOK
  <2>2. Entries' = Entries
    BY <1>1 DEF Entries
  <2>3. ASSUME cap < U32Max, NEW b \in 1 .. Len(batches')
        PROVE  batches'[b] \in
                 NextBatches(Entries \ UNION {batches'[a] : a \in 1 .. b - 1},
                             size, cap)
    <3>1. b \in 1 .. Len(batches) \/ b = Len(batches) + 1
      BY <1>1, <2>1, <2>3, EarlierStay
    <3>2. {batches'[a] : a \in 1 .. b - 1} = {batches[a] : a \in 1 .. b - 1}
      BY <1>1, <2>1, <2>3, EarlierStay
    <3>3. CASE b \in 1 .. Len(batches)
      <4>1. batches'[b] = batches[b]
        BY <1>1, <2>1, <3>3, EarlierStay
      <4>2. batches[b] \in
              NextBatches(Entries \ UNION {batches[a] : a \in 1 .. b - 1},
                          size, cap)
        BY <2>3, <3>3 DEF EachBatchIsNext
      <4> QED
        BY <3>2, <4>1, <4>2
    <3>4. CASE b = Len(batches) + 1
      <4>1. batches'[b] = open
        BY <1>1, <2>1, <3>4, EarlierStay
      <4>2. UNION {batches[a] : a \in 1 .. b - 1} = Closed
        BY <1>1, <2>1, <3>4, EarlierStay DEF Closed
      <4> QED
        BY <1>1, <2>3, <3>2, <4>1, <4>2
    <3> QED
      BY <3>1, <3>3, <3>4
  <2> QED
    BY <1>1, <2>2, <2>3 DEF EachBatchIsNext
<1>2. open \subseteq Entries \ Closed
  <2>1. ASSUME NEW x \in open PROVE x \notin Closed
    <3>1. x \in Nat
      BY <2>1, EntriesType DEF TypeOK
    <3> QED
      BY <2>1, <3>1 DEF EveryEntryOnce
  <2> QED
    BY <2>1 DEF TypeOK
<1>3. ASSUME cap < U32Max, open # {}
      PROVE  Cardinality(open) = 1 \/ Bytes(size, open) <= cap
  <2>1. IsFiniteSet(open) /\ Cardinality(open) # 0
    BY <1>3, EntriesSum, FS_EmptySet DEF TypeOK
  <2>2. Cardinality(open) \in Nat
    BY <2>1, FS_CardinalityType
  <2> QED
    BY <1>3, <2>1, <2>2 DEF OpenFits
<1>4. CASE TakeEntry
  <2> DEFINE e == taken + 1
  <2>1. /\ e \in Entries /\ e \notin Closed /\ e \notin open /\ ~returned
        /\ open \subseteq Entries /\ openBytes \in Nat /\ size[e] \in Nat
        /\ cap \in Nat /\ U32Max \in Nat /\ UNCHANGED <<size, cap>>
    BY <1>4, NextEntryIsNew DEF TakeEntry
  <2>2. CASE StartBatch(e)
    <3>1. /\ open # {} /\ SatAdd(openBytes, size[e]) > cap
          /\ batches' = Append(batches, open)
      BY <2>2 DEF StartBatch, Overflows
    <3> HIDE DEF e
    <3>2. cap < U32Max => Bytes(size, open \cup {e}) > cap
      BY <2>1, <3>1, EntryAdds DEF OpenFits, SatAdd
    <3>3. cap < U32Max => open \in NextBatches(Entries \ Closed, size, cap)
      BY <1>2, <1>3, <2>1, <3>1, <3>2 DEF NextBatches
    <3> QED
      BY <1>1, <2>1, <3>1, <3>3
  <2>3. CASE JoinBatch(e)
    BY <2>1, <2>3 DEF JoinBatch, EachBatchIsNext, Entries
  <2> QED
    BY <1>4, <2>2, <2>3, NextEntryIsNew DEF TakeEntry
<1>5. CASE Return
  <2>1. taken = Len(size) /\ UNCHANGED <<size, cap>>
    BY <1>5 DEF Return
  <2>2. CASE open # {}
    <3>1. batches' = Append(batches, open)
      BY <1>5, <2>2 DEF Return
    <3>2. Closed \cup open = Entries
      BY <2>1, EntriesType DEF EveryEntryOnce
    <3>3. open = Entries \ Closed
      BY <1>2, <3>2
    <3>4. cap < U32Max => open \in NextBatches(Entries \ Closed, size, cap)
      BY <1>3, <2>2, <3>3 DEF NextBatches
    <3> QED
      BY <1>1, <2>1, <3>1, <3>4
  <2>3. CASE open = {}
    <3>1. batches' = batches
      BY <1>5, <2>3 DEF Return
    <3> QED
      BY <2>1, <3>1 DEF EachBatchIsNext, Entries
  <2> QED
    BY <2>2, <2>3
<1>6. CASE UNCHANGED planVars
  BY <1>6 DEF planVars, EachBatchIsNext, Entries
<1> QED
  BY <1>4, <1>5, <1>6 DEF Next

(***************************************************************************)
(* Every batch of plan_batches is one that RentKeeper's batch loop may     *)
(* take from what the earlier ones left, for lists of any length, any      *)
(* sizes and any cap below u32::MAX: what makes it sound that RentKeeper   *)
(* draws its batches from NextBatches instead of running the loop.         *)
(***************************************************************************)
THEOREM EveryBatchIsNext == Spec => []EachBatchIsNext
<1>1. Init => OpenFits /\ EachBatchIsNext
  <2> SUFFICES ASSUME Init PROVE OpenFits /\ EachBatchIsNext
    OBVIOUS
  <2>1. /\ Len(batches) = 0 /\ open = {} /\ openBytes = 0
        /\ Cardinality({}) = 0 /\ Bytes(size, {}) = 0
    BY FS_EmptySet, SumEmpty DEF Init, Bytes
  <2> QED
    BY <2>1 DEF OpenFits, EachBatchIsNext
<1>2. TypeOK /\ EveryEntryOnce /\ OpenFits /\ EachBatchIsNext /\ [Next]_planVars
        => OpenFits' /\ EachBatchIsNext'
  <2> SUFFICES ASSUME TypeOK, EveryEntryOnce, OpenFits, EachBatchIsNext,
                      [Next]_planVars
               PROVE  OpenFits' /\ EachBatchIsNext'
    OBVIOUS
  <2> QED
    BY OpenStep, NextStep
<1> QED
  BY <1>1, <1>2, BatchTypeCorrect, EveryEntryIsBatchedOnce, PTL DEF Spec
=============================================================================
