------------------------- MODULE StorageLints_proofs -------------------------
(***************************************************************************)
(* Theorems about StorageLints, for all attributes, crates and lists of    *)
(* ignored rules.  What the folds over options and attributes compute is   *)
(* stated in a closed form first: the last (or first) lifecycle named, and *)
(* whether critical was said at all.                                       *)
(***************************************************************************)
EXTENDS StorageLints, FiniteSums

\* A finite set of numbers that is not empty has a maximum.
LEMMA MaxFacts ==
  ASSUME NEW S, S \subseteq Nat, IsFiniteSet(S), S # {}
  PROVE  Max(S) \in S /\ \A x \in S : Max(S) >= x
<1> DEFINE HasMax(T) == \E m \in T : \A x \in T : m >= x
           Bad == {T \in SUBSET S : T # {} /\ ~HasMax(T)}
<1>0. /\ Bad \subseteq SUBSET S
      /\ \A T \in SUBSET S : T \notin Bad <=> (T = {} \/ HasMax(T))
      /\ {} \notin Bad
  OBVIOUS
<1> HIDE DEF Bad
<1>1. ASSUME Bad # {}
      PROVE  FALSE
  <2>1. PICK T \in Bad : \A U \in SUBSET T : U \in Bad => U = T
    BY <1>0, <1>1, SmallestSubset
  <2>2. T \subseteq S /\ T # {} /\ ~HasMax(T)
    BY <1>0
  <2>3. PICK y \in T : TRUE
    BY <2>2
  <2>4. T \ {y} = {} \/ HasMax(T \ {y})
    <3>1. T \ {y} \in SUBSET T /\ T \ {y} # T /\ T \ {y} \in SUBSET S
      BY <2>2, <2>3
    <3> QED
      BY <1>0, <2>1, <3>1
  <2>5. CASE T \ {y} = {}
    <3>1. T = {y} /\ y \in Nat
      BY <2>2, <2>3, <2>5
    <3> QED
      BY <2>2, <3>1
  <2>6. CASE HasMax(T \ {y})
    <3>1. PICK m \in T \ {y} : \A x \in T \ {y} : m >= x
      BY <2>6
    <3>2. m \in Nat /\ y \in Nat
      BY <2>2, <2>3
    <3>3. CASE m >= y
      BY <2>2, <3>1, <3>3
    <3>4. CASE ~(m >= y)
      <4>1. \A x \in T : x \in Nat /\ y >= x
        BY <2>2, <3>1, <3>2, <3>4
      <4> QED
        BY <2>2, <2>3, <4>1
    <3> QED
      BY <3>3, <3>4
  <2> QED
    BY <2>4, <2>5, <2>6
<1>2. HasMax(S)
  BY <1>0, <1>1
<1> QED
  BY <1>2 DEF Max

\* The maximum of a set of positions, and of those of a kind among them.
LEMMA LastFacts ==
  ASSUME NEW n \in Nat, NEW s \in SUBSET (1 .. n), s # {}
  PROVE  /\ Max(s) \in s /\ Max(s) \in 1 .. n
         /\ \A x \in s : Max(s) >= x
<1>1. IsFiniteSet(1 .. n)
  BY FS_Interval
<1>2. IsFiniteSet(s)
  BY <1>1, FS_Subset
<1>3. s \subseteq Nat
  OBVIOUS
<1> QED
  BY <1>2, <1>3, MaxFacts

\* A maximum that has the kind is the maximum of the kind; one that has not
\* may be left out.
LEMMA LastOfKind ==
  ASSUME NEW n \in Nat, NEW s \in SUBSET (1 .. n), s # {},
         NEW Kind, NEW t, t = {i \in s : i \in Kind}
  PROVE  /\ Max(s) \in Kind => t # {} /\ Max(t) = Max(s)
         /\ Max(s) \notin Kind => t = {i \in s \ {Max(s)} : i \in Kind}
<1>1. Max(s) \in s /\ Max(s) \in 1 .. n /\ \A x \in s : Max(s) >= x
  BY LastFacts
<1>2. ASSUME Max(s) \in Kind
      PROVE  t # {} /\ Max(t) = Max(s)
  <2>1. t # {} /\ t \in SUBSET (1 .. n) /\ Max(s) \in t
    BY <1>1, <1>2
  <2>2. Max(t) \in t /\ Max(t) \in 1 .. n /\ \A x \in t : Max(t) >= x
    BY <2>1, LastFacts
  <2>3. Max(t) >= Max(s) /\ Max(s) >= Max(t)
    BY <1>1, <2>1, <2>2
  <2> QED
    BY <1>1, <2>1, <2>2, <2>3
<1> QED
  BY <1>1, <1>2

(***************************************************************************)
(* A fold from the left is a function over the sets of positions: two such *)
(* functions that start alike, and go on alike with the last position of   *)
(* every set, are the same.                                                *)
(***************************************************************************)
Alike(n, g, h) ==
  /\ g[{}] = h[{}]
  /\ \A s \in SUBSET (1 .. n) :
       s # {} /\ g[s \ {Max(s)}] = h[s \ {Max(s)}] => g[s] = h[s]

LEMMA FoldsAgree ==
  ASSUME NEW n \in Nat, NEW g, NEW h, Alike(n, g, h)
  PROVE  \A s \in SUBSET (1 .. n) : g[s] = h[s]
<1> DEFINE Bad == {T \in SUBSET (1 .. n) : g[T] # h[T]}
<1>0. /\ Bad \subseteq SUBSET (1 .. n) /\ IsFiniteSet(1 .. n)
      /\ \A T \in SUBSET (1 .. n) : T \notin Bad <=> g[T] = h[T]
  BY FS_Interval
<1> HIDE DEF Bad
<1>1. ASSUME Bad # {}
      PROVE  FALSE
  <2>1. PICK T \in Bad : \A U \in SUBSET T : U \in Bad => U = T
    BY <1>0, <1>1, SmallestSubset
  <2>2. T \in SUBSET (1 .. n) /\ T # {}
    BY <1>0 DEF Alike
  <2>3. Max(T) \in T
    BY <2>2, LastFacts
  <2>4. T \ {Max(T)} \in SUBSET T /\ T \ {Max(T)} # T
        /\ T \ {Max(T)} \in SUBSET (1 .. n)
    BY <2>2, <2>3
  <2>5. g[T \ {Max(T)}] = h[T \ {Max(T)}]
    BY <1>0, <2>1, <2>4
  <2> QED
    BY <1>0, <2>1, <2>2, <2>5 DEF Alike
<1> QED
  BY <1>0, <1>1

-----------------------------------------------------------------------------
(* The options of an attribute (StorageOpts::parse) *)

\* The positions among s at which one of certain options is written.
At(attr, s, options) == {i \in s : attr[i] \in options}

BumpOn == {"auto_bump", "auto_bump=true"}
BumpOff == {"no_bump", "auto_bump=false"}

\* What the options of attr at the positions s say together.
LifecycleOf(attr, s) ==
  LET kinds == At(attr, s, Kinds)
  IN IF kinds = {} THEN "none" ELSE attr[Max(kinds)]

BumpsAt(attr, s) ==
  LET bumps == At(attr, s, BumpOn \cup BumpOff)
  IN bumps = {} \/ attr[Max(bumps)] \in BumpOn

ReadOf(attr, s) ==
  [lifecycle |-> LifecycleOf(attr, s),
   critical  |-> At(attr, s, {"critical"}) # {},
   auto_bump |-> BumpsAt(attr, s),
   policy    |-> At(attr, s, {"policy="}) # {}]

\* The option that is read last decides what it is about, and no more.
LEMMA ReadLast ==
  ASSUME NEW attr \in Seq(Options), NEW s \in SUBSET (1 .. Len(attr)), s # {}
  PROVE  ReadOf(attr, s) = ReadOption(ReadOf(attr, s \ {Max(s)}), attr[Max(s)])
<1> DEFINE m == Max(s)
           o == attr[m]
<1>1. m \in s /\ Len(attr) \in Nat /\ o \in Options
  BY LastFacts
<1>2. ASSUME NEW O
      PROVE  /\ o \in O => At(attr, s, O) # {} /\ Max(At(attr, s, O)) = m
             /\ o \notin O => At(attr, s, O) = At(attr, s \ {m}, O)
  <2> DEFINE Kind == {i \in s : attr[i] \in O}
  <2>1. At(attr, s, O) = {i \in s : i \in Kind}
    BY DEF At
  <2>2. m \in Kind <=> o \in O
    BY <1>1
  <2>3. At(attr, s \ {m}, O) = {i \in s \ {m} : i \in Kind}
    BY DEF At
  <2> HIDE DEF Kind
  <2>4. \A t : t = {i \in s : i \in Kind} =>
          /\ m \in Kind => t # {} /\ Max(t) = m
          /\ m \notin Kind => t = {i \in s \ {m} : i \in Kind}
    BY <1>1, LastOfKind
  <2> QED
    BY <2>1, <2>2, <2>3, <2>4
<1> DEFINE p == s \ {m}
<1> HIDE DEF m, p
<1>3. ASSUME o \notin Kinds
      PROVE  LifecycleOf(attr, s) = LifecycleOf(attr, p)
  BY <1>2, <1>3 DEF LifecycleOf, p
<1>4. ASSUME o \notin BumpOn \cup BumpOff
      PROVE  BumpsAt(attr, s) = BumpsAt(attr, p)
  BY <1>2, <1>4 DEF BumpsAt, p
<1>5. o # "critical" => At(attr, s, {"critical"}) = At(attr, p, {"critical"})
  BY <1>2 DEF p
<1>6. o # "policy=" => At(attr, s, {"policy="}) = At(attr, p, {"policy="})
  BY <1>2 DEF p
<1>7. CASE o \in Kinds
  <2>1. /\ o \notin BumpOn \cup BumpOff /\ o # "critical" /\ o # "policy="
        /\ ReadOption(ReadOf(attr, p), o)
             = [ReadOf(attr, p) EXCEPT !.lifecycle = o]
    BY <1>7 DEF Kinds, BumpOn, BumpOff, ReadOption
  <2>2. LifecycleOf(attr, s) = o
    BY <1>2, <1>7 DEF LifecycleOf
  <2> QED
    BY <1>4, <1>5, <1>6, <2>1, <2>2 DEF ReadOf, m, p
<1>8. CASE o = "critical"
  <2>1. o \notin BumpOn \cup BumpOff /\ o \notin Kinds /\ o # "policy="
    BY <1>8 DEF Kinds, BumpOn, BumpOff
  <2>2. At(attr, s, {"critical"}) # {}
    BY <1>2, <1>8
  <2> QED
    BY <1>3, <1>4, <1>6, <1>8, <2>1, <2>2 DEF ReadOf, ReadOption, m, p
<1>9. CASE o \in BumpOn \cup BumpOff
  <2>1. o \notin Kinds /\ o # "critical" /\ o # "policy="
    BY <1>9 DEF Kinds, BumpOn, BumpOff
  <2>2. /\ BumpsAt(attr, s) \in BOOLEAN
        /\ BumpsAt(attr, s) <=> o \in BumpOn
    BY <1>2, <1>9 DEF BumpsAt
  <2>3. CASE o \in BumpOn
    <3>1. ReadOption(ReadOf(attr, p), o)
            = [ReadOf(attr, p) EXCEPT !.auto_bump = TRUE]
      BY <2>1, <2>3 DEF ReadOption, BumpOn
    <3> QED
      BY <1>3, <1>5, <1>6, <2>1, <2>2, <2>3, <3>1 DEF ReadOf, m, p
  <2>4. CASE o \notin BumpOn
    <3>1. ReadOption(ReadOf(attr, p), o)
            = [ReadOf(attr, p) EXCEPT !.auto_bump = FALSE]
      BY <1>9, <2>1, <2>4 DEF ReadOption, BumpOn, BumpOff
    <3>2. BumpsAt(attr, s) = FALSE
      BY <2>2, <2>4
    <3> QED
      BY <1>3, <1>5, <1>6, <2>1, <3>1, <3>2 DEF ReadOf, m, p
  <2> QED
    BY <2>3, <2>4
<1>10. CASE o = "policy="
  <2>1. o \notin BumpOn \cup BumpOff /\ o \notin Kinds /\ o # "critical"
    BY <1>10 DEF Kinds, BumpOn, BumpOff
  <2>2. At(attr, s, {"policy="}) # {}
    BY <1>2, <1>10
  <2>3. ReadOption(ReadOf(attr, p), o) = [ReadOf(attr, p) EXCEPT !.policy = TRUE]
    BY <1>10, <2>1 DEF ReadOption
  <2> QED
    BY <1>3, <1>4, <1>5, <1>10, <2>1, <2>2, <2>3 DEF ReadOf, m, p
<1> QED
  BY <1>1, <1>7, <1>8, <1>9, <1>10
     DEF Options, Plain, Valued, BumpOn, BumpOff

\* The recursion the fold of Parsed unfolds to.
IsParse(attr, g) ==
  g = [s \in SUBSET (DOMAIN attr) |->
         IF s = {} THEN ParseStart
                   ELSE ReadOption(g[s \ {Max(s)}], attr[Max(s)])]

\* An attribute says what its options say together.
LEMMA ParsedIs ==
  ASSUME NEW attr \in Seq(Options)
  PROVE  Parsed(attr) = ReadOf(attr, 1 .. Len(attr))
<1> DEFINE h == [s \in SUBSET (DOMAIN attr) |-> ReadOf(attr, s)]
           g == CHOOSE f : IsParse(attr, f)
<1>1. DOMAIN attr = 1 .. Len(attr) /\ Len(attr) \in Nat
  OBVIOUS
<1>2. ReadOf(attr, {}) = ParseStart
  BY DEF ReadOf, LifecycleOf, BumpsAt, At, ParseStart
<1>3. \A s \in SUBSET (1 .. Len(attr)) : s # {} =>
         /\ ReadOf(attr, s) = ReadOption(ReadOf(attr, s \ {Max(s)}), attr[Max(s)])
         /\ s \ {Max(s)} \in SUBSET (1 .. Len(attr))
  BY ReadLast
<1>4. IsParse(attr, h)
  <2>1. \A s \in SUBSET (1 .. Len(attr)) :
          ReadOf(attr, s) = IF s = {} THEN ParseStart
                            ELSE ReadOption(h[s \ {Max(s)}], attr[Max(s)])
    BY <1>1, <1>2, <1>3
  <2> QED
    BY <1>1, <2>1 DEF IsParse
<1>5. IsParse(attr, g)
  BY <1>4
<1> HIDE DEF g
<1>6. \A s \in SUBSET (1 .. Len(attr)) :
        g[s] = IF s = {} THEN ParseStart
               ELSE ReadOption(g[s \ {Max(s)}], attr[Max(s)])
  BY <1>1, <1>5 DEF IsParse
<1>7. \A s \in SUBSET (1 .. Len(attr)) : h[s] = ReadOf(attr, s)
  BY <1>1
<1> HIDE DEF h
<1>8. \A s \in SUBSET (1 .. Len(attr)) : g[s] = h[s]
  <2>1. g[{}] = h[{}]
    BY <1>2, <1>6, <1>7
  <2>2. \A s \in SUBSET (1 .. Len(attr)) :
          s # {} /\ g[s \ {Max(s)}] = h[s \ {Max(s)}] => g[s] = h[s]
    BY <1>3, <1>6, <1>7
  <2> QED
    <3>1. Alike(Len(attr), g, h)
      BY <2>1, <2>2 DEF Alike
    <3> QED
      BY <1>1, <3>1, FoldsAgree
<1>9. Parsed(attr) = g[DOMAIN attr]
  BY DEF Parsed, FoldLeft, MapThenFoldSet, IsParse, g
<1> QED
  BY <1>1, <1>7, <1>8, <1>9

-----------------------------------------------------------------------------
(* The attributes of an entry, merged by the macro (merge_opts) *)

\* The attributes among those at s that name a lifecycle, or say critical, or
\* have a policy.
Naming(atts, s) == {i \in s : Parsed(atts[i]).lifecycle # "none"}
SaysCritical(atts, s) == \E i \in s : Parsed(atts[i]).critical
HasPolicy(atts, s) == \E i \in s : Parsed(atts[i]).policy

MergedLifecycle(atts, s) ==
  IF Naming(atts, s) = {} THEN "none" ELSE Parsed(atts[Max(Naming(atts, s))]).lifecycle

\* What the attributes at the positions s make of an entry.
MergedOf(atts, s) ==
  [lifecycle |-> MergedLifecycle(atts, s),
   critical  |-> SaysCritical(atts, s),
   auto_bump |-> IF s = {} THEN FALSE ELSE Parsed(atts[Max(s)]).auto_bump,
   policy    |-> HasPolicy(atts, s)]

\* The last attribute overrides the lifecycle if it names one, adds to
\* critical and policy, and decides about bumping.
LEMMA MergeLast ==
  ASSUME NEW V, NEW atts \in Seq(V), NEW s \in SUBSET (1 .. Len(atts)), s # {}
  PROVE  MergedOf(atts, s)
           = Merge(MergedOf(atts, s \ {Max(s)}), Parsed(atts[Max(s)]))
<1> DEFINE m == Max(s)
           p == s \ {m}
           Kind == {i \in s : Parsed(atts[i]).lifecycle # "none"}
<1>1. m \in s /\ Len(atts) \in Nat
  BY LastFacts
<1>2. /\ Naming(atts, s) = {i \in s : i \in Kind}
      /\ Naming(atts, p) = {i \in p : i \in Kind}
      /\ m \in Kind <=> Parsed(atts[m]).lifecycle # "none"
  BY <1>1 DEF Naming
<1> HIDE DEF Kind
<1>3. \A t : t = {i \in s : i \in Kind} =>
        /\ m \in Kind => t # {} /\ Max(t) = m
        /\ m \notin Kind => t = {i \in p : i \in Kind}
  BY <1>1, LastOfKind
<1>4. s = p \cup {m} /\ s # {}
  BY <1>1
<1> HIDE DEF m, p
<1>5. MergedLifecycle(atts, s) = IF Parsed(atts[m]).lifecycle # "none"
                                 THEN Parsed(atts[m]).lifecycle
                                 ELSE MergedLifecycle(atts, p)
  BY <1>2, <1>3 DEF MergedLifecycle
<1>6. SaysCritical(atts, s) = (SaysCritical(atts, p) \/ Parsed(atts[m]).critical)
  BY <1>4 DEF SaysCritical
<1>7. HasPolicy(atts, s) = (HasPolicy(atts, p) \/ Parsed(atts[m]).policy)
  BY <1>4 DEF HasPolicy
<1>8. MergedOf(atts, s) = Merge(MergedOf(atts, p), Parsed(atts[m]))
  BY <1>4, <1>5, <1>6, <1>7 DEF MergedOf, Merge, m
<1> QED
  BY <1>8 DEF m, p

\* The recursion the fold of MergedOpts unfolds to.
IsMerge(atts, g) ==
  g = [s \in SUBSET (DOMAIN atts) |->
         IF s = {} THEN MergeStart
                   ELSE Merge(g[s \ {Max(s)}], Parsed(atts[Max(s)]))]

\* The macro's view of an entry is what its attributes make of it together.
LEMMA MergedIs ==
  ASSUME NEW V, NEW atts \in Seq(V)
  PROVE  MergedOpts(atts) = MergedOf(atts, 1 .. Len(atts))
<1> DEFINE h == [s \in SUBSET (DOMAIN atts) |-> MergedOf(atts, s)]
           g == CHOOSE f : IsMerge(atts, f)
<1>1. DOMAIN atts = 1 .. Len(atts) /\ Len(atts) \in Nat
  OBVIOUS
<1>2. MergedOf(atts, {}) = MergeStart
  BY DEF MergedOf, MergedLifecycle, Naming, SaysCritical, HasPolicy, MergeStart
<1>3. \A s \in SUBSET (1 .. Len(atts)) : s # {} =>
         /\ MergedOf(atts, s) = Merge(MergedOf(atts, s \ {Max(s)}), Parsed(atts[Max(s)]))
         /\ s \ {Max(s)} \in SUBSET (1 .. Len(atts))
  BY MergeLast
<1>4. IsMerge(atts, h)
  <2>1. \A s \in SUBSET (1 .. Len(atts)) :
          MergedOf(atts, s) = IF s = {} THEN MergeStart
                            ELSE Merge(h[s \ {Max(s)}], Parsed(atts[Max(s)]))
    BY <1>1, <1>2, <1>3
  <2> QED
    BY <1>1, <2>1 DEF IsMerge
<1>5. IsMerge(atts, g)
  BY <1>4
<1> HIDE DEF g
<1>6. \A s \in SUBSET (1 .. Len(atts)) :
        g[s] = IF s = {} THEN MergeStart
               ELSE Merge(g[s \ {Max(s)}], Parsed(atts[Max(s)]))
  BY <1>1, <1>5 DEF IsMerge
<1>7. \A s \in SUBSET (1 .. Len(atts)) : h[s] = MergedOf(atts, s)
  BY <1>1
<1> HIDE DEF h
<1>8. \A s \in SUBSET (1 .. Len(atts)) : g[s] = h[s]
  <2>1. g[{}] = h[{}]
    BY <1>2, <1>6, <1>7
  <2>2. \A s \in SUBSET (1 .. Len(atts)) :
          s # {} /\ g[s \ {Max(s)}] = h[s \ {Max(s)}] => g[s] = h[s]
    BY <1>3, <1>6, <1>7
  <2>3. Alike(Len(atts), g, h)
    BY <2>1, <2>2 DEF Alike
  <2> QED
    BY <1>1, <2>3, FoldsAgree
<1>9. MergedOpts(atts) = g[DOMAIN atts]
  BY DEF MergedOpts, FoldLeft, MapThenFoldSet, IsMerge, g
<1> QED
  BY <1>1, <1>7, <1>8, <1>9

-----------------------------------------------------------------------------
(* The attributes of an entry, merged by the linter (parse_storage_decl) *)

\* The first of a set of positions.
First(s) == CHOOSE i \in s : \A j \in s : i <= j

LEMMA FirstFacts ==
  ASSUME NEW s \in SUBSET Nat, s # {}
  PROVE  First(s) \in s /\ \A j \in s : First(s) <= j
<1>1. PICK i \in s : \A j \in s : <<j, i>> \notin OpToRel(<, Nat)
  BY NatLessThanWellFounded, WFMin
<1>2. \A j \in s : i <= j
  <2> SUFFICES ASSUME NEW j \in s PROVE i <= j
    OBVIOUS
  <2>1. i \in Nat /\ j \in Nat
    OBVIOUS
  <2>2. j < i => <<j, i>> \in OpToRel(<, Nat)
    BY <2>1 DEF OpToRel
  <2>3. ~(j < i)
    BY <1>1, <2>2
  <2> QED
    BY <2>1, <2>3
<1>3. \E k \in s : \A j \in s : k <= j
  BY <1>2
<1> QED
  BY <1>3 DEF First

\* The attributes among those at s in which the linter sees a lifecycle, or
\* critical.
SeenNaming(atts, s) == {i \in s : Seen(atts[i]).lifecycle # "none"}
SeenCritical(atts, s) == \E i \in s : Seen(atts[i]).critical

SeenLifecycle(atts, s) ==
  IF SeenNaming(atts, s) = {} THEN "none"
  ELSE Seen(atts[First(SeenNaming(atts, s))]).lifecycle

\* What the linter makes of the attributes at the positions s.
SeenOf(atts, s) == [lifecycle |-> SeenLifecycle(atts, s),
                    critical  |-> SeenCritical(atts, s)]

\* The last attribute says the lifecycle only if no earlier one did.
LEMMA SeenLast ==
  ASSUME NEW V, NEW atts \in Seq(V), NEW s \in SUBSET (1 .. Len(atts)), s # {}
  PROVE  SeenOf(atts, s)
           = LintMerge(SeenOf(atts, s \ {Max(s)}), Seen(atts[Max(s)]))
<1> DEFINE m == Max(s)
           p == s \ {m}
           n == SeenNaming(atts, p)
<1>1. /\ Len(atts) \in Nat
      /\ m \in s /\ m \in Nat /\ \A x \in p : x \in Nat /\ x < m
  <2>1. m \in s /\ m \in 1 .. Len(atts) /\ \A x \in s : m >= x
    BY LastFacts
  <2> QED
    BY <2>1
<1>2. s = p \cup {m} /\ s \subseteq Nat
  BY <1>1
<1> HIDE DEF m, p
<1>3. SeenNaming(atts, s) = IF Seen(atts[m]).lifecycle # "none"
                              THEN n \cup {m} ELSE n
  BY <1>2 DEF SeenNaming
<1>4. n \subseteq p
  BY DEF SeenNaming
<1> HIDE DEF n
<1>5. SeenLifecycle(atts, p) = IF n = {} THEN "none"
                                         ELSE Seen(atts[First(n)]).lifecycle
  BY DEF SeenLifecycle, n
<1>6. SeenLifecycle(atts, s) = IF SeenLifecycle(atts, p) = "none"
                                 THEN Seen(atts[m]).lifecycle
                                 ELSE SeenLifecycle(atts, p)
  <2>1. CASE n = {}
    <3>1. First({m}) = m
      BY <1>1, FirstFacts
    <3> QED
      BY <1>3, <1>5, <2>1, <3>1 DEF SeenLifecycle
  <2>2. CASE n # {}
    <3>1. First(n) \in n /\ \A j \in n : First(n) <= j
      BY <1>2, <1>4, <2>2, FirstFacts
    <3>2. SeenLifecycle(atts, p) # "none"
      BY <1>5, <2>2, <3>1 DEF n, SeenNaming
    <3>3. First(n \cup {m}) = First(n)
      <4>1. n \cup {m} \in SUBSET Nat /\ n \cup {m} # {}
        BY <1>1, <1>2, <1>4
      <4>2. /\ First(n \cup {m}) \in n \cup {m}
            /\ \A j \in n \cup {m} : First(n \cup {m}) <= j
        BY <4>1, FirstFacts
      <4>3. First(n) < m /\ First(n) \in Nat /\ First(n \cup {m}) \in Nat
        BY <1>1, <1>4, <3>1, <4>1, <4>2
      <4>4. First(n \cup {m}) <= First(n)
        BY <3>1, <4>2
      <4>5. First(n \cup {m}) \in n
        BY <1>1, <4>2, <4>3, <4>4
      <4>6. First(n) <= First(n \cup {m})
        BY <3>1, <4>5
      <4> QED
        BY <4>3, <4>4, <4>6
    <3> QED
      BY <1>3, <1>5, <2>2, <3>2, <3>3 DEF SeenLifecycle
  <2> QED
    BY <2>1, <2>2
<1>7. SeenCritical(atts, s) = (SeenCritical(atts, p) \/ Seen(atts[m]).critical)
  BY <1>2 DEF SeenCritical
<1>8. SeenOf(atts, s) = LintMerge(SeenOf(atts, p), Seen(atts[m]))
  BY <1>6, <1>7 DEF SeenOf, LintMerge
<1> QED
  BY <1>8 DEF m, p

\* The recursion the fold of LintDecl unfolds to.
IsLintMerge(atts, g) ==
  g = [s \in SUBSET (DOMAIN atts) |->
         IF s = {} THEN NotScanned
                   ELSE LintMerge(g[s \ {Max(s)}], Seen(atts[Max(s)]))]

\* The linter's view of an entry is what its attributes make of it together,
\* or persistent if it sees no lifecycle.
LEMMA LintDeclIs ==
  ASSUME NEW V, NEW atts \in Seq(V)
  PROVE  LintDecl(atts) =
           [lifecycle |-> IF SeenLifecycle(atts, 1 .. Len(atts)) = "none"
                            THEN "persistent"
                            ELSE SeenLifecycle(atts, 1 .. Len(atts)),
            critical  |-> SeenCritical(atts, 1 .. Len(atts))]
<1> DEFINE h == [s \in SUBSET (DOMAIN atts) |-> SeenOf(atts, s)]
           g == CHOOSE f : IsLintMerge(atts, f)
<1>1. DOMAIN atts = 1 .. Len(atts) /\ Len(atts) \in Nat
  OBVIOUS
<1>2. SeenOf(atts, {}) = NotScanned
  BY DEF SeenOf, SeenLifecycle, SeenNaming, SeenCritical, NotScanned
<1>3. \A s \in SUBSET (1 .. Len(atts)) : s # {} =>
         /\ SeenOf(atts, s)
              = LintMerge(SeenOf(atts, s \ {Max(s)}), Seen(atts[Max(s)]))
         /\ s \ {Max(s)} \in SUBSET (1 .. Len(atts))
  BY SeenLast
<1>4. IsLintMerge(atts, h)
  <2>1. \A s \in SUBSET (1 .. Len(atts)) :
          SeenOf(atts, s) = IF s = {} THEN NotScanned
                            ELSE LintMerge(h[s \ {Max(s)}], Seen(atts[Max(s)]))
    BY <1>1, <1>2, <1>3
  <2> QED
    BY <1>1, <2>1 DEF IsLintMerge
<1>5. IsLintMerge(atts, g)
  BY <1>4
<1> HIDE DEF g
<1>6. \A s \in SUBSET (1 .. Len(atts)) :
        g[s] = IF s = {} THEN NotScanned
               ELSE LintMerge(g[s \ {Max(s)}], Seen(atts[Max(s)]))
  BY <1>1, <1>5 DEF IsLintMerge
<1>7. \A s \in SUBSET (1 .. Len(atts)) : h[s] = SeenOf(atts, s)
  BY <1>1
<1> HIDE DEF h
<1>8. \A s \in SUBSET (1 .. Len(atts)) : g[s] = h[s]
  <2>1. g[{}] = h[{}]
    BY <1>2, <1>6, <1>7
  <2>2. \A s \in SUBSET (1 .. Len(atts)) :
          s # {} /\ g[s \ {Max(s)}] = h[s \ {Max(s)}] => g[s] = h[s]
    BY <1>3, <1>6, <1>7
  <2>3. Alike(Len(atts), g, h)
    BY <2>1, <2>2 DEF Alike
  <2> QED
    BY <1>1, <2>3, FoldsAgree
<1>9. LintDecl(atts) = [g[DOMAIN atts] EXCEPT
                          !.lifecycle = IF @ = "none" THEN "persistent" ELSE @]
  BY DEF LintDecl, FoldLeft, MapThenFoldSet, IsLintMerge, g
<1>10. g[DOMAIN atts] = SeenOf(atts, 1 .. Len(atts))
  BY <1>1, <1>7, <1>8
<1> QED
  BY <1>9, <1>10 DEF SeenOf

-----------------------------------------------------------------------------
(* The invariant of a run *)

\* What the program is given does not change.
Inputs ==
  /\ attrs \in UNION {[1 .. n -> Attributes] : n \in 1 .. MaxAttributes}
  /\ crate \in Crates /\ ignored \in IgnoreLists /\ deny \in BOOLEAN

\* What the linter knows of the entry in file i.
DeclIn(i) == IF crate[i].declares THEN LintDecl(attrs) ELSE NotHere

\* What the second and the third rule look for in file i.
Mismatched(i) ==
  /\ crate[i].declares
  /\ \E fn \in FnsOf(i) : \E c \in Chains(fn) :
       /\ c.named /\ c.lifecycle # "instance"
       /\ LintDecl(attrs).lifecycle # c.lifecycle

Unmanaged(i) ==
  \E fn \in FnsOf(i) :
    /\ ~HasTtlCall(fn)
    /\ \E c \in Chains(fn) : c.lifecycle # "instance" /\ Writes(c)

\* Rule r has been run on file i, and it has been found to be broken.
Passed(i, r) == i < file \/ (i = file /\ r <= rule)
Reported(r) == \E n \in 1 .. Len(findings) : findings[n] = r

(***************************************************************************)
(* While the linter runs: it knows the entry in the file in progress only, *)
(* and no file it has been through broke a rule without a finding.         *)
(***************************************************************************)
Progress ==
  /\ compiled \in {"none", Verdict(Opts)}
  /\ file \in 1 .. Len(crate) + 1 /\ rule \in 0 .. 5
  /\ exit \in {-1, 0, 1, 2}
  /\ findings \in Seq({Rules[r] : r \in 1 .. 6})
  /\ decl = NotScanned \/ (file \in Linted /\ decl = DeclIn(file))
  /\ rule > 0 => decl # NotScanned

NothingMissed ==
  \A i \in Linted :
    /\ Passed(i, 2) /\ "lifecycle_mismatch" \notin ignored /\ Mismatched(i) =>
         Reported("lifecycle_mismatch")
    /\ Passed(i, 3) /\ "missing_ttl_extension" \notin ignored /\ Unmanaged(i) =>
         Reported("missing_ttl_extension")

ExitIsHonest ==
  exit = 0 => compiled = "accepted" /\ file = Len(crate) + 1 /\ ~Failed

LintInv == Inputs /\ Progress /\ NothingMissed /\ ExitIsHonest

-----------------------------------------------------------------------------
(* What is said and what is made of it *)

\* The attributes are sequences of options, the files files.
LEMMA InputTypes ==
  ASSUME Inputs
  PROVE  /\ attrs \in Seq(Attributes)
         /\ Len(attrs) \in Nat
         /\ \A i \in 1 .. Len(attrs) : attrs[i] \in Seq(Options)
         /\ crate \in Seq(FileType) /\ Len(crate) \in Nat
         /\ \A i \in 1 .. Len(crate) : crate[i] \in FileType
         /\ \A i \in 1 .. Len(crate) :
              crate[i].declares => crate[i].kind = "source"
<1>1. attrs \in Seq(Attributes)
  <2>1. PICK n \in 1 .. MaxAttributes : attrs \in [1 .. n -> Attributes]
    BY DEF Inputs
  <2>2. n \in Nat
    BY LintAssumption
  <2> QED
    BY <2>1, <2>2
<1>2. Attributes \subseteq Seq(Options) /\ crate \in Seq(FileType)
  BY LintAssumption DEF Inputs
<1>3. \A i \in DOMAIN crate : crate[i].declares => crate[i].kind = "source"
  BY LintAssumption DEF Inputs
<1> HIDE DEF FileType
<1> QED
  BY <1>1, <1>2, <1>3

\* What one attribute says.
LEMMA ParsedFacts ==
  ASSUME NEW attr \in Seq(Options)
  PROVE  LET said == {attr[i] : i \in 1 .. Len(attr)} IN
         /\ Parsed(attr).lifecycle \in (Kinds \cap said) \cup {"none"}
         /\ Parsed(attr).lifecycle = "none" <=> Kinds \cap said = {}
         /\ Parsed(attr).critical \in BOOLEAN
         /\ Parsed(attr).critical <=> "critical" \in said
<1> DEFINE s == 1 .. Len(attr)
           t == At(attr, s, Kinds)
<1>1. Parsed(attr) = ReadOf(attr, s) /\ Len(attr) \in Nat
  BY ParsedIs
<1>2. /\ Parsed(attr).lifecycle = LifecycleOf(attr, s)
      /\ Parsed(attr).critical = (At(attr, s, {"critical"}) # {})
  BY <1>1 DEF ReadOf
<1>3. "none" \notin Kinds
  BY DEF Kinds
<1>4. t # {} => Max(t) \in t
  BY <1>1, LastFacts DEF At
<1>5. \A i \in t : attr[i] \in Kinds /\ i \in s
  BY DEF At
<1>6. t = {} <=> \A i \in s : attr[i] \notin Kinds
  BY DEF At
<1>7. At(attr, s, {"critical"}) # {} <=> \E i \in s : attr[i] = "critical"
  BY DEF At
<1>8. LifecycleOf(attr, s) = IF t = {} THEN "none" ELSE attr[Max(t)]
  BY DEF LifecycleOf
<1> HIDE DEF s, t
<1>9. /\ Parsed(attr).lifecycle \in (Kinds \cap {attr[i] : i \in s}) \cup {"none"}
      /\ Parsed(attr).lifecycle = "none" <=> Kinds \cap {attr[i] : i \in s} = {}
  <2>1. CASE t = {}
    BY <1>2, <1>6, <1>8, <2>1
  <2>2. CASE t # {}
    <3>1. attr[Max(t)] \in Kinds \cap {attr[i] : i \in s}
      BY <1>4, <1>5, <2>2
    <3> QED
      BY <1>2, <1>3, <1>8, <2>2, <3>1
  <2> QED
    BY <2>1, <2>2
<1>10. /\ Parsed(attr).critical \in BOOLEAN
       /\ Parsed(attr).critical <=> "critical" \in {attr[i] : i \in s}
  BY <1>2, <1>7
<1> QED
  BY <1>9, <1>10 DEF s

\* What the macro makes of the entry: critical if that is said anywhere, and
\* a lifecycle if one is.
LEMMA OptsFacts ==
  ASSUME Inputs
  PROVE  /\ Opts.critical \in BOOLEAN /\ (Opts.critical <=> Says("critical"))
         /\ Opts.lifecycle # "none" => Opts.lifecycle \in Kinds
                                        /\ Says(Opts.lifecycle)
         /\ Opts.lifecycle = "none" => \A k \in Kinds : ~Says(k)
<1> DEFINE s == 1 .. Len(attrs)
           said(i) == {attrs[i][j] : j \in 1 .. Len(attrs[i])}
           t == Naming(attrs, s)
<1>1. Opts = MergedOf(attrs, s)
  BY InputTypes, MergedIs DEF Opts
<1>2. /\ Opts.lifecycle = MergedLifecycle(attrs, s)
      /\ Opts.critical = SaysCritical(attrs, s)
  BY <1>1 DEF MergedOf
<1>3. ASSUME NEW i \in s
      PROVE  /\ Parsed(attrs[i]).lifecycle \in (Kinds \cap said(i)) \cup {"none"}
             /\ Parsed(attrs[i]).lifecycle = "none" <=> Kinds \cap said(i) = {}
             /\ Parsed(attrs[i]).critical \in BOOLEAN
             /\ Parsed(attrs[i]).critical <=> "critical" \in said(i)
  BY InputTypes, ParsedFacts
<1>4. \A o : Says(o) <=> \E i \in s : o \in said(i)
  BY DEF Says
<1> HIDE DEF said
<1>5. t # {} => Max(t) \in t
  BY InputTypes, LastFacts DEF Naming
<1>6. t = {i \in s : Parsed(attrs[i]).lifecycle # "none"}
  BY DEF Naming
<1>7. MergedLifecycle(attrs, s)
        = IF t = {} THEN "none" ELSE Parsed(attrs[Max(t)]).lifecycle
  BY DEF MergedLifecycle
<1> HIDE DEF s, t
<1>8. Opts.critical \in BOOLEAN /\ (Opts.critical <=> Says("critical"))
  BY <1>2, <1>3, <1>4 DEF SaysCritical
<1>9. CASE t = {}
  BY <1>2, <1>3, <1>4, <1>6, <1>7, <1>8, <1>9
<1>10. CASE t # {}
  BY <1>2, <1>3, <1>4, <1>5, <1>6, <1>7, <1>8, <1>10
<1> QED
  BY <1>9, <1>10

\* What the linter makes of the entry: persistent or a lifecycle that is said,
\* and critical only if that is said; all of it if it can read the attributes.
LEMMA DeclFacts ==
  ASSUME Inputs
  PROVE  /\ LintDecl(attrs) \in [lifecycle: Kinds, critical: BOOLEAN]
         /\ \/ Says(LintDecl(attrs).lifecycle)
            \/ /\ LintDecl(attrs).lifecycle = "persistent"
               /\ Readable => \A k \in Kinds : ~Says(k)
         /\ Readable => (LintDecl(attrs).critical <=> Says("critical"))
<1> DEFINE s == 1 .. Len(attrs)
           said(i) == {attrs[i][j] : j \in 1 .. Len(attrs[i])}
           t == SeenNaming(attrs, s)
<1>1. LintDecl(attrs) = [lifecycle |-> IF SeenLifecycle(attrs, s) = "none"
                                         THEN "persistent"
                                         ELSE SeenLifecycle(attrs, s),
                         critical  |-> SeenCritical(attrs, s)]
  BY InputTypes, LintDeclIs
<1>2. /\ LintDecl(attrs).lifecycle = IF SeenLifecycle(attrs, s) = "none"
                                       THEN "persistent"
                                       ELSE SeenLifecycle(attrs, s)
      /\ LintDecl(attrs).critical = SeenCritical(attrs, s)
  BY <1>1
<1>3. ASSUME NEW i \in s
      PROVE  /\ Seen(attrs[i]).lifecycle \in (Kinds \cap said(i)) \cup {"none"}
             /\ Seen(attrs[i]).critical \in BOOLEAN
             /\ ~Unreadable(attrs[i]) =>
                  /\ Seen(attrs[i]).lifecycle = "none" <=> Kinds \cap said(i) = {}
                  /\ Seen(attrs[i]).critical <=> "critical" \in said(i)
  <2>1. /\ Parsed(attrs[i]).lifecycle \in (Kinds \cap said(i)) \cup {"none"}
        /\ Parsed(attrs[i]).lifecycle = "none" <=> Kinds \cap said(i) = {}
        /\ Parsed(attrs[i]).critical \in BOOLEAN
        /\ Parsed(attrs[i]).critical <=> "critical" \in said(i)
    BY InputTypes, ParsedFacts
  <2>2. CASE Unreadable(attrs[i])
    BY <2>2 DEF Seen, NotScanned
  <2>3. CASE ~Unreadable(attrs[i])
    <3>1. /\ Seen(attrs[i]).lifecycle = Parsed(attrs[i]).lifecycle
          /\ Seen(attrs[i]).critical = Parsed(attrs[i]).critical
      BY <2>3 DEF Seen
    <3> QED
      BY <2>1, <3>1
  <2> QED
    BY <2>2, <2>3
<1>4. \A o : Says(o) <=> \E i \in s : o \in said(i)
  BY DEF Says
<1>5. Readable => \A i \in s : ~Unreadable(attrs[i])
  BY DEF Readable
<1> HIDE DEF said
<1>6. t # {} => First(t) \in t
  BY FirstFacts DEF SeenNaming
<1>7. t = {i \in s : Seen(attrs[i]).lifecycle # "none"}
  BY DEF SeenNaming
<1>8. SeenLifecycle(attrs, s)
        = IF t = {} THEN "none" ELSE Seen(attrs[First(t)]).lifecycle
  BY DEF SeenLifecycle
<1> HIDE DEF s, t
<1>9. SeenCritical(attrs, s) \in BOOLEAN
  BY DEF SeenCritical
<1>10. Readable => (LintDecl(attrs).critical <=> Says("critical"))
  BY <1>2, <1>3, <1>4, <1>5 DEF SeenCritical
<1>11. CASE t = {}
  <2>1. /\ LintDecl(attrs).lifecycle = "persistent"
        /\ Readable => \A k \in Kinds : ~Says(k)
    BY <1>2, <1>3, <1>4, <1>5, <1>7, <1>8, <1>11
  <2>2. LintDecl(attrs) \in [lifecycle: Kinds, critical: BOOLEAN]
    BY <1>1, <1>9, <1>8, <1>11 DEF Kinds
  <2> QED
    BY <1>10, <2>1, <2>2
<1>12. CASE t # {}
  <2> DEFINE k == Seen(attrs[First(t)]).lifecycle
  <2>1. k \in Kinds /\ Says(k) /\ k # "none"
    BY <1>3, <1>4, <1>6, <1>7, <1>12
  <2>2. SeenLifecycle(attrs, s) = k
    BY <1>8, <1>12
  <2> HIDE DEF k
  <2>3. LintDecl(attrs).lifecycle = k
    BY <1>2, <2>1, <2>2
  <2>4. LintDecl(attrs) \in [lifecycle: Kinds, critical: BOOLEAN]
    BY <1>1, <1>9, <2>1, <2>2
  <2> QED
    BY <1>10, <2>1, <2>3, <2>4
<1> QED
  BY <1>11, <1>12

\* One lifecycle is named, however often.
LEMMA OneLifecycleIs ==
  ASSUME OneLifecycle
  PROVE  \E k \in Kinds : \A j \in Kinds : Says(j) <=> j = k
<1> DEFINE named == {k \in Kinds : Says(k)}
<1>1. IsFiniteSet(Kinds)
  <2>1. Kinds = ({"temporary"} \cup {"persistent"}) \cup {"instance"}
    BY DEF Kinds
  <2> QED
    BY <2>1, FS_Singleton, FS_Union
<1>2. IsFiniteSet(named) /\ Cardinality(named) = 1
  BY <1>1, FS_Subset DEF OneLifecycle
<1>3. PICK k : named = {k}
  BY <1>2, FS_Singleton
<1> QED
  BY <1>3

\* The macro uses it, and the linter either does or has not seen it.
LEMMA SameLifecycle ==
  ASSUME Inputs, OneLifecycle
  PROVE  /\ Opts.lifecycle \in Kinds
         /\ LintDecl(attrs).lifecycle \in {Opts.lifecycle, "persistent"}
         /\ Readable => LintDecl(attrs).lifecycle = Opts.lifecycle
<1>1. PICK k \in Kinds : \A j \in Kinds : Says(j) <=> j = k
  BY OneLifecycleIs
<1>2. Opts.lifecycle = k
  BY <1>1, OptsFacts
<1>3. LintDecl(attrs).lifecycle \in Kinds
  BY DeclFacts
<1> QED
  BY <1>1, <1>2, <1>3, DeclFacts

-----------------------------------------------------------------------------
(* The steps *)

\* A scanned declaration is told from none.
LEMMA ScannedIsSeen ==
  ASSUME Inputs, NEW i \in Linted
  PROVE  /\ DeclIn(i) # NotScanned
         /\ DeclIn(i) \in {NotHere} \cup [lifecycle: Kinds, critical: BOOLEAN]
<1>1. NotHere # NotScanned
  <2>1. NotHere.lifecycle # NotScanned.lifecycle
    BY DEF NotHere, NotScanned
  <2> QED
    BY <2>1
<1>2. LintDecl(attrs) # NotScanned
  <2>1. LintDecl(attrs).lifecycle \in Kinds
    BY DeclFacts
  <2>2. LintDecl(attrs).lifecycle # NotScanned.lifecycle
    BY <2>1 DEF NotScanned, Kinds
  <2> QED
    BY <2>2
<1> QED
  BY <1>1, <1>2, DeclFacts DEF DeclIn

\* What a rule finds: as many findings as there are chains it flags, one at
\* least if it flags any.
LEMMA FoundFacts ==
  ASSUME Inputs, file \in Linted, NEW r
  PROVE  /\ Found(r) \in Seq({r})
         /\ (\E fn \in FnsOf(file) : \E c \in Chains(fn) : Flags(r, fn, c)) =>
              Len(Found(r)) > 0
<1> DEFINE fns == crate[file].fns
           flagged(n) == {i \in 1 .. Len(fns[n].chains) :
                            Flags(r, fns[n], fns[n].chains[i])}
           seen == Visited(file)
           all == UNION {{n} \X flagged(n) : n \in seen}
<1>1. fns \in Seq(FnType) /\ Len(fns) \in Nat
  <2>1. crate[file] \in FileType
    BY InputTypes DEF Linted
  <2>2. fns \in Seq(FnType)
    BY <2>1 DEF FileType
  <2> HIDE DEF fns
  <2> QED
    BY <2>2
<1>0. seen \subseteq 1 .. Len(fns)
  BY DEF Visited
<1>2. \A n \in 1 .. Len(fns) : Len(fns[n].chains) \in Nat
  <2> SUFFICES ASSUME NEW n \in 1 .. Len(fns) PROVE Len(fns[n].chains) \in Nat
    OBVIOUS
  <2>1. fns[n] \in FnType
    BY <1>1
  <2>2. fns[n].chains \in Seq(ChainType)
    BY <2>1 DEF FnType
  <2> QED
    BY <2>2
<1>3. IsFiniteSet(all)
  <2>1. IsFiniteSet(1 .. Len(fns))
    <3> DEFINE l == Len(fns)
    <3>1. l \in Nat
      BY <1>1
    <3> HIDE DEF l
    <3>2. IsFiniteSet(1 .. l)
      BY <3>1, FS_Interval
    <3> QED
      BY <3>2 DEF l
  <2>1a. IsFiniteSet(seen)
    BY <1>0, <2>1, FS_Subset
  <2>2. ASSUME NEW n \in seen
        PROVE  IsFiniteSet({n} \X flagged(n))
    <3>1. IsFiniteSet(1 .. Len(fns[n].chains))
      <4> DEFINE l == Len(fns[n].chains)
      <4>1. l \in Nat
        BY <1>0, <1>2
      <4> HIDE DEF l
      <4>2. IsFiniteSet(1 .. l)
        BY <4>1, FS_Interval
      <4> QED
        BY <4>2 DEF l
    <3>2. IsFiniteSet(flagged(n))
      BY <3>1, FS_Subset
    <3>3. IsFiniteSet({n})
      BY FS_Singleton
    <3> HIDE DEF flagged
    <3> QED
      BY <3>2, <3>3, FS_Product
  <2> HIDE DEF flagged, fns, seen
  <2>3. IsFiniteSet({{n} \X flagged(n) : n \in seen})
    <3> DEFINE T == {{n} \X flagged(n) : n \in seen}
               f == [n \in seen |-> {n} \X flagged(n)]
    <3>1. f \in Surjection(seen, T)
      BY DEF Surjection
    <3> HIDE DEF T, f
    <3>2. IsFiniteSet(T)
      BY <2>1a, <3>1, FS_Surjection
    <3> QED
      BY <3>2 DEF T
  <2> QED
    BY <2>2, <2>3, FS_UNION
<1>4. Found(r) = [i \in 1 .. Cardinality(all) |-> r]
  BY DEF Found
<1>5. ASSUME NEW fn \in FnsOf(file), NEW c \in Chains(fn), Flags(r, fn, c)
      PROVE  all # {}
  <2>1. PICK n \in seen : fn = fns[n]
    BY DEF FnsOf
  <2>2. PICK i \in 1 .. Len(fn.chains) : c = fn.chains[i]
    BY DEF Chains
  <2>3. i \in flagged(n)
    BY <1>5, <2>1, <2>2
  <2> HIDE DEF flagged, fns, seen
  <2>4. <<n, i>> \in all
    BY <2>3
  <2> QED
    BY <2>4
<1> HIDE DEF all
<1>6. Cardinality(all) \in Nat /\ (all # {} => Cardinality(all) > 0)
  <2>1. Cardinality(all) \in Nat /\ (Cardinality(all) = 0 <=> all = {})
    BY <1>3, FS_CardinalityType, FS_EmptySet
  <2> QED
    BY <2>1
<1>7. Found(r) \in Seq({r}) /\ Len(Found(r)) = Cardinality(all)
  BY <1>4, <1>6
<1> QED
  BY <1>5, <1>6, <1>7

\* The second and the third rule flag what they are there for.
LEMMA RulesFind ==
  ASSUME Inputs, file \in Linted, decl = DeclIn(file)
  PROVE  /\ Mismatched(file) => Len(Found("lifecycle_mismatch")) > 0
         /\ Unmanaged(file) => Len(Found("missing_ttl_extension")) > 0
<1>1. ASSUME Mismatched(file)
      PROVE  Len(Found("lifecycle_mismatch")) > 0
  <2>1. decl = LintDecl(attrs) /\ decl # NotHere
    <3>1. crate[file].declares
      BY <1>1 DEF Mismatched
    <3>2. LintDecl(attrs).lifecycle # NotHere.lifecycle
      BY DeclFacts DEF NotHere, Kinds
    <3> QED
      BY <3>1, <3>2 DEF DeclIn
  <2>2. PICK fn \in FnsOf(file) : \E c \in Chains(fn) :
          /\ c.named /\ c.lifecycle # "instance"
          /\ LintDecl(attrs).lifecycle # c.lifecycle
    BY <1>1 DEF Mismatched
  <2>3. PICK c \in Chains(fn) :
          /\ c.named /\ c.lifecycle # "instance"
          /\ LintDecl(attrs).lifecycle # c.lifecycle
    BY <2>2
  <2>4. Flags("lifecycle_mismatch", fn, c)
    BY <2>1, <2>3 DEF Flags, Declared
  <2> QED
    BY <2>4, FoundFacts
<1>2. ASSUME Unmanaged(file)
      PROVE  Len(Found("missing_ttl_extension")) > 0
  <2>1. PICK fn \in FnsOf(file) :
          /\ ~HasTtlCall(fn)
          /\ \E c \in Chains(fn) : c.lifecycle # "instance" /\ Writes(c)
    BY <1>2 DEF Unmanaged
  <2>2. PICK c \in Chains(fn) : c.lifecycle # "instance" /\ Writes(c)
    BY <2>1
  <2>3. Flags("missing_ttl_extension", fn, c)
    BY <2>1, <2>2 DEF Flags
  <2> QED
    BY <2>3, FoundFacts
<1> QED
  BY <1>1, <1>2

\* What holds at the start.
LEMMA LintStarts == Init => LintInv
<1> SUFFICES ASSUME Init PROVE LintInv
  OBVIOUS
<1>1. Inputs
  BY DEF Init, Inputs
<1>2. Progress
  BY <1>1, InputTypes DEF Init, Progress
<1>3. \A i \in Linted : ~Passed(i, 2) /\ ~Passed(i, 3)
  BY <1>1, InputTypes DEF Init, Linted, Passed
<1> QED
  BY <1>1, <1>2, <1>3 DEF Init, LintInv, NothingMissed, ExitIsHonest

\* Steps do not change what the rules look for.
LEMMA SameFaults ==
  ASSUME UNCHANGED input, NEW i
  PROVE  /\ Linted' = Linted
         /\ Mismatched(i)' <=> Mismatched(i)
         /\ Unmanaged(i)' <=> Unmanaged(i)
         /\ DeclIn(i)' = DeclIn(i)
<1>1. attrs' = attrs /\ crate' = crate
  BY DEF input
<1>2. Linted' = Linted
  BY <1>1 DEF Linted
<1>3. FnsOf(i)' = FnsOf(i) /\ LintDecl(attrs)' = LintDecl(attrs)
  BY <1>1 DEF FnsOf, Visited
<1>4. Mismatched(i)' <=> Mismatched(i)
  BY <1>1, <1>3 DEF Mismatched
<1>5. Unmanaged(i)' <=> Unmanaged(i)
  BY <1>1, <1>3 DEF Unmanaged
<1>6. DeclIn(i)' = DeclIn(i)
  BY <1>1, <1>3 DEF DeclIn
<1> QED
  BY <1>2, <1>4, <1>5, <1>6

\* A step that runs no rule and finds nothing misses nothing.
LEMMA NothingLost ==
  ASSUME NothingMissed, UNCHANGED <<input, file, rule, findings>>
  PROVE  NothingMissed'
<1>1. /\ UNCHANGED input
      /\ ignored' = ignored /\ file' = file /\ rule' = rule
      /\ findings' = findings
  BY DEF input
<1>2. ASSUME NEW i \in Linted'
      PROVE  /\ (Passed(i, 2) /\ "lifecycle_mismatch" \notin ignored
                   /\ Mismatched(i) => Reported("lifecycle_mismatch"))'
             /\ (Passed(i, 3) /\ "missing_ttl_extension" \notin ignored
                   /\ Unmanaged(i) => Reported("missing_ttl_extension"))'
  <2>1. /\ i \in Linted
        /\ Mismatched(i)' <=> Mismatched(i)
        /\ Unmanaged(i)' <=> Unmanaged(i)
    BY <1>1, <1>2, SameFaults
  <2>2. /\ Passed(i, 2)' <=> Passed(i, 2)
        /\ Passed(i, 3)' <=> Passed(i, 3)
    BY <1>1 DEF Passed
  <2>3. /\ Reported("lifecycle_mismatch")' <=> Reported("lifecycle_mismatch")
        /\ Reported("missing_ttl_extension")'
             <=> Reported("missing_ttl_extension")
    BY <1>1 DEF Reported
  <2> QED
    BY <1>1, <2>1, <2>2, <2>3 DEF NothingMissed
<1> QED
  BY <1>2 DEF NothingMissed

\* A file that is passed over is not one of those that are linted.
LEMMA PassingOverIsFine ==
  ASSUME Inputs, Progress, NothingMissed, PassOver
  PROVE  Progress' /\ NothingMissed'
<1>1. /\ UNCHANGED input /\ file \in 1 .. Len(crate) /\ file \notin Linted
      /\ file' = file + 1 /\ crate' = crate /\ attrs' = attrs
      /\ ignored' = ignored /\ Len(crate) \in Nat
      /\ decl' = decl /\ rule' = rule /\ findings' = findings
      /\ compiled' = compiled /\ exit' = exit
  BY InputTypes DEF PassOver, Linting, Linted, Progress, input
<1>2. decl = NotScanned /\ rule = 0
  BY <1>1 DEF Progress
<1>3. Opts' = Opts
  BY <1>1 DEF Opts
<1>4. Progress'
  BY <1>1, <1>2, <1>3 DEF Progress
<1>5. ASSUME NEW i \in Linted', NEW r \in {2, 3}
      PROVE  /\ i \in Linted
             /\ Passed(i, r)' => Passed(i, r)
  <2>1. i \in Linted /\ i \in Nat /\ i # file
    BY <1>1, SameFaults DEF Linted
  <2> QED
    BY <1>1, <1>2, <2>1 DEF Passed
<1>6. ASSUME NEW i \in Linted'
      PROVE  /\ (Passed(i, 2) /\ "lifecycle_mismatch" \notin ignored
                   /\ Mismatched(i) => Reported("lifecycle_mismatch"))'
             /\ (Passed(i, 3) /\ "missing_ttl_extension" \notin ignored
                   /\ Unmanaged(i) => Reported("missing_ttl_extension"))'
  <2>1. /\ i \in Linted
        /\ Mismatched(i)' <=> Mismatched(i)
        /\ Unmanaged(i)' <=> Unmanaged(i)
    BY <1>1, <1>5, SameFaults
  <2>2. /\ Passed(i, 2)' => Passed(i, 2)
        /\ Passed(i, 3)' => Passed(i, 3)
    BY <1>5
  <2>3. /\ Reported("lifecycle_mismatch")' <=> Reported("lifecycle_mismatch")
        /\ Reported("missing_ttl_extension")'
             <=> Reported("missing_ttl_extension")
    BY <1>1 DEF Reported
  <2> QED
    BY <1>1, <2>1, <2>2, <2>3 DEF NothingMissed
<1> QED
  BY <1>4, <1>6 DEF NothingMissed

\* A rule that is run reports what it finds, and keeps what was reported.
LEMMA RunningReports ==
  ASSUME Inputs, Progress, RunRule
  PROVE  /\ file \in Linted /\ decl = DeclIn(file)
         /\ findings' \in Seq({Rules[n] : n \in 1 .. 6})
         /\ \A r : \/ Reported(r)
                  \/ /\ r = Rules[rule + 1] /\ r \notin ignored
                     /\ Len(Found(r)) > 0
                 => Reported(r)'
<1> DEFINE All == {Rules[n] : n \in 1 .. 6}
<1>1. file \in Linted /\ decl = DeclIn(file)
  BY DEF RunRule, Progress
<1>2. PICK r : r = Rules[rule + 1]
  OBVIOUS
<1>3. findings' = IF r \in ignored THEN findings ELSE findings \o Found(r)
  BY <1>2 DEF RunRule
<1>4. r \in All
  BY <1>2 DEF Progress
<1>5. Found(r) \in Seq({r})
  BY <1>1, FoundFacts
<1>6. findings \in Seq(All)
  BY DEF Progress
<1> HIDE DEF All
<1>7. Found(r) \in Seq(All)
  BY <1>4, <1>5
<1>8. findings' \in Seq(All)
  BY <1>3, <1>6, <1>7
<1>9. ASSUME NEW o, Reported(o)
      PROVE  Reported(o)'
  <2>1. PICK n \in 1 .. Len(findings) : findings[n] = o
    BY <1>9 DEF Reported
  <2>2. n \in 1 .. Len(findings') /\ findings'[n] = o
    BY <1>3, <1>6, <1>7, <2>1
  <2> QED
    BY <2>2 DEF Reported
<1>10. ASSUME r \notin ignored, Len(Found(r)) > 0
       PROVE  Reported(r)'
  <2> DEFINE n == Len(findings) + 1
  <2>1. findings' = findings \o Found(r) /\ Found(r)[1] = r
    BY <1>3, <1>5, <1>10
  <2>2. n \in 1 .. Len(findings') /\ findings'[n] = r
    BY <1>6, <1>7, <1>10, <2>1
  <2> QED
    BY <2>2 DEF Reported
<1> QED
  BY <1>1, <1>2, <1>8, <1>9, <1>10 DEF All

\* After the last rule the next file is taken; whatever rule was run, nothing
\* it was there for is missed.
LEMMA RunningMissesNothing ==
  ASSUME Inputs, Progress, NothingMissed, RunRule
  PROVE  Progress' /\ NothingMissed'
<1>1. /\ UNCHANGED input /\ crate' = crate /\ attrs' = attrs
      /\ ignored' = ignored /\ compiled' = compiled /\ exit' = exit
      /\ Len(crate) \in Nat /\ file \in 1 .. Len(crate)
      /\ rule \in 0 .. 5 /\ Len(Rules) = 6
      /\ \/ rule # 5 /\ rule' = rule + 1 /\ file' = file /\ decl' = decl
         \/ rule = 5 /\ rule' = 0 /\ file' = file + 1 /\ decl' = NotScanned
  BY InputTypes DEF RunRule, Linting, Progress, Rules, input
<1>2. Opts' = Opts
  BY <1>1 DEF Opts
<1>3. Progress'
  <2>1. findings' \in Seq({Rules[n] : n \in 1 .. 6}) /\ file \in Linted
        /\ decl = DeclIn(file) /\ decl # NotScanned
    BY RunningReports DEF RunRule
  <2>2. DeclIn(file)' = DeclIn(file)' /\ Linted' = Linted
    BY <1>1, SameFaults
  <2>3. CASE rule # 5
    <3>1. DeclIn(file)' = DeclIn(file)
      BY <1>1, <2>3 DEF DeclIn
    <3> QED
      BY <1>1, <1>2, <2>1, <2>2, <2>3, <3>1 DEF Progress
  <2>4. CASE rule = 5
    BY <1>1, <1>2, <2>1, <2>4 DEF Progress
  <2> QED
    BY <2>3, <2>4
<1>4. ASSUME NEW i \in Linted', NEW r \in {2, 3}, Passed(i, r)'
      PROVE  /\ i \in Linted
             /\ Passed(i, r) \/ (i = file /\ r = rule + 1)
  <2>1. i \in Linted /\ i \in Nat
    BY <1>1, SameFaults DEF Linted
  <2>2. i < file' \/ (i = file' /\ r <= rule')
    BY <1>4 DEF Passed
  <2> QED
    BY <1>1, <2>1, <2>2 DEF Passed
<1>5. ASSUME NEW i \in Linted'
      PROVE  /\ (Passed(i, 2) /\ "lifecycle_mismatch" \notin ignored
                   /\ Mismatched(i) => Reported("lifecycle_mismatch"))'
             /\ (Passed(i, 3) /\ "missing_ttl_extension" \notin ignored
                   /\ Unmanaged(i) => Reported("missing_ttl_extension"))'
  <2>1. /\ Mismatched(i)' <=> Mismatched(i)
        /\ Unmanaged(i)' <=> Unmanaged(i)
        /\ Rules[2] = "lifecycle_mismatch" /\ Rules[3] = "missing_ttl_extension"
    BY <1>1, SameFaults DEF Rules
  <2>2. ASSUME Passed(i, 2)', "lifecycle_mismatch" \notin ignored, Mismatched(i)
        PROVE  Reported("lifecycle_mismatch")'
    <3>1. CASE i \in Linted /\ Passed(i, 2)
      BY <2>2, <3>1, RunningReports DEF NothingMissed
    <3>2. CASE i = file /\ 2 = rule + 1
      <4>1. Len(Found("lifecycle_mismatch")) > 0
        BY <2>2, <3>2, RunningReports, RulesFind
      <4>2. Rules[rule + 1] = "lifecycle_mismatch"
        BY <2>1, <3>2
      <4> QED
        BY <2>2, <4>1, <4>2, RunningReports
    <3> QED
      BY <1>4, <2>2, <3>1, <3>2
  <2>3. ASSUME Passed(i, 3)', "missing_ttl_extension" \notin ignored, Unmanaged(i)
        PROVE  Reported("missing_ttl_extension")'
    <3>1. CASE i \in Linted /\ Passed(i, 3)
      BY <2>3, <3>1, RunningReports DEF NothingMissed
    <3>2. CASE i = file /\ 3 = rule + 1
      <4>1. Len(Found("missing_ttl_extension")) > 0
        BY <2>3, <3>2, RunningReports, RulesFind
      <4>2. Rules[rule + 1] = "missing_ttl_extension"
        BY <2>1, <3>2
      <4> QED
        BY <2>3, <4>1, <4>2, RunningReports
    <3> QED
      BY <1>4, <2>3, <3>1, <3>2
  <2> QED
    BY <1>1, <2>1, <2>2, <2>3
<1> QED
  BY <1>3, <1>5 DEF NothingMissed

\* Every step keeps the invariant.
LEMMA LintStep == LintInv /\ [Next]_vars => LintInv'
<1> SUFFICES ASSUME Inputs, Progress, NothingMissed, ExitIsHonest, [Next]_vars
             PROVE  LintInv'
  BY DEF LintInv
<1>1. UNCHANGED input
  BY DEF Next, vars, Expand, UsageError, PassOver, Scan, RunRule, Report
<1>2. /\ attrs' = attrs /\ crate' = crate /\ ignored' = ignored /\ deny' = deny
  BY <1>1 DEF input
<1>3. Inputs' /\ Opts' = Opts /\ Len(crate) \in Nat
  BY <1>2, InputTypes DEF Inputs, Opts
<1>4. Linted' = Linted /\ \A i : DeclIn(i)' = DeclIn(i)
  BY <1>1, SameFaults
<1>5. UNCHANGED decl => (decl = DeclIn(file))' <=> decl = DeclIn(file')
  BY <1>2 DEF DeclIn
<1>6. CASE Expand
  <2>1. /\ compiled' = Verdict(Opts)
        /\ UNCHANGED <<input, file, decl, rule, findings, exit>>
    BY <1>6 DEF Expand, Opts
  <2>2. Progress'
    BY <1>2, <1>3, <1>4, <1>5, <2>1 DEF Progress
  <2>3. NothingMissed'
    BY <2>1, NothingLost
  <2>4. exit' # 0
    BY <1>6, <2>1 DEF Expand, ExitIsHonest
  <2> QED
    BY <1>3, <2>2, <2>3, <2>4 DEF LintInv, ExitIsHonest
<1>7. CASE UsageError
  <2>1. exit' = 2 /\ UNCHANGED <<input, compiled, file, decl, rule, findings>>
    BY <1>7 DEF UsageError
  <2>2. Progress'
    BY <1>2, <1>3, <1>4, <1>5, <2>1 DEF Progress
  <2>3. NothingMissed'
    BY <2>1, NothingLost
  <2> QED
    BY <1>3, <2>1, <2>2, <2>3 DEF LintInv, ExitIsHonest
<1>8. CASE PassOver
  <2>1. exit' # 0
    BY <1>8 DEF PassOver, Linting
  <2>2. Progress' /\ NothingMissed'
    BY <1>8, PassingOverIsFine
  <2> QED
    BY <1>3, <2>1, <2>2 DEF LintInv, ExitIsHonest
<1>9. CASE Scan
  <2>1. /\ UNCHANGED <<input, compiled, file, rule, findings, exit>>
        /\ decl = NotScanned /\ exit = -1
        /\ file \in 1 .. Len(crate) /\ crate[file].kind = "source"
        /\ decl' = DeclIn(file)
    BY <1>3, <1>9 DEF Scan, Linting, Progress, DeclIn
  <2>2. file \in Linted
    BY <2>1 DEF Linted
  <2>3. (decl = DeclIn(file))'
    BY <1>2, <2>1 DEF DeclIn
  <2>4. Progress'
    BY <1>2, <1>3, <1>4, <2>1, <2>2, <2>3 DEF Progress
  <2>5. NothingMissed'
    BY <2>1, NothingLost
  <2> QED
    BY <1>3, <2>1, <2>4, <2>5 DEF LintInv, ExitIsHonest
<1>10. CASE RunRule
  <2>1. exit' # 0
    BY <1>10 DEF RunRule, Linting
  <2>2. Progress' /\ NothingMissed'
    BY <1>10, RunningMissesNothing
  <2> QED
    BY <1>3, <2>1, <2>2 DEF LintInv, ExitIsHonest
<1>11. CASE Report
  <2>1. /\ UNCHANGED <<input, compiled, file, decl, rule, findings>>
        /\ compiled = "accepted" /\ file = Len(crate) + 1
        /\ exit' = IF Failed THEN 1 ELSE 0
    BY <1>3, <1>11 DEF Report, Progress
  <2>2. Progress'
    BY <1>2, <1>3, <1>4, <1>5, <2>1 DEF Progress
  <2>3. NothingMissed'
    BY <2>1, NothingLost
  <2>4. Failed' <=> Failed
    BY <1>2, <2>1 DEF Failed
  <2> QED
    BY <1>2, <1>3, <2>1, <2>2, <2>3, <2>4 DEF LintInv, ExitIsHonest
<1>12. CASE UNCHANGED vars
  <2>1. UNCHANGED <<input, compiled, file, decl, rule, findings, exit>>
    BY <1>12 DEF vars
  <2>2. Progress'
    BY <1>2, <1>3, <1>4, <1>5, <2>1 DEF Progress
  <2>3. NothingMissed'
    BY <2>1, NothingLost
  <2>4. Failed' <=> Failed
    BY <1>2, <2>1 DEF Failed
  <2> QED
    BY <1>2, <1>3, <2>1, <2>2, <2>3, <2>4 DEF LintInv, ExitIsHonest
<1> QED
  BY <1>6, <1>7, <1>8, <1>9, <1>10, <1>11, <1>12 DEF Next

(***************************************************************************)
(* Whatever the crate, what is written in it and what is switched off: the *)
(* linter knows the entry in the file in progress only, a file that was    *)
(* linted and broke one of the rules run so far has a finding of it, and   *)
(* only a run through all files without a failing finding exits with 0.    *)
(***************************************************************************)
THEOREM LintInvariant == Spec => []LintInv
<1> QED
  BY LintStarts, LintStep, PTL DEF Spec

-----------------------------------------------------------------------------
(* What the runs are for *)

\* The macro refuses an entry or accepts it.
LEMMA Verdicts ==
  ASSUME NEW o
  PROVE  /\ Verdict(o) \in {"no lifecycle", "critical temporary", "accepted"}
         /\ Verdict(o) = "accepted" =>
              o.lifecycle # "none" /\ ~(o.critical /\ o.lifecycle = "temporary")
<1>1. CASE o.lifecycle = "none"
  BY <1>1 DEF Verdict
<1>2. CASE o.lifecycle # "none" /\ o.critical /\ o.lifecycle = "temporary"
  BY <1>2 DEF Verdict
<1>3. CASE o.lifecycle # "none" /\ ~(o.critical /\ o.lifecycle = "temporary")
  BY <1>3 DEF Verdict
<1> QED
  BY <1>1, <1>2, <1>3

(***************************************************************************)
(* The variables have their types: what the linter knows of the entry is   *)
(* nothing, that it is elsewhere, or a lifecycle it can compare with, and  *)
(* every finding is a rule's.                                              *)
(***************************************************************************)
THEOREM TypeCorrect == Spec => []TypeOK
<1>1. LintInv => TypeOK
  <2> SUFFICES ASSUME LintInv PROVE TypeOK
    OBVIOUS
  <2>1. Inputs /\ Progress
    BY DEF LintInv
  <2>2. decl \in {NotScanned, NotHere} \cup [lifecycle: Kinds, critical: BOOLEAN]
    BY <2>1, ScannedIsSeen DEF Progress
  <2>3. compiled \in {"none", "accepted", "no lifecycle", "critical temporary"}
    BY <2>1, Verdicts DEF Progress
  <2>4. rule \in 0 .. Len(Rules) - 1
    BY <2>1 DEF Progress, Rules
  <2>5. file \in 1 .. Len(crate) + 1 /\ exit \in {-1, 0, 1, 2}
    BY <2>1 DEF Progress
  <2>6. findings \in Seq({Rules[r] : r \in 1 .. Len(Rules)})
    <3>1. Len(Rules) = 6
      BY DEF Rules
    <3> QED
      BY <2>1, <3>1 DEF Progress
  <2> QED
    BY <2>2, <2>3, <2>4, <2>5, <2>6 DEF TypeOK
<1> QED
  BY <1>1, LintInvariant, PTL

(***************************************************************************)
(* What says critical, in whichever of any number of attributes, is never  *)
(* accepted as temporary storage (merge_opts, gen_storage).                *)
(***************************************************************************)
THEOREM CriticalSurvives == Spec => []CriticalNeverTemporary
<1>1. LintInv => CriticalNeverTemporary
  <2> SUFFICES ASSUME LintInv, compiled = "accepted", Says("critical")
               PROVE  Opts.lifecycle # "temporary"
    BY DEF CriticalNeverTemporary
  <2>1. Verdict(Opts) = "accepted"
    BY DEF LintInv, Progress
  <2>2. Opts.critical
    BY OptsFacts DEF LintInv
  <2> QED
    BY <2>1, <2>2, Verdicts
<1> QED
  BY <1>1, LintInvariant, PTL

(***************************************************************************)
(* A clean run with all rules on keeps critical data durable: the linter   *)
(* reads the lifecycle that is named or takes persistent for granted,      *)
(* never temporary, since the macro accepted the entry, so that a raw      *)
(* temporary write is a mismatch, and a mismatch fails the run (rules.rs,  *)
(* main.rs).                                                               *)
(***************************************************************************)
THEOREM CleanRunsMeanDurable == Spec => []CleanMeansDurable
<1>1. LintInv => CleanMeansDurable
  <2> SUFFICES ASSUME LintInv, exit = 0, ignored = {}, OneLifecycle,
                      Says("critical"),
                      NEW i \in Linted, crate[i].declares,
                      NEW fn \in FnsOf(i), NEW c \in Chains(fn),
                      c.named, Writes(c), c.lifecycle = "temporary"
               PROVE  FALSE
    BY DEF CleanMeansDurable
  <2>1. /\ Inputs /\ compiled = Verdict(Opts) /\ compiled = "accepted"
        /\ file = Len(crate) + 1 /\ ~Failed
    BY DEF LintInv, Progress, ExitIsHonest
  <2>2. Opts.lifecycle # "temporary"
    BY <2>1, OptsFacts, Verdicts
  <2>3. LintDecl(attrs).lifecycle # c.lifecycle
    BY <2>1, <2>2, SameLifecycle
  <2>4. Mismatched(i)
    BY <2>3 DEF Mismatched
  <2>5. Passed(i, 2)
    BY <2>1, InputTypes DEF Linted, Passed
  <2>6. Reported("lifecycle_mismatch")
    BY <2>4, <2>5 DEF LintInv, NothingMissed
  <2>7. Failed
    BY <2>6 DEF Reported, Failed, Errors
  <2> QED
    BY <2>1, <2>7
<1> QED
  BY <1>1, LintInvariant, PTL

(***************************************************************************)
(* A run that denies warnings and exits with 0 left no function it visits, *)
(* of a file it could parse, writing an entry it never extends: each is a  *)
(* finding, and any finding fails such a run (rules.rs, main.rs).          *)
(***************************************************************************)
THEOREM QuietRunsMeanManaged == Spec => []QuietMeansManaged
<1>1. LintInv => QuietMeansManaged
  <2> SUFFICES ASSUME LintInv, exit = 0, deny,
                      "missing_ttl_extension" \notin ignored,
                      NEW i \in Linted, NEW fn \in FnsOf(i),
                      NEW c \in Chains(fn), Writes(c), c.lifecycle # "instance",
                      ~HasTtlCall(fn)
               PROVE  FALSE
    BY DEF QuietMeansManaged, HasTtlCall
  <2>1. Inputs /\ file = Len(crate) + 1 /\ ~Failed
    BY DEF LintInv, ExitIsHonest
  <2>2. Unmanaged(i)
    BY DEF Unmanaged
  <2>3. Passed(i, 3)
    BY <2>1, InputTypes DEF Linted, Passed
  <2>4. Reported("missing_ttl_extension")
    BY <2>2, <2>3 DEF LintInv, NothingMissed
  <2>5. Failed
    BY <2>4 DEF Reported, Failed
  <2> QED
    BY <2>1, <2>5
<1> QED
  BY <1>1, LintInvariant, PTL

(***************************************************************************)
(* Where the linter can read every attribute, and they name one lifecycle, *)
(* its view of the entry is the macro's, however many attributes there are *)
(* and although one takes the first lifecycle and the other the last       *)
(* (parse_storage_decl, merge_opts).                                       *)
(***************************************************************************)
THEOREM BothSeeTheSame == Spec => []SameEntry
<1>1. LintInv => SameEntry
  <2> SUFFICES ASSUME LintInv, decl \notin {NotScanned, NotHere}, Readable,
                      OneLifecycle
               PROVE  decl.lifecycle = Opts.lifecycle
                      /\ decl.critical = Opts.critical
    BY DEF SameEntry
  <2>1. Inputs /\ decl = LintDecl(attrs)
    BY DEF LintInv, Progress, DeclIn
  <2>2. decl.lifecycle = Opts.lifecycle
    BY <2>1, SameLifecycle
  <2>3. decl.critical \in BOOLEAN /\ Opts.critical \in BOOLEAN
    BY <2>1, DeclFacts, OptsFacts
  <2>4. decl.critical <=> Opts.critical
    BY <2>1, DeclFacts, OptsFacts
  <2> QED
    BY <2>2, <2>3, <2>4
<1> QED
  BY <1>1, LintInvariant, PTL
=============================================================================
