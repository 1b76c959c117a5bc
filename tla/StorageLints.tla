---------------------------- MODULE StorageLints -----------------------------
(***************************************************************************)
(* A crate through the compiler and through cargo soroban-lint: a storage! *)
(* entry, expanded by the macro and read again by the linter (parse.rs     *)
(* parse_storage_decl), and the functions of all its files, whose raw      *)
(* env.storage() call chains the rules of rules.rs look at, one file at a  *)
(* time.  The linter never sees what the macro made of the entry, nor one  *)
(* file from another, which is what the properties are about.              *)
(***************************************************************************)
EXTENDS StorageMacro, FiniteSets

CONSTANTS
  Attributes,     \* #[storage(...)] attributes an entry may carry
  MaxAttributes,  \* how many it carries at most
  Crates,         \* sequences of files
  IgnoreLists     \* sets of rules --ignore may name

Writers == {"set", "update", "try_update"}
TtlMethods == {"extend_ttl", "extend_ttl_with_limits", "bump"}
Methods == Writers \cup TtlMethods \cup {"get", "remove", "has"}

\* env.storage().<lifecycle>().<method>(key, ...): whether the key expression
\* names the entry, what the type of the value looks like, whether the
\* target of extend_ttl is over the maximum, whether it is in a loop.
ChainType == [lifecycle: Kinds, method: Methods, named: BOOLEAN,
              type: SUBSET {"critical", "collection"}, over: BOOLEAN,
              in_loop: BOOLEAN]

\* A function, which may manage TTLs by calls that are no chains (bumps), and
\* is visited if it is an item of the file or of an impl block, not if it is in
\* an inline module or the default method of a trait; and a file: whether the
\* entry is declared among its items, and how the linter comes by it.
FnType == [chains: Seq(ChainType), bumps: BOOLEAN, visited: BOOLEAN]
FileType == [fns: Seq(FnType), declares: BOOLEAN,
             kind: {"source", "not collected", "unreadable", "unparseable"}]

\* In the order of run_all.
Rules == <<"temporary_critical_type", "lifecycle_mismatch",
           "missing_ttl_extension", "instance_storage_bloat",
           "temporary_ttl_exceeded", "persistent_ttl_exceeded">>
Errors == {"temporary_critical_type", "lifecycle_mismatch"}

ASSUME LintAssumption ==
  /\ Attributes \subseteq Seq(Options) /\ MaxAttributes \in Nat \ {0}
  /\ Crates \subseteq Seq(FileType)
  /\ \A c \in Crates : \A i \in DOMAIN c : c[i].declares => c[i].kind = "source"
  /\ \A i \in IgnoreLists : i \subseteq {Rules[r] : r \in 1 .. Len(Rules)}

VARIABLES
  attrs,      \* the attributes of the entry
  crate,      \* the files, in the order main sorts them
  ignored,    \* rules switched off
  deny,       \* --deny-warnings
  compiled,   \* the macro's verdict, "none" before
  file,       \* the file in progress
  decl,       \* the linter's view of the entry in it
  rule,       \* rules run on it so far
  findings,   \* the rules behind the findings, in the order found
  exit        \* the linter's exit code, -1 before

input == <<attrs, crate, ignored, deny>>
vars == <<input, compiled, file, decl, rule, findings, exit>>

NotScanned == [lifecycle |-> "none", critical |-> FALSE]
NotHere == [lifecycle |-> "elsewhere", critical |-> FALSE]

Init ==
  /\ attrs \in UNION {[1 .. n -> Attributes] : n \in 1 .. MaxAttributes}
  /\ crate \in Crates
  /\ ignored \in IgnoreLists
  /\ deny \in BOOLEAN
  /\ compiled = "none"
  /\ file = 1
  /\ decl = NotScanned
  /\ rule = 0
  /\ findings = <<>>
  /\ exit = -1

\* The compiler expands the entry; the linter only runs on what compiles.
Expand ==
  /\ compiled = "none"
  /\ compiled' = Verdict(MergedOpts(attrs))
  /\ UNCHANGED <<input, file, decl, rule, findings, exit>>

\* parse_args: an unknown option, or --ignore without a rule.
UsageError ==
  /\ compiled = "accepted" /\ exit = -1 /\ file = 1 /\ decl = NotScanned
  /\ exit' = 2
  /\ UNCHANGED <<input, compiled, file, decl, rule, findings>>
-----------------------------------------------------------------------------
(* Files *)

Linting == compiled = "accepted" /\ exit = -1 /\ file <= Len(crate)

\* Mutant: the first file that cannot be linted ends the run.
MutPassOver ==
  /\ Linting /\ crate[file].kind # "source"
  /\ file' = Len(crate) + 1
  /\ UNCHANGED <<input, compiled, decl, rule, findings, exit>>

\* Below a hidden or build directory, not to be read, or not to be parsed: the
\* run goes on, and its exit code will not tell.
PassOver ==
  /\ Linting /\ crate[file].kind # "source"
  /\ file' = file + 1
  /\ UNCHANGED <<input, compiled, decl, rule, findings, exit>>
-----------------------------------------------------------------------------
(* parse_storage_decl *)

\* The miniature grammar stops at the first "=", and an attribute it cannot
\* read to its end is passed over.
Unreadable(attr) == \E i \in 1 .. Len(attr) : attr[i] \in Valued

Seen(attr) == IF Unreadable(attr) THEN NotScanned
              ELSE [lifecycle |-> Parsed(attr).lifecycle,
                    critical  |-> Parsed(attr).critical]

\* Mutant: an attribute replaces what earlier ones said.
MutLintMerge(merged, seen) == seen

\* The first lifecycle counts here, and persistent is the default.
LintMerge(merged, seen) ==
  [lifecycle |-> IF merged.lifecycle = "none" THEN seen.lifecycle
                                              ELSE merged.lifecycle,
   critical  |-> merged.critical \/ seen.critical]

\* Mutant: without the default.
MutLintDecl(as) ==
  FoldLeft(LAMBDA m, a : LintMerge(m, Seen(a)), NotScanned, as)

LintDecl(as) ==
  LET merged == FoldLeft(LAMBDA m, a : LintMerge(m, Seen(a)), NotScanned, as) IN
  [merged EXCEPT !.lifecycle = IF @ = "none" THEN "persistent" ELSE @]

\* scan_file, of the file in progress and no other.
Scan ==
  /\ Linting /\ crate[file].kind = "source"
  /\ decl = NotScanned
  /\ decl' = IF crate[file].declares THEN LintDecl(attrs) ELSE NotHere
  /\ UNCHANGED <<input, compiled, file, rule, findings, exit>>

\* The functions it finds in a file.
Visited(i) == {n \in 1 .. Len(crate[i].fns) : crate[i].fns[n].visited}
FnsOf(i) == {crate[i].fns[n] : n \in Visited(i)}
-----------------------------------------------------------------------------
(* The rules *)

\* The chain's key_variant is found among the declarations of its file; no
\* key is looked for in an instance chain.
Declared(c) == c.named /\ c.lifecycle # "instance" /\ decl # NotHere

Writes(c) == c.method \in Writers

\* extend_ttl(key, threshold, extend_to): the target is the third argument,
\* which instance().extend_ttl(threshold, extend_to) does not have.
TargetOver(c) == c.method = "extend_ttl" /\ c.lifecycle # "instance" /\ c.over

Chains(fn) == {fn.chains[i] : i \in 1 .. Len(fn.chains)}

\* Mutant: looked for in the whole file.
MutHasTtlCall(fn) ==
  \E g \in FnsOf(file) : g.bumps \/ \E c \in Chains(g) : c.method \in TtlMethods

\* FnVisitor, over one function's body.
HasTtlCall(fn) == fn.bumps \/ \E c \in Chains(fn) : c.method \in TtlMethods

Flags(r, fn, c) ==
  CASE r = "temporary_critical_type" ->
         c.lifecycle = "temporary" /\ Writes(c)
         /\ ((Declared(c) /\ decl.critical) \/ "critical" \in c.type)
    [] r = "lifecycle_mismatch" ->
         Declared(c) /\ decl.lifecycle # c.lifecycle
    [] r = "missing_ttl_extension" ->
         c.lifecycle # "instance" /\ Writes(c) /\ ~HasTtlCall(fn)
    [] r = "instance_storage_bloat" ->
         c.lifecycle = "instance" /\ Writes(c)
         /\ (c.in_loop \/ "collection" \in c.type)
    [] r = "temporary_ttl_exceeded" ->
         c.lifecycle = "temporary" /\ TargetOver(c)
    [] r = "persistent_ttl_exceeded" ->
         c.lifecycle \in {"persistent", "instance"} /\ TargetOver(c)

\* One finding of rule r for every chain of the file in progress it flags.
Found(r) ==
  LET fns == crate[file].fns
      flagged(n) == {i \in 1 .. Len(fns[n].chains) :
                       Flags(r, fns[n], fns[n].chains[i])}
      all == UNION {{n} \X flagged(n) : n \in Visited(file)}
  IN [i \in 1 .. Cardinality(all) |-> r]

\* run_all, one rule at a time; after the last, main takes the next file.
RunRule ==
  LET r == Rules[rule + 1] IN
  /\ Linting /\ decl # NotScanned
  /\ findings' = IF r \in ignored THEN findings ELSE findings \o Found(r)
  /\ IF rule + 1 < Len(Rules)
       THEN rule' = rule + 1 /\ UNCHANGED <<file, decl>>
       ELSE rule' = 0 /\ file' = file + 1 /\ decl' = NotScanned
  /\ UNCHANGED <<input, compiled, exit>>

Failed == \E i \in 1 .. Len(findings) : findings[i] \in Errors \/ deny

Report ==
  /\ compiled = "accepted" /\ exit = -1 /\ file > Len(crate)
  /\ exit' = IF Failed THEN 1 ELSE 0
  /\ UNCHANGED <<input, compiled, file, decl, rule, findings>>

Next == Expand \/ UsageError \/ PassOver \/ Scan \/ RunRule \/ Report

Spec == Init /\ [][Next]_vars
-----------------------------------------------------------------------------
(* Properties *)

Opts == MergedOpts(attrs)

\* The type of every variable that changes (the input does not); a scanned
\* entry has a lifecycle, and only rules have findings.
TypeOK ==
  /\ compiled \in {"none", "accepted", "no lifecycle", "critical temporary"}
  /\ file \in 1 .. Len(crate) + 1
  /\ decl \in {NotScanned, NotHere} \cup [lifecycle: Kinds, critical: BOOLEAN]
  /\ rule \in 0 .. Len(Rules) - 1
  /\ findings \in Seq({Rules[r] : r \in 1 .. Len(Rules)})
  /\ exit \in {-1, 0, 1, 2}

\* An option is written in one of the entry's attributes.
Says(option) == \E i \in 1 .. Len(attrs) :
                  \E j \in 1 .. Len(attrs[i]) : attrs[i][j] = option

(***************************************************************************)
(* What says critical compiles to storage that survives: an entry with     *)
(* critical in any of its attributes, in any order, is never accepted with *)
(* the temporary lifecycle (merge_opts, gen_storage).                      *)
(***************************************************************************)
CriticalNeverTemporary ==
  compiled = "accepted" /\ Says("critical") => Opts.lifecycle # "temporary"

\* The files that are linted.
Linted == {i \in 1 .. Len(crate) : crate[i].kind = "source"}

(***************************************************************************)
(* The two programs together keep critical data out of temporary storage:  *)
(* if the entry compiles and a lint run with every rule on exits with 0,   *)
(* no raw write puts the critical entry into temporary storage, whatever   *)
(* the linter could not read of the attributes, as long as they name only  *)
(* one lifecycle and the write is in a function that the linter visits of  *)
(* the file that declares the entry.                                       *)
(***************************************************************************)
OneLifecycle == Cardinality({k \in Kinds : Says(k)}) = 1

CleanMeansDurable ==
  exit = 0 /\ ignored = {} /\ OneLifecycle /\ Says("critical") =>
    \A i \in Linted : crate[i].declares =>
      \A fn \in FnsOf(i) : \A c \in Chains(fn) :
        c.named /\ Writes(c) => c.lifecycle # "temporary"

(***************************************************************************)
(* A run that denies warnings and exits with 0 leaves no raw write to an   *)
(* entry with a TTL of its own in a function that never extends one, for   *)
(* every function the linter visits in a file it can parse, whatever files *)
(* it passes over, and in whatever other function the TTL is extended      *)
(* (missing_ttl_extension, main.rs).                                       *)
(***************************************************************************)
QuietMeansManaged ==
  exit = 0 /\ deny /\ "missing_ttl_extension" \notin ignored =>
    \A i \in Linted : \A fn \in FnsOf(i) :
      (\E c \in Chains(fn) : Writes(c) /\ c.lifecycle # "instance") =>
        fn.bumps \/ \E c \in Chains(fn) : c.method \in TtlMethods

(***************************************************************************)
(* Where the linter can read the attributes, it sees the entry the way the *)
(* compiler does, so that lifecycle_mismatch raises no false alarm.        *)
(***************************************************************************)
Readable == \A i \in 1 .. Len(attrs) : ~Unreadable(attrs[i])

SameEntry ==
  decl \notin {NotScanned, NotHere} /\ Readable /\ OneLifecycle =>
    decl.lifecycle = Opts.lifecycle /\ decl.critical = Opts.critical

(***************************************************************************)
(* no_bump on an entry: "opt out; manage TTL yourself"                     *)
(* (storage-guide.md:97), unless another option asks for bumping.  The     *)
(* code does not keep this.                                                *)
(***************************************************************************)
NoBumpIsKept ==
  compiled = "accepted" /\ Says("no_bump") /\ ~Says("auto_bump") /\
    ~Says("auto_bump=true") => ~Opts.auto_bump
=============================================================================
