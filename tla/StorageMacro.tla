---------------------------- MODULE StorageMacro -----------------------------
(***************************************************************************)
(* How storage! reads the attributes of an entry (soroban-storage-macros). *)
(* An attribute #[storage(...)] is a sequence of options; those that carry *)
(* a value ("policy = ...", "auto_bump = ...") are options of their own    *)
(* here.  Options are read in order, attributes merged in order.           *)
(***************************************************************************)
EXTENDS Integers, Sequences, SequencesExt

Kinds == {"temporary", "persistent", "instance"}
Plain == Kinds \cup {"critical", "auto_bump", "no_bump"}
Valued == {"policy=", "auto_bump=true", "auto_bump=false"}
Options == Plain \cup Valued

\* StorageOpts::parse, one option at a time.  Other options, and values that
\* cannot be parsed, are compile errors.
ParseStart == [lifecycle |-> "none", critical |-> FALSE, auto_bump |-> TRUE,
               policy |-> FALSE]

ReadOption(opts, option) ==
  CASE option \in Kinds                           -> [opts EXCEPT !.lifecycle = option]
    [] option = "critical"                        -> [opts EXCEPT !.critical = TRUE]
    [] option \in {"auto_bump", "auto_bump=true"} -> [opts EXCEPT !.auto_bump = TRUE]
    [] option \in {"no_bump", "auto_bump=false"}  -> [opts EXCEPT !.auto_bump = FALSE]
    [] option = "policy="                         -> [opts EXCEPT !.policy = TRUE]

Parsed(attr) == FoldLeft(ReadOption, ParseStart, attr)

\* Mutant: the last attribute decides about critical, too.
MutMerge(merged, parsed) ==
  [lifecycle |-> IF parsed.lifecycle # "none" THEN parsed.lifecycle
                                              ELSE merged.lifecycle,
   critical  |-> parsed.critical,
   auto_bump |-> parsed.auto_bump,
   policy    |-> merged.policy \/ parsed.policy]

\* The loop body of merge_opts.
Merge(merged, parsed) ==
  [lifecycle |-> IF parsed.lifecycle # "none" THEN parsed.lifecycle
                                              ELSE merged.lifecycle,
   critical  |-> merged.critical \/ parsed.critical,
   auto_bump |-> parsed.auto_bump,
   policy    |-> merged.policy \/ parsed.policy]

MergeStart == [lifecycle |-> "none", critical |-> FALSE, auto_bump |-> FALSE,
               policy |-> FALSE]

MergedOpts(attrs) ==
  FoldLeft(LAMBDA merged, attr : Merge(merged, Parsed(attr)), MergeStart, attrs)

\* gen_storage: what it refuses, and what it generates constants from.
Verdict(opts) ==
  CASE opts.lifecycle = "none"                          -> "no lifecycle"
    [] opts.critical /\ opts.lifecycle = "temporary"    -> "critical temporary"
    [] OTHER                                            -> "accepted"
=============================================================================
