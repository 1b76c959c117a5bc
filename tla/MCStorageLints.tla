--------------------------- MODULE MCStorageLints ---------------------------
(***************************************************************************)
(* Small instances of StorageLints: the attributes and crates the .cfg     *)
(* files pick from.                                                        *)
(***************************************************************************)
EXTENDS StorageLints

\* Readable attributes, and ones with a value in them.
AllAttributes ==
  {<<"persistent">>, <<"temporary">>, <<"instance">>, <<"critical">>,
   <<"persistent", "critical">>, <<"no_bump">>, <<"policy=">>,
   <<"temporary", "policy=">>, <<"persistent", "policy=">>,
   <<"critical", "auto_bump=false">>}

\* Reads, writes and extensions with what the rules look at in each.
Alone ==
  {c \in ChainType :
     /\ c.method \in {"set", "get", "extend_ttl"}
     /\ c.method # "extend_ttl" => ~c.over
     /\ c.method # "set" => c.type = {} /\ ~c.in_loop
     /\ c.type # {} => ~c.named}

Chain(lifecycle, method, named) ==
  [lifecycle |-> lifecycle, method |-> method, named |-> named, type |-> {},
   over |-> FALSE, in_loop |-> FALSE]

Fn(chains, bumps) == [chains |-> chains, bumps |-> bumps, visited |-> TRUE]
Nested(chains) == [chains |-> chains, bumps |-> FALSE, visited |-> FALSE]
Source(fns, declares) == [fns |-> fns, declares |-> declares, kind |-> "source"]
Stray(kind) == [fns |-> <<Fn(<<Chain("temporary", "set", FALSE)>>, FALSE)>>,
                declares |-> FALSE, kind |-> kind]

\* One function, with one call chain.
OneFn == {<<Source(<<Fn(<<c>>, b)>>, TRUE)>> : c \in Alone, b \in BOOLEAN}

\* Two functions in one file, in two, or one with both chains: one writes the
\* entry, the other extends it, reads it, or writes it under another lifecycle.
Pairs == {Chain(l, m, TRUE) : l \in {"persistent", "temporary"},
                              m \in {"try_update", "bump", "get"}}

TwoFns ==
  UNION {{<<Source(<<Fn(<<c>>, FALSE), Fn(<<d>>, FALSE)>>, TRUE)>>,
          <<Source(<<Fn(<<c, d>>, FALSE)>>, TRUE)>>,
          <<Source(<<Fn(<<c>>, FALSE)>>, TRUE),
            Source(<<Fn(<<d>>, FALSE)>>, FALSE)>>}
         : c \in Pairs, d \in Pairs}

\* A file that is not linted, before or after one that is.
WithStray ==
  UNION {{<<Stray(k), Source(<<Fn(<<c>>, FALSE)>>, TRUE)>>,
          <<Source(<<Fn(<<c>>, FALSE)>>, TRUE), Stray(k)>>}
         : k \in {"not collected", "unreadable", "unparseable"}, c \in Pairs}

\* A function that the linter does not visit, before or after one that it does.
WithNested ==
  UNION {{<<Source(<<Nested(<<c>>), Fn(<<d>>, FALSE)>>, TRUE)>>,
          <<Source(<<Fn(<<d>>, FALSE), Nested(<<c>>)>>, TRUE)>>}
         : c \in {Chain("temporary", m, TRUE) : m \in {"try_update", "bump"}},
           d \in Pairs}

AllCrates == OneFn \cup TwoFns \cup WithStray \cup WithNested

NothingIgnored == {{}}
OneIgnored == {{}} \cup {{Rules[r]} : r \in 1 .. Len(Rules)}
=============================================================================
