-------------------------- MODULE MCRestorePlanner --------------------------
(***************************************************************************)
(* Small instances of RestorePlanner: two contracts deployed from the same *)
(* wasm, so that they share the code entry, and a data entry.              *)
(***************************************************************************)
EXTENDS RestorePlanner

CONSTANTS c1, c2, i1, i2, code, data

MCInstance == [c \in {c1, c2} |-> IF c = c1 THEN i1 ELSE i2]
MCCode == [c \in {c1, c2} |-> code]

\* Both contracts.
TwoContracts == <<c1, c2>>
TwoData == <<{data}, {}>>

\* A contract listed twice, with different keys, around another.
TwiceContracts == <<c1, c2, c1>>
TwiceData == <<{}, {}, {data}>>
=============================================================================
