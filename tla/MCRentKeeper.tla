---------------------------- MODULE MCRentKeeper ----------------------------
(***************************************************************************)
(* Small instances of RentKeeper: the watches and policies the .cfg files  *)
(* pick from.                                                              *)
(***************************************************************************)
EXTENDS RentKeeper

CONSTANTS k1, k2

\* Two contracts deployed from the same wasm: they share a code entry, and
\* protect it with different policies.
SharedKeys == <<{k1}, {k1, k2}>>
SharedThreshold == <<1, 2>>
SharedExtendTo == <<2, 3>>

\* Two contracts with an entry each.
ApartKeys == <<{k1}, {k2}>>
ApartThreshold == <<1, 1>>
ApartExtendTo == <<2, 2>>

UnitSize == [k \in Keys |-> 1]
=============================================================================
