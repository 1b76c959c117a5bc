--------------------------- MODULE MCKeeperDaemon ----------------------------
(***************************************************************************)
(* A small instance of KeeperDaemon: one contract with two entries, and    *)
(* configurations of one, two and three ledgers between polls, the latter  *)
(* two with and without the opt-out that admits the third.                 *)
(***************************************************************************)
EXTENDS KeeperDaemon

CONSTANTS k1, k2

OneWatch == <<{k1, k2}>>
OneThreshold == <<1>>
OneExtendTo == <<3>>
UnitSize == [k \in Keys |-> 1]

Settings(secs, short) ==
  [poll_interval_secs |-> secs, allow_short_threshold |-> short,
   min_signer_balance_stroops |-> 1]

Files == {Settings(5, FALSE), Settings(9, FALSE), Settings(15, FALSE),
          Settings(15, TRUE)}
=============================================================================
