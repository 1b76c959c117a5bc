----------------------------- MODULE TtlPromise -----------------------------
(***************************************************************************)
(* What the rent keeper promises, without polls, RPC calls, batches or     *)
(* transactions.  TTLs of live entries only grow, archived entries stay as *)
(* they are, and now and then the keeper vouches for a watch: it may do so *)
(* with a ledger number it read earlier, but only when every entry of the  *)
(* watch that is still live lives for more than the watch's threshold from *)
(* that ledger.  RentKeeper implements this specification.                 *)
(***************************************************************************)
EXTENDS Integers

CONSTANTS Keys, Watches, WatchKeys, Threshold

VARIABLES
  ledger,     \* the last closed ledger
  live,       \* live_until_ledger of every entry
  vouched     \* the ledger number each watch was last vouched for with

promiseVars == <<ledger, live, vouched>>

Never == -1

Archived(k) == live[k] < ledger

Outlives(k, w, reading) == live[k] > reading + Threshold[w] \/ Archived(k)

Init ==
  /\ ledger \in Nat
  /\ live \in [Keys -> Nat]
  /\ vouched = [w \in Watches |-> Never]

CloseLedger ==
  /\ ledger' = ledger + 1
  /\ UNCHANGED <<live, vouched>>

Renew ==
  /\ live' \in [Keys -> Nat]
  /\ \A k \in Keys : IF Archived(k) THEN live'[k] = live[k]
                                    ELSE live'[k] >= live[k]
  /\ UNCHANGED <<ledger, vouched>>

Vouch(w) ==
  /\ \E reading \in 0 .. ledger :
       /\ \A k \in WatchKeys[w] : Outlives(k, w, reading)
       /\ vouched' = [vouched EXCEPT ![w] = reading]
  /\ UNCHANGED <<ledger, live>>

Next == CloseLedger \/ Renew \/ \E w \in Watches : Vouch(w)

Spec == Init /\ [][Next]_promiseVars
=============================================================================
