-------------------------- MODULE MCContractStorage -------------------------
(***************************************************************************)
(* Small instances of ContractStorage: one entry of each lifecycle, with   *)
(* policies that ask for more than the maxima the code knows, of which one *)
(* is below the network's and the other above.                             *)
(***************************************************************************)
EXTENDS ContractStorage

CONSTANTS balance, nonce, admin

MCLifecycle == [k \in Keys |-> CASE k = nonce -> "temporary"
                                 [] k = admin -> "instance"
                                 [] OTHER     -> "persistent"]

MCAutoBump == Keys \ {nonce}
MCThreshold == [k \in Keys |-> 1]
MCExtendTo == [k \in Keys |-> IF k = nonce THEN 2 ELSE 4]
MCMinTtl == [c \in Kinds |-> 0]
MCMaxTtl == [c \in Kinds |-> 2]
=============================================================================
