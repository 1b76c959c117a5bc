------------------------------ MODULE MCVault -------------------------------
(***************************************************************************)
(* A small instance of Vault, with TTLs scaled to a few ledgers: a day is  *)
(* one ledger, seven days two, fourteen three and thirty four.             *)
(***************************************************************************)
EXTENDS Vault

MCPolicyOf == [k \in {"Balance", "Grant", "Admin", "Nonce"} |->
                 IF k = "Nonce" THEN <<1, 4>> ELSE <<2, 4>>]
MCMinTtl == [c \in Kinds |-> IF c = "temporary" THEN 0 ELSE 1]
MCMaxTtl == [c \in Kinds |-> IF c = "temporary" THEN 4 ELSE 8]
=============================================================================
