--------------------------- MODULE MCVaultChannel ---------------------------
(* VaultChannel for TLC.                                                   *)
EXTENDS VaultChannel

\* A client that reads what it is sent gets to a second message.
MCMaxMessages == [w \in Workers |-> IF w \in Reading THEN 2 ELSE 1]
=============================================================================
