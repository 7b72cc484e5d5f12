----------------------------- MODULE MCVaultSync -----------------------------
(* One node with two names, and a description of several paragraphs of      *)
(* which only the first is read back, for TLC.                              *)
EXTENDS VaultSync

CONSTANTS short, long

Greatest == [S \in (SUBSET Names) \ {{}} |-> CHOOSE n \in S : \A m \in S : m <= n]
Lead     == [d \in Descs |-> short]
Doc1     == [name |-> 1, desc |-> short]
Two      == {Doc1, [name |-> 2, desc |-> long]}
=============================================================================
