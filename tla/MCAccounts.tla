----------------------------- MODULE MCAccounts -----------------------------
(* The administrator, one more person, one site.                            *)
EXTENDS Accounts, TLC

MCRoleAt == [p \in Person |-> "manager"]
Symmetry == Permutations(Token) \cup Permutations(Worker) \cup Permutations(Site)
=============================================================================
