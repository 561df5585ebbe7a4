------------------------- MODULE MCBlockedAccounts -------------------------
(* Instantiates BlockedAccounts for TLC. *)
EXTENDS BlockedAccounts, TLC

Symmetric == Permutations(Mutators) \cup Permutations(Accounts)
=============================================================================
