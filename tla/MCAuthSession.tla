-------------------------- MODULE MCAuthSession --------------------------
(***************************************************************************)
(* Two tabs of one browser and two accounts.                               *)
(***************************************************************************)
EXTENDS AuthSession, TLC

Symmetry == Permutations(Tabs) \union Permutations(Accounts)
=============================================================================
