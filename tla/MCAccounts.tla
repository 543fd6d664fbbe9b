------------------------------ MODULE MCAccounts ------------------------------
(***************************************************************************)
(* An instance of Accounts for TLC.  Ids and users are interchangeable.    *)
(***************************************************************************)
EXTENDS Accounts, TLC

Symmetry == Permutations(Users) \union Permutations(Portfolios)
                \union Permutations(Goals) \union Permutations(Requests)
=============================================================================
