----------------------------- MODULE MCBackends -----------------------------
(***************************************************************************)
(* The seed of migrations/0001_init.sql and seedAccounts: 1 is account     *)
(* 22289, 2 is 31820, each with one balance row, 1 with two transactions   *)
(* and 2 with one.  Account 3, with a balance, may come later.             *)
(***************************************************************************)
EXTENDS Backends, TLC

CONSTANT r1

MCAccounts == {1, 2, 3}
MCBalances == {10, 20, 30}
MCTransactions == {11, 12, 21}
MCOwner == [b \in MCBalances \cup MCTransactions |-> b \div 10]
MCIdents == {7, 8, 9}
MCIdentification == (1 :> 7) @@ (2 :> 8) @@ (3 :> 8)
MCInterim == MCBalances
MCBad == {}
MCOrder == <<1, 2>>
MCSeedBalances == (1 :> <<10>>) @@ (2 :> <<20>>)
MCSeedTransactions == (1 :> <<11, 12>>) @@ (2 :> <<21>>)

=============================================================================
