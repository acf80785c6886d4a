--------------------------- MODULE MCPgRepository ---------------------------
(***************************************************************************)
(* Two estates for PgRepository.  In the first, accounts 1 and 2 have the  *)
(* same identification and the balance row of 2 does not parse.  The       *)
(* second is one account, for more callers than connections.               *)
(***************************************************************************)
EXTENDS PgRepository, TLC

CONSTANTS r1, r2, r3

MCAccounts == {1, 2}
MCBalances == {12, 22}
MCTransactions == {21}
MCOwner == (12 :> 1) @@ (22 :> 2) @@ (21 :> 2)
MCIdents == {7, 8}
MCIdentification == (1 :> 7) @@ (2 :> 7)
MCInterim == {12, 22}
MCBad == {22}

OneAccount == {1}
OneBalance == {12}
NoTransactions == {}
OneOwner == 12 :> 1
OneIdent == {7}
OneIdentification == 1 :> 7

PoolCalls ==
    {[op |-> "ListBalances", key |-> 1], [op |-> "ListAllBalances", key |-> NoKey]}

CallerSymmetry == Permutations(Callers)

=============================================================================
