---------------------------- MODULE MCAccounts ----------------------------
(***************************************************************************)
(* Small estates for AccountsService.  Account 1, in credit, is there from *)
(* the start; 2, overdrawn, and 3, whose balance does not parse, may come  *)
(* later and carry the same identification, which the schema allows.  A    *)
(* balance row ab is of account a; b = 0 is InterimAvailable.              *)
(***************************************************************************)
EXTENDS AccountsService, TLC

CONSTANTS c1

MCAccountIds == {1, 2, 3}
MCBalances == {10, 11, 20, 30}
MCTransactions == {15}
MCOwner == [b \in MCBalances \cup MCTransactions |-> b \div 10]
MCInterim == {10, 20, 30}
MCBad == {30}
MCSeed == [accounts |-> {1}, balances |-> {10, 11}, transactions |-> {15}]
MCIdents == {7, 8, 9}
MCIdentification == (1 :> 7) @@ (2 :> 8) @@ (3 :> 8)
MCCurrencies == {"GBP", "EUR"}

Gbp(n)  == [value |-> n, currency |-> "GBP"]
Eur(n)  == [value |-> n, currency |-> "EUR"]
Invalid == [value |-> 0, currency |-> BadCurrency]

Cr(amount) == [indicator |-> Credit, amount |-> amount]
Db(amount) == [indicator |-> Debit, amount |-> amount]

MCEntry ==
    (10 :> Cr(Gbp(2))) @@ (11 :> Cr(Gbp(5))) @@ (15 :> Db(Gbp(1)))
    @@ (20 :> Db(Gbp(1))) @@ (30 :> Cr(Invalid))

Read(ep, cid, key) ==
    [ep |-> ep, cid |-> cid, key |-> key, amount |-> ZeroAmount]
Confirm(ident, amount) ==
    [ep |-> Funds, cid |-> NoConsent, key |-> ident, amount |-> amount]

\* One permission of each family, so that every endpoint is refused to some
\* consent for want of a permission.  Nothing in a View ties its permissions
\* to its type.
AllGrants ==
    {[type |-> TypeAccountAccess, perms |-> {"ReadAccountsBasic"}],
     [type |-> TypeAccountAccess, perms |-> {"ReadBalances"}],
     [type |-> TypeAccountAccess, perms |-> {"ReadTransactionsDebits"}],
     [type |-> TypeDomesticPayment, perms |-> {"ReadBalances"}]}

AllCalls ==
    {Read(ep, cid, NoKey) : ep \in BulkEndpoints, cid \in {c1, NoConsent}}
    \cup {Read(ep, c1, a) : ep \in ScopedEndpoints, a \in {1, 2}}
    \cup {Confirm(7, amt) : amt \in {Gbp(1), Gbp(2), Gbp(3), Eur(1)}}
    \cup {Confirm(8, Gbp(0)), Confirm(8, Gbp(-1)), Confirm(9, Gbp(1))}
    \cup {Confirm(NoKey, Gbp(1)), Confirm(7, Invalid)}

\* Two requests at once, over two accounts with one balance row each: the calls
\* whose answers can be set against each other.
PairAccountIds == {1, 2}
PairBalances == {10, 20}
PairTransactions == {}
PairOwner == [b \in PairBalances |-> b \div 10]
PairSeed == [accounts |-> {1}, balances |-> {10}, transactions |-> {}]
PairIdentification == (1 :> 7) @@ (2 :> 8)
PairEntry == (10 :> Cr(Gbp(2))) @@ (20 :> Db(Gbp(1)))
PairIdents == {7, 8}
PairBad == {}

PairGrants ==
    {[type |-> TypeAccountAccess, perms |-> {"ReadAccountsBasic", "ReadBalances"}]}

PairCalls ==
    {Read("allBalances", c1, NoKey), Read("getAccount", c1, 2),
     Confirm(7, Gbp(1)), Confirm(7, Gbp(3)),
     Confirm(8, Gbp(-2)), Confirm(8, Gbp(1))}

=============================================================================
