------------------------------- MODULE Estate -------------------------------
(***************************************************************************)
(* The account read model, as the Repository implementations read it: the  *)
(* tables of migrations/0001_init.sql, the calls of repository.go, and     *)
(* what each selects.                                                      *)
(*                                                                         *)
(* A row is its place in the order in which its table is listed: account   *)
(* ids for accounts; account id, then type or transaction id for the two   *)
(* tables that refer to them.                                              *)
(***************************************************************************)
EXTENDS Integers, Sequences, FiniteSets

CONSTANTS
    Accounts,        \* rows of accounts.accounts
    Balances, Transactions, \* rows of the tables that refer to it
    Owner,           \* Owner[b]: the account_id of such a row
    Idents, Identification, \* the identification of each account
    Interim,         \* the balance rows of type InterimAvailable
    Bad              \* rows whose amount NewAmount rejects

Single == {"GetAccount", "FindByIdentification"}
Scoped == {"ListBalances", "ListTransactions", "AvailableBalance"}
Bulk   == {"ListAccounts", "ListAllBalances", "ListAllTransactions"}
Ops    == Single \cup Scoped \cup Bulk

NoKey == -1

Keys(op) ==
    CASE op \in Bulk                  -> {NoKey}
      [] op = "FindByIdentification"  -> Idents
      [] OTHER                        -> Accounts

Queries == {q \in [op : Ops, key : Accounts \cup Idents \cup {NoKey}] : q.key \in Keys(q.op)}

Rows == Accounts \cup Balances \cup Transactions
Estates == [accounts : SUBSET Accounts, balances : SUBSET Balances,
            transactions : SUBSET Transactions]
Values == [found : BOOLEAN, rows : Seq(Rows)]

ASSUME RowsAssumption ==
    /\ Accounts \cup Idents \subseteq Nat
    /\ Balances \cup Transactions \subseteq Nat
    /\ Owner \in [Balances \cup Transactions -> Accounts]
    /\ Identification \in [Accounts -> Idents]
    /\ Interim \subseteq Balances
    /\ Bad \subseteq Balances \cup Transactions
    \* PRIMARY KEY (account_id, type)
    /\ \A b, c \in Interim : Owner[b] = Owner[c] => b = c

NotFound == [found |-> FALSE, rows |-> << >>]

\* REFERENCES accounts.accounts (account_id)
ForeignKeys(d) == \A b \in d.balances \cup d.transactions : Owner[b] \in d.accounts

-----------------------------------------------------------------------------
(* The rows of a call.                                                     *)

Table(op) ==
    CASE op \in Single \cup {"ListAccounts"} -> "accounts"
      [] op \in {"ListBalances", "AvailableBalance", "ListAllBalances"} -> "balances"
      [] OTHER -> "transactions"

Matches(q, row) ==
    CASE q.op \in Bulk                  -> TRUE
      [] q.op = "GetAccount"            -> row = q.key
      [] q.op = "FindByIdentification"  -> Identification[row] = q.key
      [] OTHER                          -> Owner[row] = q.key

Selected(q, d) == {row \in d[Table(q.op)] : Matches(q, row)}

\* S in the order of its table.
IsListing(s, S) ==
    /\ s \in Seq(S)
    /\ \A row \in S : \E i \in 1..Len(s) : s[i] = row
    /\ \A i, j \in 1..Len(s) : i < j => s[i] < s[j]

\* What the statement of a call may return: without a LIMIT or an ORDER BY a
\* single-row query gives any of the rows that match.
Listings(q, d) ==
    LET S == Selected(q, d) IN
    IF q.op \in Single THEN IF S = {} THEN {<< >>} ELSE {<<row>> : row \in S}
    ELSE {s \in [1..Cardinality(S) -> S] : IsListing(s, S)}

\* availableBalance: the InterimAvailable row, if there is one.
InterimOf(s) ==
    LET I == {i \in 1..Len(s) : s[i] \in Interim}
    IN IF I = {} THEN << >> ELSE <<s[CHOOSE i \in I : TRUE]>>

\* What a call makes of the rows it was given.
Made(q, s) ==
    IF q.op \in Single /\ s = << >> THEN NotFound
    ELSE [found |-> TRUE,
          rows |-> IF q.op = "AvailableBalance" THEN InterimOf(s) ELSE s]

Readable(s) == \A i \in 1..Len(s) : s[i] \notin Bad

=============================================================================
