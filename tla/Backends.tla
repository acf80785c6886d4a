------------------------------ MODULE Backends ------------------------------
(***************************************************************************)
(* internal/accounts/memrepo.go, next to the Postgres repository on the    *)
(* estate the first migration file seeds.  MemRepository is never written  *)
(* after NewMemRepository, so a call of it is a function of its arguments. *)
(***************************************************************************)
EXTENDS PgRepository

Seqs == INSTANCE SequencesExt

CONSTANTS
    Order,           \* the account ids in the order of seedAccounts
    SeedBalances,    \* SeedBalances[a], SeedTransactions[a]: the rows of an
    SeedTransactions \* account, as seedAccounts lists them

Stored == Seqs!ToSet(Order)

SeedEstate ==
    [accounts |-> Stored,
     balances |-> UNION {Seqs!ToSet(SeedBalances[a]) : a \in Stored},
     transactions |-> UNION {Seqs!ToSet(SeedTransactions[a]) : a \in Stored}]

\* seedAccounts lists accounts, and the rows of each, in the order of the
\* tables, in which the rows of an account follow those of the one before; and
\* no two of its accounts have one identification.
ASSUME SeedAssumption ==
    /\ SeedEstate \in Estates
    /\ IsListing(Order, Stored)
    /\ \A rowsOf \in {SeedBalances, SeedTransactions}, a \in Stored :
          /\ IsListing(rowsOf[a], Seqs!ToSet(rowsOf[a]))
          /\ \A row \in Seqs!ToSet(rowsOf[a]) : Owner[row] = a
    /\ \A b, c \in Balances : Owner[b] < Owner[c] => b < c
    /\ \A b, c \in Transactions : Owner[b] < Owner[c] => b < c
    /\ \A a, b \in Stored : Identification[a] = Identification[b] => a = b

OfAll(rowsOf) == Seqs!FlattenSeq([i \in DOMAIN Order |-> rowsOf[Order[i]]])

FirstHolder(ident) ==
    Seqs!SelectInSeq(Order, LAMBDA a : Identification[a] = ident)

Found(rows) == [found |-> TRUE, rows |-> rows]

\* What a Go map holds for a key: nothing, for an account that is not there.
RowsIn(rowsOf, a) == IF a \in Stored THEN rowsOf[a] ELSE << >>

\* Faulty: the account map is not consulted.
RefusedNever(q) == FALSE

Refused(q) == q.op \in Scoped \cup {"GetAccount"} /\ q.key \notin Stored

MemRead(q) ==
    LET rowsOf == IF Table(q.op) = "balances" THEN SeedBalances ELSE SeedTransactions
        holder == FirstHolder(q.key)
    IN IF Refused(q) THEN NotFound
       ELSE CASE q.op = "ListAccounts"            -> Found(Order)
              [] q.op \in Bulk \ {"ListAccounts"} -> Found(OfAll(rowsOf))
              [] q.op = "FindByIdentification"    ->
                   IF holder = 0 THEN NotFound ELSE Found(<<Order[holder]>>)
              [] q.op = "GetAccount"              -> Found(<<q.key>>)
              [] q.op = "AvailableBalance"        -> Found(InterimOf(RowsIn(rowsOf, q.key)))
              [] OTHER                            -> Found(RowsIn(rowsOf, q.key))

\* The database right after the first migration file.
SeedInit == Init /\ db = SeedEstate

SeedSpec == SeedInit /\ [][Next]_pgVars

\* "both backends behave identically" (NewMemRepository): as long as nothing
\* has been added to the seed, a call that Postgres answers is answered the
\* same, rows, order and ErrNotFound, by the memory repository.
BackendsAgree ==
    db = SeedEstate =>
        \A r \in Callers :
            (pc[r] = "done" /\ res[r] # NoResult) => res[r] = MemRead(args[r])

=============================================================================
