---------------------------- MODULE PgRepository ----------------------------
(***************************************************************************)
(* internal/accounts/pgrepo.go over a pgxpool: each call is one or two     *)
(* statements, each on a connection of its own, and rows come off a        *)
(* connection one by one.  Callers run concurrently and contend for        *)
(* MaxConns connections (pkg/pg.Connect asks for 10).                      *)
(*                                                                         *)
(* pc[r]:  "idle"                        stage[r]: the statement it is at, *)
(*         "acquire"  waiting in the pool          "exists" of             *)
(*         "query"    statement sent               assertAccountExists or  *)
(*         "rows"     between two rows             "select", the call's    *)
(*         "done"     returned, value res[r]       own                     *)
(*                                                                         *)
(* pgxpool is external: a connection goes back when a Query or QueryRow    *)
(* fails, when Scan has read the row of a QueryRow, when Next returns      *)
(* FALSE, or when Rows is closed.                                          *)
(***************************************************************************)
EXTENDS Estate

CONSTANTS
    Callers,  \* the goroutines that call the repository
    Calls,    \* the calls they make
    MaxConns, \* the size of the pool
    NoResult

VARIABLES
    db,    \* [accounts, balances, transactions]: the rows committed
    free,  \* connections nobody holds
    pc, stage,
    args,  \* [op, key] of the call
    snap,  \* the rows of the "select" statement, as of when it ran
    n,     \* how many of them are scanned
    res    \* what the call returned: a value, or NoResult for an error

pgVars == <<db, free, pc, stage, args, snap, n, res>>

ASSUME PoolAssumption ==
    /\ MaxConns \in Nat \ {0}
    /\ IsFiniteSet(Callers)
    /\ Calls \subseteq Queries
    /\ NoResult \notin Values

-----------------------------------------------------------------------------
Init ==
    /\ db \in Estates /\ ForeignKeys(db)
    /\ free = MaxConns
    /\ pc = [r \in Callers |-> "idle"]
    /\ stage = [r \in Callers |-> "select"]
    /\ args = [r \in Callers |-> [op |-> "ListAccounts", key |-> NoKey]]
    /\ snap = [r \in Callers |-> << >>]
    /\ n = [r \in Callers |-> 0]
    /\ res = [r \in Callers |-> NoResult]

Call(r, q) ==
    /\ pc[r] \in {"idle", "done"}
    /\ pc' = [pc EXCEPT ![r] = "acquire"]
    /\ stage' = [stage EXCEPT ![r] = IF q.op \in Scoped THEN "exists" ELSE "select"]
    /\ args' = [args EXCEPT ![r] = q]
    /\ snap' = [snap EXCEPT ![r] = << >>]
    /\ n' = [n EXCEPT ![r] = 0]
    /\ res' = [res EXCEPT ![r] = NoResult]
    /\ UNCHANGED <<db, free>>

Acquire(r) ==
    /\ pc[r] = "acquire"
    /\ free > 0 /\ free' = free - 1
    /\ pc' = [pc EXCEPT ![r] = "query"]
    /\ UNCHANGED <<db, stage, args, snap, n, res>>

Release == free' = free + 1

Return(r, v) ==
    /\ pc' = [pc EXCEPT ![r] = "done"]
    /\ res' = [res EXCEPT ![r] = v]
    /\ UNCHANGED <<db, stage, args, snap, n>>

-----------------------------------------------------------------------------
(* assertAccountExists.                                                    *)

\* Faulty: the row is left open until the call returns.
ExistsKeepsRow(r) ==
    /\ pc[r] = "query" /\ stage[r] = "exists"
    /\ args[r].key \in db.accounts
    /\ pc' = [pc EXCEPT ![r] = "acquire"]
    /\ stage' = [stage EXCEPT ![r] = "select"]
    /\ UNCHANGED <<db, free, args, snap, n, res>>

Exists(r) ==
    /\ pc[r] = "query" /\ stage[r] = "exists"
    /\ args[r].key \in db.accounts
    /\ Release
    /\ pc' = [pc EXCEPT ![r] = "acquire"]
    /\ stage' = [stage EXCEPT ![r] = "select"]
    /\ UNCHANGED <<db, args, snap, n, res>>

ExistsNot(r) ==
    /\ pc[r] = "query" /\ stage[r] = "exists"
    /\ args[r].key \notin db.accounts
    /\ Release
    /\ Return(r, NotFound)

-----------------------------------------------------------------------------
(* The statement of the call.                                              *)

\* The server takes its snapshot when the statement starts.
Select(r) ==
    /\ pc[r] = "query" /\ stage[r] = "select"
    /\ \E s \in Listings(args[r], db) : snap' = [snap EXCEPT ![r] = s]
    /\ pc' = [pc EXCEPT ![r] = "rows"]
    /\ UNCHANGED <<db, free, stage, args, n, res>>

\* Faulty: an amount that does not parse is skipped over.
ScanUnparsed(r) ==
    /\ pc[r] = "rows" /\ n[r] < Len(snap[r])
    /\ n' = [n EXCEPT ![r] = @ + 1]
    /\ UNCHANGED <<db, free, pc, stage, args, snap, res>>

Scan(r) ==
    /\ pc[r] = "rows" /\ n[r] < Len(snap[r])
    /\ snap[r][n[r] + 1] \notin Bad
    /\ n' = [n EXCEPT ![r] = @ + 1]
    /\ UNCHANGED <<db, free, pc, stage, args, snap, res>>

\* Faulty: rows is not closed on the way out.
ScanFailsUnclosed(r) ==
    /\ pc[r] = "rows" /\ n[r] < Len(snap[r])
    /\ snap[r][n[r] + 1] \in Bad
    /\ UNCHANGED free
    /\ Return(r, NoResult)

\* NewAmount rejects what is stored: return nil, err; the deferred Close runs.
ScanFails(r) ==
    /\ pc[r] = "rows" /\ n[r] < Len(snap[r])
    /\ snap[r][n[r] + 1] \in Bad
    /\ Release
    /\ Return(r, NoResult)

RowsEnd(r) ==
    /\ pc[r] = "rows" /\ n[r] = Len(snap[r])
    /\ Release
    /\ Return(r, Made(args[r], snap[r]))

\* Faulty: return out, nil after the loop.
BrokenErrDropped(r) ==
    /\ pc[r] = "rows"
    /\ Release
    /\ Return(r, Made(args[r], SubSeq(snap[r], 1, n[r])))

\* The connection breaks, or the context is cancelled, between two rows: Next
\* returns FALSE and rows.Err() the reason, the rows so far go with it.
Broken(r) ==
    /\ pc[r] = "rows"
    /\ Release
    /\ Return(r, NoResult)

\* The statement fails, or the context is cancelled under it.
QueryFails(r) ==
    /\ pc[r] = "query"
    /\ Release
    /\ Return(r, NoResult)

\* Faulty: what was never acquired is released.
CancelledReleases(r) ==
    /\ pc[r] = "acquire"
    /\ Release
    /\ Return(r, NoResult)

\* The caller's client left while the caller waited for a connection.
Cancelled(r) ==
    /\ pc[r] = "acquire"
    /\ UNCHANGED free
    /\ Return(r, NoResult)

MigrationCommits ==
    /\ \E d \in Estates \ {db} :
          /\ ForeignKeys(d)
          /\ \A t \in DOMAIN db : db[t] \subseteq d[t]
          /\ db' = d
    /\ UNCHANGED <<free, pc, stage, args, snap, n, res>>

StatementStep(r) ==
    \/ Exists(r) \/ ExistsNot(r) \/ Select(r) \/ Scan(r) \/ ScanFails(r) \/ RowsEnd(r)
    \/ Broken(r) \/ QueryFails(r)

Next ==
    \/ \E r \in Callers :
          \/ \E q \in Calls : Call(r, q)
          \/ Acquire(r) \/ StatementStep(r) \/ Cancelled(r)
    \/ MigrationCommits

\* A statement is answered or fails, and the pool serves its waiters in turn;
\* nothing is asked of the clients' patience.
Fairness ==
    \A r \in Callers : WF_pgVars(StatementStep(r)) /\ SF_pgVars(Acquire(r))

Spec == Init /\ [][Next]_pgVars /\ Fairness

-----------------------------------------------------------------------------
(* Properties.                                                             *)

\* Every variable keeps its type.
TypeOK ==
    /\ db \in Estates /\ ForeignKeys(db)
    /\ free \in 0..MaxConns
    /\ pc \in [Callers -> {"idle", "acquire", "query", "rows", "done"}]
    /\ stage \in [Callers -> {"exists", "select"}]
    /\ args \in [Callers -> Queries]
    /\ snap \in [Callers -> Seq(Rows)]
    /\ n \in [Callers -> Nat] /\ \A r \in Callers : n[r] <= Len(snap[r])
    /\ res \in [Callers -> Values \cup {NoResult}]

Holding == {r \in Callers : pc[r] \in {"query", "rows"}}

\* No connection is lost: those nobody holds and those whose statement is under
\* way are MaxConns together, whatever fails, breaks or is cancelled, and a
\* caller that waits in the pool or has returned holds none.
NoLeak == free = MaxConns - Cardinality(Holding)

\* Every call returns, with more callers than connections and calls that need
\* two statements: nobody waits for a connection while it keeps another.
CallReturns == \A r \in Callers : pc[r] = "acquire" ~> pc[r] = "done"

-----------------------------------------------------------------------------
(* The repository implements the port.                                     *)

\* The rows at hand are a whole and readable answer.
Answering(r) == pc[r] = "rows" /\ Readable(snap[r])
Answered(r)  == pc[r] = "done" /\ res[r] # NoResult

StateOf(r) ==
    CASE pc[r] = "idle"               -> "idle"
      [] Answering(r) \/ Answered(r)  -> "answered"
      [] pc[r] = "done" /\ ~Answered(r) -> "failed"
      [] OTHER                        -> "asked"

ValueOf(r) ==
    IF Answering(r) THEN Made(args[r], snap[r])
    ELSE IF Answered(r) THEN res[r] ELSE NotFound

stateOf == [r \in Callers |-> StateOf(r)]
valueOf == [r \in Callers |-> ValueOf(r)]

\* What a call returns is what the estate was at one instant during the call,
\* although existence check, statement and rows are steps apart and migrations
\* commit between them: never a part of the rows, never an unreadable one, and
\* ErrNotFound only for an account that was not there.
Port == INSTANCE Repository WITH state <- stateOf, query <- args, value <- valueOf

ImplementsPort == Port!PortSpec
=============================================================================
