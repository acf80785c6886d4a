----------------------------- MODULE Repository -----------------------------
(***************************************************************************)
(* The persistence port of internal/accounts/repository.go: what Service   *)
(* may count on, whichever implementation is behind it.  Every call that   *)
(* succeeds returns what the estate held at one instant between the call   *)
(* and its return, rows in the order of the table, or ErrNotFound if at    *)
(* that instant no account matched.  Any call may fail instead, and one    *)
(* that would have to return a row whose amount does not parse does.       *)
(***************************************************************************)
EXTENDS Estate

CONSTANT Callers \* the goroutines that call the repository

VARIABLES
    db,    \* [accounts, balances, transactions]: the rows committed
    state, \* "idle", "asked", "answered", "failed"
    query, \* [op, key] of the caller's last call
    value  \* what it is answered: [found, rows]

portVars == <<db, state, query, value>>

PortInit ==
    /\ db \in Estates /\ ForeignKeys(db)
    /\ state = [r \in Callers |-> "idle"]
    /\ query = [r \in Callers |-> [op |-> "ListAccounts", key |-> NoKey]]
    /\ value = [r \in Callers |-> NotFound]

Ask(r, q) ==
    /\ state[r] # "asked"
    /\ state' = [state EXCEPT ![r] = "asked"]
    /\ query' = [query EXCEPT ![r] = q]
    /\ value' = [value EXCEPT ![r] = NotFound]
    /\ UNCHANGED db

Give(r, v) ==
    /\ state[r] = "asked"
    /\ state' = [state EXCEPT ![r] = "answered"]
    /\ value' = [value EXCEPT ![r] = v]
    /\ UNCHANGED <<db, query>>

\* The instant at which the estate is read.
Look(r) ==
    \/ \E s \in Listings(query[r], db) :
          /\ query[r].op \in Scoped => query[r].key \in db.accounts
          /\ Readable(s)
          /\ Give(r, Made(query[r], s))
    \/ /\ query[r].op \in Scoped /\ query[r].key \notin db.accounts
       /\ Give(r, NotFound)

\* An error instead of an answer, although the estate may have been read.
GiveUp(r) ==
    /\ state[r] \in {"asked", "answered"}
    /\ state' = [state EXCEPT ![r] = "failed"]
    /\ value' = [value EXCEPT ![r] = NotFound]
    /\ UNCHANGED <<db, query>>

\* A migration file of some replica commits: rows come, none goes or changes.
Grow ==
    /\ db' \in Estates /\ ForeignKeys(db')
    /\ \A t \in DOMAIN db : db[t] \subseteq db'[t]
    /\ UNCHANGED <<state, query, value>>

PortNext ==
    \/ \E r \in Callers : (\E q \in Queries : Ask(r, q)) \/ Look(r) \/ GiveUp(r)
    \/ Grow

PortSpec == PortInit /\ [][PortNext]_portVars

=============================================================================
