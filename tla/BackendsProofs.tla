--------------------------- MODULE BackendsProofs ---------------------------
(***************************************************************************)
(* The two implementations of the repository port.                         *)
(*                                                                         *)
(* PgRepository: its types, the account of its pool, and that it           *)
(* implements the port, for any callers, connections and estate.  CallerOK *)
(* says what each step finds: an account that assertAccountExists saw is   *)
(* still there when the second statement runs, because no row goes, and    *)
(* the rows scanned so far are readable.  NoLeak is part of the invariant: *)
(* that free stays within MaxConns needs it.                               *)
(*                                                                         *)
(* MemRepository: that it answers as PgRepository does on any seed that    *)
(* SeedAssumption allows.  Only this part uses SeedAssumption.             *)
(***************************************************************************)
EXTENDS Backends, EstateProofs, FiniteSetTheorems

CallerOK(r) ==
    /\ stage[r] = "exists" => args[r].op \in Scoped /\ pc[r] # "rows"
    /\ (stage[r] = "select" /\ pc[r] \in {"acquire", "query"} /\ args[r].op \in Scoped)
          => args[r].key \in db.accounts
    /\ pc[r] \in {"acquire", "query"} => n[r] = 0
    /\ pc[r] = "rows" => \A i \in 1..n[r] : snap[r][i] \notin Bad

IInv == TypeOK /\ NoLeak /\ \A r \in Callers : CallerOK(r)

-----------------------------------------------------------------------------
(* The pool.                                                               *)

\* Finitely many callers hold a connection, before a step and after it.
LEMMA HoldingFinite ==
    /\ IsFiniteSet(Holding) /\ Cardinality(Holding) \in Nat
    /\ IsFiniteSet(Holding') /\ Cardinality(Holding') \in Nat
<1>1. IsFiniteSet(Callers) /\ Holding \subseteq Callers /\ Holding' \subseteq Callers
  BY PoolAssumption DEF Holding
<1> QED
  BY <1>1, FS_Subset, FS_CardinalityType

\* A caller that takes a free connection keeps the account.
LEMMA Taken ==
    ASSUME NoLeak, free \in 0..MaxConns, free > 0, free' = free - 1,
           NEW r \in Callers, r \notin Holding, Holding' = Holding \cup {r}
    PROVE  NoLeak' /\ free' \in 0..MaxConns
<1>1. Cardinality(Holding') = Cardinality(Holding) + 1
  BY HoldingFinite, FS_AddElement
<1> QED
  BY <1>1, HoldingFinite, PoolAssumption DEF NoLeak

\* So does one that gives its own back.
LEMMA Given ==
    ASSUME NoLeak, free \in 0..MaxConns, Release,
           NEW r \in Holding, Holding' = Holding \ {r}
    PROVE  NoLeak' /\ free' \in 0..MaxConns
<1>1. Cardinality(Holding') = Cardinality(Holding) - 1
  BY HoldingFinite, FS_RemoveElement
<1> QED
  BY <1>1, HoldingFinite, PoolAssumption DEF NoLeak, Release

-----------------------------------------------------------------------------
(* The invariant.                                                          *)

\* Nobody holds a connection at first.
LEMMA InitIInv == Init => IInv
<1> SUFFICES ASSUME Init PROVE IInv
  OBVIOUS
<1>1. Holding = {} /\ free = MaxConns
  BY DEF Init, Holding
<1>2. NoLeak
  BY <1>1, FS_EmptySet, PoolAssumption DEF NoLeak
<1>3. [op |-> "ListAccounts", key |-> NoKey] \in Queries
  BY DEF Queries, Ops, Keys, Single, Scoped, Bulk
<1>4. TypeOK
  BY <1>3, PoolAssumption DEF Init, TypeOK
<1>5. \A r \in Callers : CallerOK(r)
  BY DEF Init, CallerOK
<1> QED
  BY <1>2, <1>4, <1>5 DEF IInv

\* A step of one caller leaves the others as they were.
LEMMA OthersOK ==
    ASSUME IInv, NEW r \in Callers, CallerOK(r)',
           \A s \in Callers \ {r} :
              /\ pc'[s] = pc[s] /\ stage'[s] = stage[s] /\ args'[s] = args[s]
              /\ snap'[s] = snap[s] /\ n'[s] = n[s],
           db' = db
    PROVE  \A s \in Callers : CallerOK(s)'
  BY DEF IInv, CallerOK

\* A caller that neither takes nor returns a connection keeps the account.
LEMMA SameHolding ==
    ASSUME NoLeak, free' = free, Holding' = Holding
    PROVE  NoLeak'
  BY DEF NoLeak

\* Every step keeps the invariant.
LEMMA StepIInv ==
    ASSUME IInv, [Next]_pgVars
    PROVE  IInv'
<1>0. TypeOK /\ NoLeak /\ free \in 0..MaxConns
      /\ \A r \in Callers : CallerOK(r)
  BY DEF IInv, TypeOK
<1>1. ASSUME NEW r \in Callers, NEW q \in Calls, Call(r, q)
      PROVE  IInv'
  <2>1. q \in Queries
    BY PoolAssumption
  <2>2. << >> \in Seq(Rows) /\ Len(<< >>) = 0
    OBVIOUS
  <2>3. TypeOK'
    BY <1>0, <1>1, <2>1, <2>2 DEF Call, TypeOK
  <2>4. Holding' = Holding
    BY <1>0, <1>1 DEF Call, Holding, TypeOK
  <2>5. NoLeak'
    BY <1>0, <1>1, <2>4, SameHolding DEF Call
  <2>6. CallerOK(r)'
    BY <1>0, <1>1 DEF Call, CallerOK, TypeOK
  <2> QED
    BY <1>0, <1>1, <2>3, <2>5, <2>6, OthersOK DEF Call, TypeOK, IInv
<1>2. ASSUME NEW r \in Callers, Acquire(r)
      PROVE  IInv'
  <2>1. r \notin Holding /\ Holding' = Holding \cup {r}
    BY <1>0, <1>2 DEF Acquire, Holding, TypeOK
  <2>2. NoLeak' /\ free' \in 0..MaxConns
    BY <1>0, <1>2, <2>1, Taken DEF Acquire
  <2>5. TypeOK'
    BY <1>0, <1>2, <2>2 DEF Acquire, TypeOK
  <2>6. CallerOK(r)'
    BY <1>0, <1>2 DEF Acquire, CallerOK, TypeOK
  <2>7. /\ \A s \in Callers \ {r} :
              /\ pc'[s] = pc[s] /\ stage'[s] = stage[s] /\ args'[s] = args[s]
              /\ snap'[s] = snap[s] /\ n'[s] = n[s]
        /\ db' = db
    BY <1>0, <1>2 DEF Acquire, TypeOK
  <2> QED
    BY <2>2, <2>5, <2>6, <2>7, OthersOK DEF IInv
<1>3. ASSUME NEW r \in Callers, Exists(r)
      PROVE  IInv'
  <2>1. r \in Holding /\ Holding' = Holding \ {r}
    BY <1>0, <1>3 DEF Exists, Holding, TypeOK
  <2>2. NoLeak' /\ free' \in 0..MaxConns
    BY <1>0, <1>3, <2>1, Given DEF Exists
  <2>5. TypeOK'
    BY <1>0, <1>3, <2>2 DEF Exists, TypeOK
  <2>6. CallerOK(r)'
    BY <1>0, <1>3 DEF Exists, CallerOK, TypeOK
  <2>7. /\ \A s \in Callers \ {r} :
              /\ pc'[s] = pc[s] /\ stage'[s] = stage[s] /\ args'[s] = args[s]
              /\ snap'[s] = snap[s] /\ n'[s] = n[s]
        /\ db' = db
    BY <1>0, <1>3 DEF Exists, TypeOK
  <2> QED
    BY <2>2, <2>5, <2>6, <2>7, OthersOK DEF IInv
<1>4. ASSUME NEW r \in Callers, ExistsNot(r)
      PROVE  IInv'
  <2>1. r \in Holding /\ Holding' = Holding \ {r}
    BY <1>0, <1>4 DEF ExistsNot, Return, Holding, TypeOK
  <2>2. NoLeak' /\ free' \in 0..MaxConns
    BY <1>0, <1>4, <2>1, Given DEF ExistsNot
  <2>4. NotFound \in Values
    BY DEF NotFound, Values
  <2>5. TypeOK'
    BY <1>0, <1>4, <2>2, <2>4 DEF ExistsNot, Return, TypeOK
  <2>6. CallerOK(r)'
    BY <1>0, <1>4 DEF ExistsNot, Return, CallerOK, TypeOK
  <2>7. /\ \A s \in Callers \ {r} :
              /\ pc'[s] = pc[s] /\ stage'[s] = stage[s] /\ args'[s] = args[s]
              /\ snap'[s] = snap[s] /\ n'[s] = n[s]
        /\ db' = db
    BY <1>0, <1>4 DEF ExistsNot, Return, TypeOK
  <2> QED
    BY <2>2, <2>5, <2>6, <2>7, OthersOK DEF IInv
<1>5. ASSUME NEW r \in Callers, Select(r)
      PROVE  IInv'
  <2>1. Holding' = Holding /\ free' = free
    BY <1>0, <1>5 DEF Select, Holding, TypeOK
  <2>2. NoLeak' /\ free' \in 0..MaxConns
    BY <1>0, <2>1, SameHolding
  <2>3. PICK found \in Listings(args[r], db) : snap' = [snap EXCEPT ![r] = found]
    BY <1>5 DEF Select
  <2>4. found \in Seq(Rows) /\ Len(found) \in Nat /\ n[r] = 0
    BY <1>0, <1>5, <2>3, ListingsType DEF TypeOK, CallerOK, Select
  <2>5. TypeOK'
    BY <1>0, <1>5, <2>2, <2>3, <2>4 DEF Select, TypeOK
  <2>6. CallerOK(r)'
    BY <1>0, <1>5, <2>4 DEF Select, CallerOK, TypeOK
  <2>7. /\ \A s \in Callers \ {r} :
              /\ pc'[s] = pc[s] /\ stage'[s] = stage[s] /\ args'[s] = args[s]
              /\ snap'[s] = snap[s] /\ n'[s] = n[s]
        /\ db' = db
    BY <1>0, <1>5 DEF Select, TypeOK
  <2> QED
    BY <2>2, <2>5, <2>6, <2>7, OthersOK DEF IInv
<1>6. ASSUME NEW r \in Callers, Scan(r)
      PROVE  IInv'
  <2>1. Holding' = Holding /\ free' = free
    BY <1>0, <1>6 DEF Scan, Holding, TypeOK
  <2>2. NoLeak' /\ free' \in 0..MaxConns
    BY <1>0, <2>1, SameHolding
  <2>5. TypeOK'
    BY <1>0, <1>6, <2>2 DEF Scan, TypeOK
  <2>3. /\ pc[r] = "rows" /\ n[r] \in Nat /\ n'[r] = n[r] + 1
        /\ snap[r][n[r] + 1] \notin Bad
        /\ UNCHANGED <<pc, snap, stage, args, db>>
    BY <1>0, <1>6 DEF Scan, TypeOK
  <2>4. \A i \in 1..n'[r] : i \in 1..n[r] \/ i = n[r] + 1
    BY <2>3
  <2>6. CallerOK(r)'
    BY <1>0, <2>3, <2>4 DEF CallerOK
  <2>7. /\ \A s \in Callers \ {r} :
              /\ pc'[s] = pc[s] /\ stage'[s] = stage[s] /\ args'[s] = args[s]
              /\ snap'[s] = snap[s] /\ n'[s] = n[s]
        /\ db' = db
    BY <1>0, <1>6 DEF Scan, TypeOK
  <2> QED
    BY <2>2, <2>5, <2>6, <2>7, OthersOK DEF IInv
<1>7. ASSUME NEW r \in Callers, ScanFails(r)
      PROVE  IInv'
  <2>1. r \in Holding /\ Holding' = Holding \ {r}
    BY <1>0, <1>7 DEF ScanFails, Return, Holding, TypeOK
  <2>2. NoLeak' /\ free' \in 0..MaxConns
    BY <1>0, <1>7, <2>1, Given DEF ScanFails
  <2>5. TypeOK'
    BY <1>0, <1>7, <2>2 DEF ScanFails, Return, TypeOK
  <2>6. CallerOK(r)'
    BY <1>0, <1>7 DEF ScanFails, Return, CallerOK, TypeOK
  <2>7. /\ \A s \in Callers \ {r} :
              /\ pc'[s] = pc[s] /\ stage'[s] = stage[s] /\ args'[s] = args[s]
              /\ snap'[s] = snap[s] /\ n'[s] = n[s]
        /\ db' = db
    BY <1>0, <1>7 DEF ScanFails, Return, TypeOK
  <2> QED
    BY <2>2, <2>5, <2>6, <2>7, OthersOK DEF IInv
<1>8. ASSUME NEW r \in Callers, RowsEnd(r)
      PROVE  IInv'
  <2>1. r \in Holding /\ Holding' = Holding \ {r}
    BY <1>0, <1>8 DEF RowsEnd, Return, Holding, TypeOK
  <2>2. NoLeak' /\ free' \in 0..MaxConns
    BY <1>0, <1>8, <2>1, Given DEF RowsEnd
  <2>3. snap[r] \in Seq(Rows)
    BY <1>0 DEF TypeOK
  <2>4. Made(args[r], snap[r]) \in Values
    BY <2>3, MadeType
  <2>5. TypeOK'
    BY <1>0, <1>8, <2>2, <2>4 DEF RowsEnd, Return, TypeOK
  <2>6. CallerOK(r)'
    BY <1>0, <1>8 DEF RowsEnd, Return, CallerOK, TypeOK
  <2>7. /\ \A s \in Callers \ {r} :
              /\ pc'[s] = pc[s] /\ stage'[s] = stage[s] /\ args'[s] = args[s]
              /\ snap'[s] = snap[s] /\ n'[s] = n[s]
        /\ db' = db
    BY <1>0, <1>8 DEF RowsEnd, Return, TypeOK
  <2> QED
    BY <2>2, <2>5, <2>6, <2>7, OthersOK DEF IInv
<1>9. ASSUME NEW r \in Callers, Broken(r)
      PROVE  IInv'
  <2>1. r \in Holding /\ Holding' = Holding \ {r}
    BY <1>0, <1>9 DEF Broken, Return, Holding, TypeOK
  <2>2. NoLeak' /\ free' \in 0..MaxConns
    BY <1>0, <1>9, <2>1, Given DEF Broken
  <2>5. TypeOK'
    BY <1>0, <1>9, <2>2 DEF Broken, Return, TypeOK
  <2>6. CallerOK(r)'
    BY <1>0, <1>9 DEF Broken, Return, CallerOK, TypeOK
  <2>7. /\ \A s \in Callers \ {r} :
              /\ pc'[s] = pc[s] /\ stage'[s] = stage[s] /\ args'[s] = args[s]
              /\ snap'[s] = snap[s] /\ n'[s] = n[s]
        /\ db' = db
    BY <1>0, <1>9 DEF Broken, Return, TypeOK
  <2> QED
    BY <2>2, <2>5, <2>6, <2>7, OthersOK DEF IInv
<1>10. ASSUME NEW r \in Callers, QueryFails(r)
      PROVE  IInv'
  <2>1. r \in Holding /\ Holding' = Holding \ {r}
    BY <1>0, <1>10 DEF QueryFails, Return, Holding, TypeOK
  <2>2. NoLeak' /\ free' \in 0..MaxConns
    BY <1>0, <1>10, <2>1, Given DEF QueryFails
  <2>5. TypeOK'
    BY <1>0, <1>10, <2>2 DEF QueryFails, Return, TypeOK
  <2>6. CallerOK(r)'
    BY <1>0, <1>10 DEF QueryFails, Return, CallerOK, TypeOK
  <2>7. /\ \A s \in Callers \ {r} :
              /\ pc'[s] = pc[s] /\ stage'[s] = stage[s] /\ args'[s] = args[s]
              /\ snap'[s] = snap[s] /\ n'[s] = n[s]
        /\ db' = db
    BY <1>0, <1>10 DEF QueryFails, Return, TypeOK
  <2> QED
    BY <2>2, <2>5, <2>6, <2>7, OthersOK DEF IInv
<1>11. ASSUME NEW r \in Callers, Cancelled(r)
      PROVE  IInv'
  <2>1. Holding' = Holding /\ free' = free
    BY <1>0, <1>11 DEF Cancelled, Return, Holding, TypeOK
  <2>2. NoLeak' /\ free' \in 0..MaxConns
    BY <1>0, <2>1, SameHolding
  <2>5. TypeOK'
    BY <1>0, <1>11, <2>2 DEF Cancelled, Return, TypeOK
  <2>6. CallerOK(r)'
    BY <1>0, <1>11 DEF Cancelled, Return, CallerOK, TypeOK
  <2>7. /\ \A s \in Callers \ {r} :
              /\ pc'[s] = pc[s] /\ stage'[s] = stage[s] /\ args'[s] = args[s]
              /\ snap'[s] = snap[s] /\ n'[s] = n[s]
        /\ db' = db
    BY <1>0, <1>11 DEF Cancelled, Return, TypeOK
  <2> QED
    BY <2>2, <2>5, <2>6, <2>7, OthersOK DEF IInv
<1>12. CASE MigrationCommits
  <2>1. Holding' = Holding
    BY <1>12 DEF MigrationCommits, Holding
  <2>2. NoLeak'
    BY <1>0, <1>12, <2>1, SameHolding DEF MigrationCommits
  <2>3. db.accounts \subseteq db'.accounts
    BY <1>0, <1>12 DEF MigrationCommits, TypeOK, Estates
  <2> QED
    BY <1>0, <1>12, <2>2, <2>3 DEF MigrationCommits, TypeOK, CallerOK, IInv
<1>13. CASE UNCHANGED pgVars
  BY <1>0, <1>13 DEF pgVars, TypeOK, NoLeak, Holding, CallerOK, IInv
<1> QED
  BY <1>1, <1>2, <1>3, <1>4, <1>5, <1>6, <1>7, <1>8, <1>9, <1>10, <1>11, <1>12, <1>13 DEF Next, StatementStep

-----------------------------------------------------------------------------
(* The theorems.                                                           *)

\* The repository keeps the invariant, whatever fails and in whatever order.
THEOREM PgInvariance == Spec => []IInv
<1>1. IInv /\ [Next]_pgVars => IInv'
  BY StepIInv
<1> QED
  BY InitIInv, <1>1, PTL DEF Spec

\* The variables keep their types; no row is ever without its account.
THEOREM PgTypeCorrect == Spec => []TypeOK
<1>1. IInv => TypeOK
  BY DEF IInv
<1> QED
  BY <1>1, PgInvariance, PTL

\* No path through pgrepo.go loses a connection of the pool or returns one it
\* does not have, and no caller has two.
THEOREM PgNoLeak == Spec => []NoLeak
<1>1. IInv => NoLeak
  BY DEF IInv
<1> QED
  BY <1>1, PgInvariance, PTL

-----------------------------------------------------------------------------
(* PgRepository implements the port of repository.go.  The instant at      *)
(* which a call reads the estate is that of its last statement: Select, or *)
(* ExistsNot for an account that is not there.  Every other step is a      *)
(* stutter or a failure of the port.                                       *)

\* What the port says of calls and rows is what the repository's module says.
LEMMA SameEstate ==
    /\ Port!Queries = Queries /\ Port!Estates = Estates /\ Port!NotFound = NotFound
    /\ Port!NoKey = NoKey /\ Port!Scoped = Scoped
    /\ \A d : Port!ForeignKeys(d) <=> ForeignKeys(d)
    /\ \A q, d : Port!Listings(q, d) = Listings(q, d)
    /\ \A q, s : Port!Made(q, s) = Made(q, s)
    /\ \A s : Port!Readable(s) <=> Readable(s)
<1> USE DEF Port!Single, Single, Port!Scoped, Scoped, Port!Bulk, Bulk, Port!Ops, Ops,
         Port!NoKey, NoKey, Port!NotFound, NotFound
<1>1. \A op : Port!Keys(op) = Keys(op)
  BY DEF Port!Keys, Keys
<1>2. Port!Queries = Queries
  BY <1>1 DEF Port!Queries, Queries
<1>3. \A q, d : Port!Selected(q, d) = Selected(q, d)
  <2>1. \A op : Port!Table(op) = Table(op)
    BY DEF Port!Table, Table
  <2>2. \A q, row : Port!Matches(q, row) = Matches(q, row)
    BY DEF Port!Matches, Matches
  <2> QED
    BY <2>1, <2>2 DEF Port!Selected, Selected
<1>4. \A q, d : Port!Listings(q, d) = Listings(q, d)
  <2>1. \A S : Port!Cardinality(S) = Cardinality(S)
    BY DEF Port!Cardinality, Cardinality
  <2>2. \A s, S : Port!IsListing(s, S) <=> IsListing(s, S)
    BY <2>1 DEF Port!IsListing, IsListing
  <2> QED
    BY <1>3, <2>1, <2>2 DEF Port!Listings, Listings
<1>5. \A q, s : Port!Made(q, s) = Made(q, s)
  BY DEF Port!Made, Made, Port!InterimOf, InterimOf
<1>6. /\ Port!Estates = Estates
      /\ \A d : Port!ForeignKeys(d) <=> ForeignKeys(d)
      /\ \A s : Port!Readable(s) <=> Readable(s)
  BY DEF Port!Estates, Estates, Port!ForeignKeys, ForeignKeys, Port!Readable, Readable
<1> QED
  BY <1>2, <1>4, <1>5, <1>6

\* A caller that has asked nothing is idle at the port.
LEMMA PortInit ==
    ASSUME Init
    PROVE  Port!PortInit
<1>1. \A r \in Callers : StateOf(r) = "idle" /\ ValueOf(r) = NotFound
  BY DEF Init, StateOf, ValueOf, Answering, Answered
<1> QED
  BY <1>1, SameEstate DEF Init, Port!PortInit, stateOf, valueOf

\* Only r has moved.
Alone(r) ==
    \A s \in Callers \ {r} :
        pc'[s] = pc[s] /\ snap'[s] = snap[s] /\ args'[s] = args[s] /\ res'[s] = res[s]

\* The others look the same to the port.
LEMMA OthersSame ==
    ASSUME NEW r \in Callers, Alone(r), NEW s \in Callers \ {r}
    PROVE  StateOf(s)' = StateOf(s) /\ ValueOf(s)' = ValueOf(s)
  BY DEF Alone, StateOf, ValueOf, Answering, Answered, Readable, Made, InterimOf

\* The port sees one caller move.
LEMMA PortMoves ==
    ASSUME NEW r \in Callers, Alone(r),
           NEW st, StateOf(r)' = st, NEW v, ValueOf(r)' = v
    PROVE  /\ stateOf' = [stateOf EXCEPT ![r] = st]
           /\ valueOf' = [valueOf EXCEPT ![r] = v]
<1>1. \A s \in Callers \ {r} : StateOf(s)' = StateOf(s) /\ ValueOf(s)' = ValueOf(s)
  BY OthersSame
<1> QED
  BY <1>1 DEF stateOf, valueOf

\* The port sees nothing.
LEMMA PortStutters ==
    ASSUME NEW r \in Callers, Alone(r), UNCHANGED <<db, args>>,
           StateOf(r)' = StateOf(r), ValueOf(r)' = ValueOf(r)
    PROVE  UNCHANGED Port!portVars
<1>1. \A s \in Callers \ {r} : StateOf(s)' = StateOf(s) /\ ValueOf(s)' = ValueOf(s)
  BY OthersSame
<1> QED
  BY <1>1 DEF stateOf, valueOf, Port!portVars

\* A call that fails gives up.
LEMMA PortGivesUp ==
    ASSUME NEW r \in Callers, Alone(r), UNCHANGED <<db, args>>,
           StateOf(r) \in {"asked", "answered"},
           StateOf(r)' = "failed", ValueOf(r)' = NotFound
    PROVE  Port!GiveUp(r)
<1>1. /\ stateOf' = [stateOf EXCEPT ![r] = "failed"]
      /\ valueOf' = [valueOf EXCEPT ![r] = NotFound]
  BY PortMoves
<1>2. stateOf[r] \in {"asked", "answered"}
  BY DEF stateOf
<1> QED
  BY <1>1, <1>2, SameEstate DEF Port!GiveUp

\* A call that reads the estate gives what it read.
LEMMA PortGives ==
    ASSUME NEW r \in Callers, Alone(r), UNCHANGED <<db, args>>,
           StateOf(r) = "asked", StateOf(r)' = "answered",
           NEW v, ValueOf(r)' = v
    PROVE  Port!Give(r, v)
<1>1. /\ stateOf' = [stateOf EXCEPT ![r] = "answered"]
      /\ valueOf' = [valueOf EXCEPT ![r] = v]
  BY PortMoves
<1>2. stateOf[r] = "asked"
  BY DEF stateOf
<1> QED
  BY <1>1, <1>2 DEF Port!Give

\* Every step of the repository is a step of the port or none.
LEMMA PortStep ==
    ASSUME IInv, [Next]_pgVars
    PROVE  [Port!PortNext]_(Port!portVars)
<1>0. TypeOK /\ \A r \in Callers : CallerOK(r)
  BY DEF IInv
<1> USE DEF StateOf, ValueOf, Answering, Answered
<1>1. ASSUME NEW r \in Callers, NEW q \in Calls, Call(r, q)
      PROVE  Port!PortNext
  <2>1. Alone(r)
    BY <1>0, <1>1 DEF Call, Alone, TypeOK
  <2>2. /\ pc[r] \in {"idle", "done"} /\ pc'[r] = "acquire"
        /\ args' = [args EXCEPT ![r] = q] /\ UNCHANGED db
    BY <1>0, <1>1 DEF Call, TypeOK
  <2>3. StateOf(r)' = "asked" /\ ValueOf(r)' = NotFound
    BY <2>2
  <2>4. /\ stateOf' = [stateOf EXCEPT ![r] = "asked"]
        /\ valueOf' = [valueOf EXCEPT ![r] = NotFound]
    BY <2>1, <2>3, PortMoves
  <2>5. stateOf[r] # "asked"
    BY <2>2 DEF stateOf
  <2>6. q \in Port!Queries
    BY PoolAssumption, SameEstate
  <2>7. Port!Ask(r, q)
    BY <2>2, <2>4, <2>5, SameEstate DEF Port!Ask
  <2> QED
    BY <2>6, <2>7 DEF Port!PortNext
<1>2. ASSUME NEW r \in Callers, Acquire(r)
      PROVE  UNCHANGED Port!portVars
  <2>1. Alone(r) /\ UNCHANGED <<db, args>>
    BY <1>0, <1>2 DEF Acquire, Alone, TypeOK
  <2>2. pc[r] \in {"acquire", "query"} /\ pc'[r] \in {"acquire", "query"}
    BY <1>0, <1>2 DEF Acquire, TypeOK
  <2>3. StateOf(r)' = StateOf(r) /\ ValueOf(r)' = ValueOf(r)
    BY <2>2
  <2> QED
    BY <2>1, <2>3, PortStutters
<1>3. ASSUME NEW r \in Callers, Exists(r)
      PROVE  UNCHANGED Port!portVars
  <2>1. Alone(r) /\ UNCHANGED <<db, args>>
    BY <1>0, <1>3 DEF Exists, Alone, TypeOK
  <2>2. pc[r] \in {"acquire", "query"} /\ pc'[r] \in {"acquire", "query"}
    BY <1>0, <1>3 DEF Exists, TypeOK
  <2>3. StateOf(r)' = StateOf(r) /\ ValueOf(r)' = ValueOf(r)
    BY <2>2
  <2> QED
    BY <2>1, <2>3, PortStutters
<1>4. ASSUME NEW r \in Callers, ExistsNot(r)
      PROVE  Port!PortNext
  <2>1. Alone(r) /\ UNCHANGED <<db, args>>
    BY <1>0, <1>4 DEF ExistsNot, Return, Alone, TypeOK
  <2>2. /\ pc[r] = "query" /\ stage[r] = "exists" /\ pc'[r] = "done"
        /\ args[r].key \notin db.accounts /\ res'[r] = NotFound
    BY <1>0, <1>4 DEF ExistsNot, Return, TypeOK
  <2>3. NotFound # NoResult
    <3>1. NotFound \in Values
      BY DEF NotFound, Values
    <3> QED
      BY <3>1, PoolAssumption
  <2>4. StateOf(r) = "asked" /\ StateOf(r)' = "answered" /\ ValueOf(r)' = NotFound
    BY <2>2, <2>3
  <2>5. args[r].op \in Scoped
    BY <1>0, <2>2 DEF CallerOK
  <2>6. Port!Give(r, NotFound)
    BY <2>1, <2>4, PortGives
  <2>7. Port!Look(r)
    BY <2>2, <2>5, <2>6, SameEstate DEF Port!Look
  <2> QED
    BY <2>7 DEF Port!PortNext
<1>5. ASSUME NEW r \in Callers, Select(r)
      PROVE  [Port!PortNext]_(Port!portVars)
  <2>1. Alone(r) /\ UNCHANGED <<db, args>>
    BY <1>0, <1>5 DEF Select, Alone, TypeOK
  <2>2. PICK s \in Listings(args[r], db) : snap' = [snap EXCEPT ![r] = s]
    BY <1>5 DEF Select
  <2>3. /\ pc[r] = "query" /\ stage[r] = "select" /\ pc'[r] = "rows"
        /\ snap'[r] = s /\ args'[r] = args[r]
    BY <1>0, <1>5, <2>2 DEF Select, TypeOK
  <2>4. StateOf(r) = "asked" /\ ValueOf(r) = NotFound
    BY <2>3
  <2>5. CASE Readable(s)
    <3>1. Readable(snap[r])' /\ Made(args[r], snap[r])' = Made(args[r], s)
      BY <2>3, <2>5 DEF Readable, Made, InterimOf
    <3>2. StateOf(r)' = "answered" /\ ValueOf(r)' = Made(args[r], s)
      BY <2>3, <3>1
    <3>3. Port!Give(r, Made(args[r], s))
      BY <2>1, <2>4, <3>2, PortGives
    <3>4. args[r].op \in Scoped => args[r].key \in db.accounts
      BY <1>0, <2>3 DEF CallerOK
    <3>5. /\ s \in Port!Listings(args[r], db) /\ Port!Readable(s)
          /\ Port!Made(args[r], s) = Made(args[r], s)
          /\ args[r].op \in Port!Scoped => args[r].key \in db.accounts
      BY <2>2, <2>5, <3>4, SameEstate
    <3>6. Port!Look(r)
      BY <3>3, <3>5 DEF Port!Look
    <3> QED
      BY <3>6 DEF Port!PortNext
  <2>6. CASE ~Readable(s)
    <3>1. ~Readable(snap[r])'
      BY <2>3, <2>6 DEF Readable
    <3>2. StateOf(r)' = "asked" /\ ValueOf(r)' = NotFound
      BY <2>3, <3>1
    <3> QED
      BY <2>1, <2>4, <3>2, PortStutters
  <2> QED
    BY <2>5, <2>6
<1>6. ASSUME NEW r \in Callers, Scan(r)
      PROVE  UNCHANGED Port!portVars
  <2>1. Alone(r) /\ UNCHANGED <<db, args>>
    BY <1>0, <1>6 DEF Scan, Alone, TypeOK
  <2>2. pc[r] = "rows" /\ UNCHANGED <<pc, snap, args, res>>
    BY <1>6 DEF Scan
  <2>3. StateOf(r)' = StateOf(r) /\ ValueOf(r)' = ValueOf(r)
    BY <2>2
  <2> QED
    BY <2>1, <2>3, PortStutters
<1>7. ASSUME NEW r \in Callers, ScanFails(r)
      PROVE  Port!PortNext
  <2>1. Alone(r) /\ UNCHANGED <<db, args>>
    BY <1>0, <1>7 DEF ScanFails, Return, Alone, TypeOK
  <2>2. /\ pc[r] \in {"acquire", "query", "rows"} /\ pc'[r] = "done"
        /\ res'[r] = NoResult
    BY <1>0, <1>7 DEF ScanFails, Return, TypeOK
  <2>3. StateOf(r) \in {"asked", "answered"}
    BY <2>2
  <2>4. StateOf(r)' = "failed" /\ ValueOf(r)' = NotFound
    BY <2>2
  <2> QED
    BY <2>1, <2>3, <2>4, PortGivesUp DEF Port!PortNext
<1>8. ASSUME NEW r \in Callers, RowsEnd(r)
      PROVE  UNCHANGED Port!portVars
  <2>1. Alone(r) /\ UNCHANGED <<db, args>>
    BY <1>0, <1>8 DEF RowsEnd, Return, Alone, TypeOK
  <2>2. /\ pc[r] = "rows" /\ n[r] = Len(snap[r]) /\ pc'[r] = "done"
        /\ res'[r] = Made(args[r], snap[r])
    BY <1>0, <1>8 DEF RowsEnd, Return, TypeOK
  <2>3. Readable(snap[r])
    BY <1>0, <2>2 DEF CallerOK, Readable
  <2>4. snap[r] \in Seq(Rows)
    BY <1>0 DEF TypeOK
  <2>5. res'[r] # NoResult
    BY <2>2, <2>4, MadeType, PoolAssumption
  <2>6. StateOf(r) = "answered" /\ ValueOf(r) = Made(args[r], snap[r])
    BY <2>2, <2>3
  <2>7. StateOf(r)' = "answered" /\ ValueOf(r)' = res'[r]
    BY <2>2, <2>5
  <2> QED
    BY <2>1, <2>2, <2>6, <2>7, PortStutters
<1>9. ASSUME NEW r \in Callers, Broken(r)
      PROVE  Port!PortNext
  <2>1. Alone(r) /\ UNCHANGED <<db, args>>
    BY <1>0, <1>9 DEF Broken, Return, Alone, TypeOK
  <2>2. /\ pc[r] \in {"acquire", "query", "rows"} /\ pc'[r] = "done"
        /\ res'[r] = NoResult
    BY <1>0, <1>9 DEF Broken, Return, TypeOK
  <2>3. StateOf(r) \in {"asked", "answered"}
    BY <2>2
  <2>4. StateOf(r)' = "failed" /\ ValueOf(r)' = NotFound
    BY <2>2
  <2> QED
    BY <2>1, <2>3, <2>4, PortGivesUp DEF Port!PortNext
<1>10. ASSUME NEW r \in Callers, QueryFails(r)
      PROVE  Port!PortNext
  <2>1. Alone(r) /\ UNCHANGED <<db, args>>
    BY <1>0, <1>10 DEF QueryFails, Return, Alone, TypeOK
  <2>2. /\ pc[r] \in {"acquire", "query", "rows"} /\ pc'[r] = "done"
        /\ res'[r] = NoResult
    BY <1>0, <1>10 DEF QueryFails, Return, TypeOK
  <2>3. StateOf(r) \in {"asked", "answered"}
    BY <2>2
  <2>4. StateOf(r)' = "failed" /\ ValueOf(r)' = NotFound
    BY <2>2
  <2> QED
    BY <2>1, <2>3, <2>4, PortGivesUp DEF Port!PortNext
<1>11. ASSUME NEW r \in Callers, Cancelled(r)
      PROVE  Port!PortNext
  <2>1. Alone(r) /\ UNCHANGED <<db, args>>
    BY <1>0, <1>11 DEF Cancelled, Return, Alone, TypeOK
  <2>2. /\ pc[r] \in {"acquire", "query", "rows"} /\ pc'[r] = "done"
        /\ res'[r] = NoResult
    BY <1>0, <1>11 DEF Cancelled, Return, TypeOK
  <2>3. StateOf(r) \in {"asked", "answered"}
    BY <2>2
  <2>4. StateOf(r)' = "failed" /\ ValueOf(r)' = NotFound
    BY <2>2
  <2> QED
    BY <2>1, <2>3, <2>4, PortGivesUp DEF Port!PortNext
<1>12. CASE MigrationCommits
  <2>1. /\ db' \in Estates /\ ForeignKeys(db')
        /\ \A t \in DOMAIN db : db[t] \subseteq db'[t]
        /\ UNCHANGED <<pc, args, snap, res>>
    BY <1>12 DEF MigrationCommits
  <2>2. \A r \in Callers : StateOf(r)' = StateOf(r) /\ ValueOf(r)' = ValueOf(r)
    BY <2>1 DEF Readable, Made, InterimOf
  <2>3. UNCHANGED <<stateOf, args, valueOf>>
    BY <2>1, <2>2 DEF stateOf, valueOf
  <2>4. Port!Grow
    BY <2>1, <2>3, SameEstate DEF Port!Grow
  <2> QED
    BY <2>4 DEF Port!PortNext
<1>13. CASE UNCHANGED pgVars
  <2>1. UNCHANGED <<db, pc, args, snap, res>>
    BY <1>13 DEF pgVars
  <2>2. \A r \in Callers : StateOf(r)' = StateOf(r) /\ ValueOf(r)' = ValueOf(r)
    BY <2>1 DEF Readable, Made, InterimOf
  <2> QED
    BY <2>1, <2>2 DEF stateOf, valueOf, Port!portVars
<1> QED
  BY <1>1, <1>2, <1>3, <1>4, <1>5, <1>6, <1>7, <1>8, <1>9, <1>10, <1>11, <1>12, <1>13 DEF Next, StatementStep

\* Whatever Service gets from PgRepository without an error is the estate of
\* one instant during the call: existence check, statement and rows, steps
\* apart, read as one.
THEOREM RepositoryImplementsPort == Spec => ImplementsPort
<1>1. Init => Port!PortInit
  BY PortInit
<1>2. IInv /\ [Next]_pgVars => [Port!PortNext]_(Port!portVars)
  BY PortStep
<1> QED
  BY <1>1, <1>2, PgInvariance, PTL DEF Spec, ImplementsPort, Port!PortSpec

-----------------------------------------------------------------------------
(* MemRepository next to it.  On the seed both have one answer to a call:  *)
(* a table has one listing, and what seedAccounts lists account by account *)
(* is the listing of the whole table.                                      *)

\* The loop that appends sequence after sequence.
LEMMA FlattenIsLoop ==
    ASSUME NEW V, NEW seqs \in Seq(Seq(V))
    PROVE  \E f \in [Nat -> Seq(V)] :
              /\ f[0] = << >>
              /\ \A i \in 1..Len(seqs) : f[i] = f[i - 1] \o seqs[i]
              /\ Seqs!FlattenSeq(seqs) = f[Len(seqs)]
<1> DEFINE N == Len(seqs)
           Is(g) == g = [i \in 1..N |-> IF i = 1 THEN seqs[i] ELSE g[i - 1] \o seqs[i]]
<1>1. N \in Nat /\ \A i \in 1..N : seqs[i] \in Seq(V)
  BY LenProperties, ElementOfSeq
<1> HIDE DEF N
<1>2. PICK f \in [Nat -> Seq(V)] :
          f[0] = << >> /\ \A i \in 1..N : f[i] = f[i - 1] \o seqs[i]
  <2>1. PICK step : step = [k \in Nat |-> [v \in Seq(V) |->
                               IF k \in 1..N THEN v \o seqs[k] ELSE v]]
    OBVIOUS
  <2>2. \A v \in Seq(V), k \in Nat : step[k][v] \in Seq(V)
    BY <1>1, <2>1, ConcatProperties
  <2>3. PICK f : IsRecursion(f, Seq(V), << >>, step)
    <3>1. << >> \in Seq(V)
      BY EmptySeq
    <3> QED
      BY <2>2, <3>1, Recursion
  <2>4. f \in [Nat -> Seq(V)] /\ f[0] = << >>
    BY <2>3 DEF IsRecursion
  <2>5. ASSUME NEW i \in 1..N
        PROVE  f[i] = f[i - 1] \o seqs[i]
    <3>1. i \in Nat \ {0} /\ i - 1 \in Nat
      BY <1>1
    <3>2. f[i] = step[i][f[i - 1]]
      BY <2>3, <3>1 DEF IsRecursion
    <3>3. f[i - 1] \in Seq(V)
      BY <2>4, <3>1
    <3> QED
      BY <2>1, <3>1, <3>2, <3>3
  <2> QED
    BY <2>4, <2>5
<1>3. ASSUME NEW i \in Nat, i + 1 \in 1..N
      PROVE  f[i + 1] = f[i] \o seqs[i + 1]
  <2>1. f[i + 1] = f[(i + 1) - 1] \o seqs[i + 1]
    BY <1>2, <1>3
  <2>2. (i + 1) - 1 = i
    OBVIOUS
  <2> QED
    BY <2>1, <2>2
<1>4. ASSUME NEW i \in Nat, i = 0, i + 1 \in 1..N
      PROVE  f[i + 1] = seqs[i + 1]
  <2>1. f[i + 1] = << >> \o seqs[i + 1]
    BY <1>2, <1>3, <1>4
  <2>2. seqs[i + 1] \in Seq(V)
    BY <1>1, <1>4
  <2> QED
    BY <2>1, <2>2, ConcatEmptySeq
<1>5. CASE N = 0
  <2>1. Seqs!FlattenSeq(seqs) = seqs
    BY <1>5 DEF Seqs!FlattenSeq, N
  <2>2. seqs = << >>
    BY <1>5, EmptySeq DEF N
  <2> QED
    BY <1>2, <1>5, <2>1, <2>2 DEF N
<1>6. CASE N # 0
  <2>1. PICK g : g = CHOOSE h : Is(h)
    OBVIOUS
  <2>2. Seqs!FlattenSeq(seqs) = g[N]
    BY <1>6, <2>1 DEF Seqs!FlattenSeq, N
  <2>3. Is(g)
    <3> DEFINE h == [i \in 1..N |-> f[i]]
    <3>1. ASSUME NEW i \in 1..N
          PROVE  h[i] = IF i = 1 THEN seqs[i] ELSE h[i - 1] \o seqs[i]
      <4>1. CASE i = 1
        <5>1. PICK j \in Nat : j = 0 /\ j + 1 = i
          BY <4>1
        <5> QED
          BY <1>4, <4>1, <5>1
      <4>2. CASE i # 1
        <5>1. i - 1 \in 1..N
          BY <1>1, <4>2
        <5>2. f[i] = f[i - 1] \o seqs[i]
          BY <1>2
        <5> QED
          BY <4>2, <5>1, <5>2
      <4> QED
        BY <4>1, <4>2
    <3>2. Is(h)
      BY <3>1
    <3> HIDE DEF h, Is
    <3> QED
      BY <2>1, <3>2
  <2>4. \A i \in 1..N : g[i] = f[i]
    <3> DEFINE S == {i \in Nat : i \in 1..N => g[i] = f[i]}
    <3>1. 0 \in S
      OBVIOUS
    <3>2. ASSUME NEW i \in Nat, i \in S
          PROVE  i + 1 \in S
      <4> SUFFICES ASSUME i + 1 \in 1..N
                   PROVE  g[i + 1] = f[i + 1]
        OBVIOUS
      <4>1. (i + 1) - 1 = i /\ f[i + 1] = f[i] \o seqs[i + 1]
        BY <1>3
      <4>2. CASE i = 0
        <5>1. g[i + 1] = seqs[i + 1]
          BY <2>3, <4>2
        <5> QED
          BY <1>4, <4>2, <5>1
      <4>3. CASE i # 0
        <5>1. i \in 1..N /\ i + 1 # 1
          BY <1>1, <4>3
        <5>2. g[i + 1] = g[(i + 1) - 1] \o seqs[i + 1]
          BY <2>3, <5>1
        <5> QED
          BY <3>2, <4>1, <5>1, <5>2
      <4> QED
        BY <4>2, <4>3
    <3>3. Nat \subseteq S
      <4> HIDE DEF S
      <4> QED
        BY <3>1, <3>2, Induction
    <3> QED
      BY <1>1, <3>3
  <2>5. N \in 1..N
    BY <1>1, <1>6
  <2> QED
    BY <1>2, <2>2, <2>4, <2>5 DEF N
<1> QED
  BY <1>5, <1>6

\* The accounts of the seed.
LEMMA SeedAccounts ==
    /\ Len(Order) \in Nat /\ DOMAIN Order = 1..Len(Order)
    /\ \A i \in 1..Len(Order) : Order[i] \in Stored
    /\ \A a \in Stored : \E i \in 1..Len(Order) : Order[i] = a
    /\ \A i, j \in 1..Len(Order) : i < j => Order[i] < Order[j]
    /\ Stored \subseteq Accounts /\ Stored \subseteq Nat
<1>1. IsListing(Order, Stored)
  BY SeedAssumption
<1>2. Order \in Seq(Stored)
  BY <1>1 DEF IsListing
<1>3. Stored \subseteq Accounts
  BY SeedAssumption DEF SeedEstate, Estates
<1> QED
  BY <1>1, <1>2, <1>3, RowsAssumption, LenProperties, ElementOfSeq DEF IsListing

\* What the loops of ListAllBalances and ListAllTransactions append is the
\* listing of the table.
LEMMA OfAllIsListing ==
    ASSUME NEW rowsOf \in {SeedBalances, SeedTransactions}
    PROVE  IsListing(OfAll(rowsOf), UNION {Seqs!ToSet(rowsOf[a]) : a \in Stored})
<1> DEFINE U(k) == UNION {Seqs!ToSet(rowsOf[Order[i]]) : i \in 1..k}
           N == Len(Order)
           All == UNION {Seqs!ToSet(rowsOf[a]) : a \in Stored}
           seqs == [i \in 1..N |-> rowsOf[Order[i]]]
<1>1. \A a \in Stored : /\ IsListing(rowsOf[a], Seqs!ToSet(rowsOf[a]))
                        /\ \A row \in Seqs!ToSet(rowsOf[a]) : Owner[row] = a
  BY SeedAssumption
<1>2. All \subseteq Balances \/ All \subseteq Transactions
  BY SeedAssumption DEF SeedEstate, Estates
<1>3. \A b, c \in All : Owner[b] < Owner[c] => b < c
  BY <1>2, SeedAssumption
<1>4. seqs \in Seq(Seq(All)) /\ Len(seqs) = N /\ N \in Nat
  <2>1. \A i \in 1..N : rowsOf[Order[i]] \in Seq(All)
    <3> TAKE i \in 1..N
    <3>1. Order[i] \in Stored
      BY SeedAccounts
    <3>2. rowsOf[Order[i]] \in Seq(Seqs!ToSet(rowsOf[Order[i]]))
      BY <1>1, <3>1 DEF IsListing
    <3>3. Seqs!ToSet(rowsOf[Order[i]]) \subseteq All
      BY <3>1
    <3> QED
      BY <3>2, <3>3, SeqMonotonic
  <2>2. N \in Nat
    BY SeedAccounts
  <2> HIDE DEF All, N
  <2> QED
    BY <2>1, <2>2
<1>5. OfAll(rowsOf) = Seqs!FlattenSeq(seqs)
  BY SeedAccounts DEF OfAll
<1>6. \A i \in 1..N : seqs[i] = rowsOf[Order[i]]
  OBVIOUS
<1> HIDE DEF seqs, N
<1>7. PICK f \in [Nat -> Seq(All)] :
          /\ f[0] = << >>
          /\ \A i \in 1..N : f[i] = f[i - 1] \o seqs[i]
          /\ Seqs!FlattenSeq(seqs) = f[N]
  <2> HIDE DEF All
  <2> QED
    BY <1>4, FlattenIsLoop
<1> DEFINE S == {k \in Nat : k <= N => IsListing(f[k], U(k))}
<1>8. 0 \in S
  <2>1. U(0) = {}
    OBVIOUS
  <2>2. << >> \in Seq({}) /\ Len(<< >>) = 0
    BY EmptySeq
  <2>3. IsListing(<< >>, {})
    BY <2>2 DEF IsListing
  <2> QED
    BY <1>7, <2>1, <2>3
<1>9. ASSUME NEW k \in Nat, k \in S
      PROVE  k + 1 \in S
  <2> SUFFICES ASSUME k + 1 <= N
               PROVE  IsListing(f[k + 1], U(k + 1))
    OBVIOUS
  <2> DEFINE a == Order[k + 1]
             T == Seqs!ToSet(rowsOf[a])
  <2>1. k + 1 \in 1..N /\ (k + 1) - 1 = k /\ k <= N
    BY <1>4
  <2>2. IsListing(f[k], U(k))
    BY <1>9, <2>1
  <2>3. a \in Stored /\ IsListing(rowsOf[a], T)
    BY <1>1, <2>1, SeedAccounts DEF N
  <2>4. f[k + 1] = f[k] \o rowsOf[a]
    BY <1>6, <1>7, <2>1
  <2>5. ASSUME NEW x \in U(k), NEW y \in T
        PROVE  x < y
    <3>1. PICK i \in 1..k : x \in Seqs!ToSet(rowsOf[Order[i]])
      OBVIOUS
    <3>2. i \in 1..N /\ i < k + 1
      BY <1>4, <2>1
    <3>3. Order[i] \in Stored /\ Order[i] < a
      BY <2>1, <3>2, SeedAccounts DEF N
    <3>4. Owner[x] = Order[i] /\ Owner[y] = a /\ x \in All /\ y \in All
      BY <1>1, <2>3, <3>1, <3>3
    <3> QED
      BY <1>3, <3>3, <3>4
  <2>6. U(k + 1) = U(k) \cup T
    <3>1. 1..(k + 1) = (1..k) \cup {k + 1}
      OBVIOUS
    <3> QED
      BY <3>1
  <2> HIDE DEF U, T
  <2>7. IsListing(f[k] \o rowsOf[a], U(k) \cup T)
    BY <2>2, <2>3, <2>5, ListingConcat
  <2> QED
    BY <2>4, <2>6, <2>7
<1>10. Nat \subseteq S
  <2> HIDE DEF S
  <2> QED
    BY <1>8, <1>9, Induction
<1>11. U(N) = All
  BY SeedAccounts DEF N
<1>12. IsListing(f[N], U(N))
  <2> HIDE DEF U
  <2>1. N \in S
    BY <1>4, <1>10
  <2> QED
    BY <1>4, <2>1
<1> QED
  BY <1>5, <1>7, <1>11, <1>12

\* The rows seedAccounts has for the call op, account by account.
SeedOf(op) == IF Table(op) = "balances" THEN SeedBalances ELSE SeedTransactions

\* MemRead, call by call.
LEMMA MemReadSays ==
    ASSUME NEW q
    PROVE  /\ Refused(q) => MemRead(q) = NotFound
           /\ q.op = "GetAccount" /\ q.key \in Stored => MemRead(q) = Found(<<q.key>>)
           /\ q.op = "ListAccounts" => MemRead(q) = Found(Order)
           /\ q.op \in Bulk \ {"ListAccounts"} => MemRead(q) = Found(OfAll(SeedOf(q.op)))
           /\ q.op = "FindByIdentification" =>
                 MemRead(q) = IF FirstHolder(q.key) = 0 THEN NotFound
                              ELSE Found(<<Order[FirstHolder(q.key)]>>)
           /\ q.op = "AvailableBalance" /\ q.key \in Stored =>
                 MemRead(q) = Found(InterimOf(SeedOf(q.op)[q.key]))
           /\ q.op \in {"ListBalances", "ListTransactions"} /\ q.key \in Stored =>
                 MemRead(q) = Found(SeedOf(q.op)[q.key])
<1>1. CASE Refused(q)
  <2>1. MemRead(q) = NotFound
    BY <1>1 DEF MemRead, Refused, Scoped, Bulk
  <2>2. q.op \in Scoped \cup {"GetAccount"} /\ q.key \notin Stored
    BY <1>1 DEF Refused
  <2> QED
    BY <2>1, <2>2 DEF Scoped, Bulk
<1>2. CASE ~Refused(q)
  <2> USE <1>2 DEF MemRead, Scoped, Bulk
  <2>1. CASE q.op = "GetAccount"
    BY <2>1
  <2>2. CASE q.op = "ListAccounts"
    BY <2>2
  <2>3. CASE q.op \in Bulk \ {"ListAccounts"}
    BY <2>3 DEF SeedOf
  <2>4. CASE q.op = "FindByIdentification"
    BY <2>4
  <2>5. CASE q.op = "AvailableBalance"
    BY <2>5 DEF RowsIn, SeedOf
  <2>6. CASE q.op \in {"ListBalances", "ListTransactions"}
    BY <2>6 DEF RowsIn, SeedOf
  <2> QED
    BY <2>1, <2>2, <2>3, <2>4, <2>5, <2>6
<1> QED
  BY <1>1, <1>2

\* The tables of the seed, and the rows of an account in them.
LEMMA SeedTable ==
    ASSUME NEW op \in Ops \ (Single \cup {"ListAccounts"})
    PROVE  /\ SeedOf(op) \in {SeedBalances, SeedTransactions}
           /\ SeedEstate[Table(op)] = UNION {Seqs!ToSet(SeedOf(op)[a]) : a \in Stored}
           /\ SeedEstate[Table(op)] \subseteq Rows
BY SeedAssumption DEF SeedOf, Table, SeedEstate, Estates, Rows, Single, Ops, Scoped, Bulk

LEMMA SeedScoped ==
    ASSUME NEW q, q.op \in Scoped, q.key \in Stored
    PROVE  Selected(q, SeedEstate) = Seqs!ToSet(SeedOf(q.op)[q.key])
<1>1. q.op \in Ops \ (Single \cup {"ListAccounts"})
  BY DEF Ops, Single, Scoped
<1>2. SeedEstate[Table(q.op)] = UNION {Seqs!ToSet(SeedOf(q.op)[a]) : a \in Stored}
  BY <1>1, SeedTable
<1>3. \A a \in Stored : \A row \in Seqs!ToSet(SeedOf(q.op)[a]) : Owner[row] = a
  BY <1>1, SeedTable, SeedAssumption
<1>4. \A row : Matches(q, row) <=> Owner[row] = q.key
  BY DEF Matches, Scoped, Bulk
<1> QED
  BY <1>2, <1>3, <1>4 DEF Selected

\* What FindByIdentification finds: in the seed there is one at most.
LEMMA HolderSays ==
    ASSUME NEW ident
    PROVE  \/ /\ FirstHolder(ident) = 0
              /\ \A a \in Stored : Identification[a] # ident
           \/ /\ FirstHolder(ident) \in 1..Len(Order)
              /\ Identification[Order[FirstHolder(ident)]] = ident
<1> DEFINE I == {i \in 1..Len(Order) : Identification[Order[i]] = ident}
<1>1. FirstHolder(ident) = IF I # {} THEN CHOOSE x \in I : \A y \in I : x <= y ELSE 0
  BY DEF FirstHolder, Seqs!SelectInSeq, Seqs!Min
<1>2. CASE I = {}
  <2>1. \A i \in 1..Len(Order) : Identification[Order[i]] # ident
    BY <1>2
  <2> QED
    BY <1>1, <1>2, <2>1, SeedAccounts
<1>3. CASE I # {}
  <2>1. \E x \in I : \A y \in I : x <= y
    <3>1. I \in SUBSET Nat
      BY SeedAccounts
    <3> HIDE DEF I
    <3> QED
      BY <1>3, <3>1, Least
  <2>2. FirstHolder(ident) \in I
    <3> HIDE DEF I
    <3> QED
      BY <1>1, <1>3, <2>1
  <2> QED
    BY <2>2
<1> QED
  BY <1>2, <1>3

\* Every answer Postgres may give on the seed is the one of the memory
\* repository: rows, order and ErrNotFound.
LEMMA SeedAnswers ==
    ASSUME NEW q \in Queries, NEW s \in Listings(q, SeedEstate),
           q.op \in Scoped => q.key \in Stored
    PROVE  Made(q, s) = MemRead(q)
<1>1. q.op \in Ops
  BY DEF Queries
<1>2. CASE q.op = "GetAccount"
  <2>1. q.op \in Single /\ \A row : Matches(q, row) <=> row = q.key
    BY <1>2 DEF Single, Matches, Bulk
  <2>2. Selected(q, SeedEstate) = {row \in Stored : row = q.key}
    BY <1>2, <2>1 DEF Selected, Table, SeedEstate, Single
  <2>3. CASE q.key \notin Stored
    <3>1. s = << >>
      BY <2>1, <2>2, <2>3, SingleListing
    <3>2. Refused(q)
      BY <1>2, <2>3 DEF Refused
    <3> QED
      BY <2>1, <3>1, <3>2, MemReadSays DEF Made
  <2>4. CASE q.key \in Stored
    <3>1. s = <<q.key>>
      BY <2>1, <2>2, <2>4, SingleListing
    <3>2. Made(q, s) = Found(s)
      BY <1>2, <3>1 DEF Made, Found
    <3> QED
      BY <1>2, <2>4, <3>1, <3>2, MemReadSays
  <2> QED
    BY <2>3, <2>4
<1>3. CASE q.op = "FindByIdentification"
  <2>1. q.op \in Single /\ \A row : Matches(q, row) <=> Identification[row] = q.key
    BY <1>3 DEF Single, Matches, Bulk
  <2>2. Selected(q, SeedEstate) = {row \in Stored : Identification[row] = q.key}
    BY <1>3, <2>1 DEF Selected, Table, SeedEstate, Single
  <2> DEFINE i == FirstHolder(q.key)
  <2>3. CASE i = 0 /\ \A a \in Stored : Identification[a] # q.key
    <3>1. s = << >>
      BY <2>1, <2>2, <2>3, SingleListing
    <3>2. MemRead(q) = NotFound
      BY <1>3, <2>3, MemReadSays
    <3> QED
      BY <2>1, <3>1, <3>2 DEF Made
  <2>4. CASE i \in 1..Len(Order) /\ Identification[Order[i]] = q.key
    <3>1. Order[i] \in Stored
      BY <2>4, SeedAccounts
    <3>2. \A row \in Selected(q, SeedEstate) : row = Order[i]
      BY <2>2, <2>4, <3>1, SeedAssumption
    <3>3. s = <<Order[i]>>
      BY <2>1, <2>2, <2>4, <3>1, <3>2, SingleListing
    <3>4. Made(q, s) = Found(s)
      BY <1>3, <3>3 DEF Made, Found
    <3>5. i # 0
      BY <2>4
    <3> QED
      BY <1>3, <3>3, <3>4, <3>5, MemReadSays
  <2> QED
    BY <2>3, <2>4, HolderSays
<1>4. CASE q.op \notin Single
  <2>1. IsListing(s, Selected(q, SeedEstate))
    BY <1>4, ManyListing
  <2>2. Selected(q, SeedEstate) \in SUBSET Int
    <3>1. Selected(q, SeedEstate) \subseteq Rows
      BY SelectedType, SeedAssumption
    <3> QED
      BY <3>1, RowsAssumption DEF Rows
  <2>3. Made(q, s) = Found(IF q.op = "AvailableBalance" THEN InterimOf(s) ELSE s)
    BY <1>4 DEF Made, Found
  <2>4. CASE q.op = "ListAccounts"
    <3>1. Selected(q, SeedEstate) = Stored
      BY <2>4 DEF Selected, Matches, Bulk, Table, SeedEstate
    <3>2. s = Order
      BY <2>1, <2>2, <3>1, SeedAssumption, ListingUnique
    <3> QED
      BY <2>3, <2>4, <3>2, MemReadSays
  <2>5. CASE q.op \in Bulk \ {"ListAccounts"}
    <3>1. SeedOf(q.op) \in {SeedBalances, SeedTransactions}
          /\ SeedEstate[Table(q.op)] = UNION {Seqs!ToSet(SeedOf(q.op)[a]) : a \in Stored}
      BY <1>1, <1>4, <2>5, SeedTable
    <3>2. Selected(q, SeedEstate) = SeedEstate[Table(q.op)]
      <4>1. \A row : Matches(q, row)
        BY <2>5 DEF Matches, Bulk
      <4> QED
        BY <4>1 DEF Selected
    <3>3. IsListing(OfAll(SeedOf(q.op)), Selected(q, SeedEstate))
      BY <3>1, <3>2, OfAllIsListing
    <3>4. s = OfAll(SeedOf(q.op))
      BY <2>1, <2>2, <3>3, ListingUnique
    <3>5. q.op # "AvailableBalance"
      BY <2>5 DEF Bulk
    <3> QED
      BY <2>3, <2>5, <3>4, <3>5, MemReadSays
  <2>6. CASE q.op \in Scoped
    <3>1. q.key \in Stored
      BY <2>6
    <3>2. SeedOf(q.op) \in {SeedBalances, SeedTransactions}
      BY <1>1, <1>4, <2>6, SeedTable DEF Scoped
    <3>3. IsListing(SeedOf(q.op)[q.key], Selected(q, SeedEstate))
      BY <2>6, <3>1, <3>2, SeedScoped, SeedAssumption
    <3>4. s = SeedOf(q.op)[q.key]
      BY <2>1, <2>2, <3>3, ListingUnique
    <3> QED
      BY <2>3, <2>6, <3>1, <3>4, MemReadSays DEF Scoped
  <2> QED
    BY <1>1, <1>4, <2>4, <2>5, <2>6 DEF Ops
<1> QED
  BY <1>1, <1>2, <1>3, <1>4 DEF Single

\* A table is listed row by row: the listing is as long as the table is large.
LEMMA ListingCounts ==
    ASSUME NEW S \in SUBSET Int, NEW s, IsListing(s, S)
    PROVE  s \in [1..Cardinality(S) -> S]
<1>1. s \in [1..Len(s) -> S] /\ Len(s) \in Nat
  BY LenProperties DEF IsListing
<1>2. ASSUME NEW i \in 1..Len(s), NEW j \in 1..Len(s), s[i] = s[j]
      PROVE  i = j
  <2>1. s[i] \in Int /\ s[j] \in Int
    BY <1>1
  <2>2. ~(s[i] < s[j]) /\ ~(s[j] < s[i])
    BY <1>2, <2>1
  <2>3. ~(i < j) /\ ~(j < i)
    BY <2>2 DEF IsListing
  <2> QED
    BY <1>1, <2>3
<1>3. s \in Bijection(1..Len(s), S)
  BY <1>1, <1>2 DEF IsListing, Bijection, Injection, Surjection, IsInjective
<1>4. ExistsBijection(1..Len(s), S)
  BY <1>3 DEF ExistsBijection
<1>5. Cardinality(S) = Len(s)
  BY <1>1, <1>4, FS_CountingElements
<1> QED
  BY <1>1, <1>5

\* The memory repository is an implementation of the port at the seed: each of
\* its answers is one that the port allows, and Scoped calls are refused exactly
\* for the accounts that the seed does not have.
THEOREM MemoryAnswersAsPort ==
    \A q \in Queries :
        IF q.op \in Scoped /\ q.key \notin Stored THEN MemRead(q) = NotFound
        ELSE \E s \in Listings(q, SeedEstate) : MemRead(q) = Made(q, s)
<1> SUFFICES ASSUME NEW q \in Queries
             PROVE  IF q.op \in Scoped /\ q.key \notin Stored THEN MemRead(q) = NotFound
                    ELSE \E s \in Listings(q, SeedEstate) : MemRead(q) = Made(q, s)
  OBVIOUS
<1> DEFINE S == Selected(q, SeedEstate)
<1>1. CASE q.op \in Scoped /\ q.key \notin Stored
  <2>1. Refused(q)
    BY <1>1 DEF Refused
  <2> QED
    BY <1>1, <2>1, MemReadSays
<1>2. CASE q.op \in Scoped => q.key \in Stored
  <2>1. \E s : s \in Listings(q, SeedEstate)
    <3>1. CASE q.op \in Single
      BY <3>1 DEF Listings
    <3>2. CASE q.op \notin Single
      <4>1. q.op \in Ops
        BY DEF Queries
      <4>2. \E s : IsListing(s, S)
        <5>1. CASE q.op = "ListAccounts"
          <6>1. S = Stored
            BY <5>1 DEF Selected, Matches, Bulk, Table, SeedEstate
          <6> QED
            BY <6>1, SeedAssumption
        <5>2. CASE q.op \in Bulk \ {"ListAccounts"}
          <6>1. \A row : Matches(q, row)
            BY <5>2 DEF Matches, Bulk
          <6>2. S = SeedEstate[Table(q.op)]
            BY <6>1 DEF Selected
          <6>3. /\ SeedOf(q.op) \in {SeedBalances, SeedTransactions}
                /\ S = UNION {Seqs!ToSet(SeedOf(q.op)[a]) : a \in Stored}
            BY <3>2, <4>1, <5>2, <6>2, SeedTable
          <6>4. IsListing(OfAll(SeedOf(q.op)), S)
            BY <6>3, OfAllIsListing
          <6> QED
            BY <6>4
        <5>3. CASE q.op \in Scoped
          <6>1. SeedOf(q.op) \in {SeedBalances, SeedTransactions}
            BY <3>2, <4>1, <5>3, SeedTable DEF Scoped
          <6> QED
            BY <1>2, <5>3, <6>1, SeedScoped, SeedAssumption
        <5> QED
          BY <3>2, <4>1, <5>1, <5>2, <5>3 DEF Ops
      <4>3. PICK s : IsListing(s, S)
        BY <4>2
      <4>4. S \in SUBSET Int
        BY SelectedType, SeedAssumption, RowsAssumption DEF Rows
      <4>5. s \in [1..Cardinality(S) -> S]
        BY <4>3, <4>4, ListingCounts
      <4> QED
        BY <3>2, <4>3, <4>5 DEF Listings
    <3> QED
      BY <3>1, <3>2
  <2> QED
    BY <1>2, <2>1, SeedAnswers
<1> QED
  BY <1>1, <1>2

\* What is known of a call on the seed, as long as nothing is added to it.
SeedOK(r) ==
    /\ pc[r] = "rows" =>
          /\ snap[r] \in Listings(args[r], SeedEstate)
          /\ args[r].op \in Scoped => args[r].key \in Stored
    /\ pc[r] = "done" /\ res[r] # NoResult => res[r] = MemRead(args[r])

SeedIInv ==
    /\ IInv
    /\ Within(SeedEstate, db)
    /\ db = SeedEstate => \A r \in Callers : SeedOK(r)

\* A step of one caller that leaves the estate alone.
LEMMA SeedStepOf ==
    ASSUME SeedIInv, NEW r \in Callers, db' = db,
           \A s \in Callers \ {r} :
              /\ pc'[s] = pc[s] /\ args'[s] = args[s]
              /\ snap'[s] = snap[s] /\ res'[s] = res[s],
           db = SeedEstate => SeedOK(r)'
    PROVE  /\ Within(SeedEstate, db)'
           /\ (db = SeedEstate => \A s \in Callers : SeedOK(s))'
<1>1. Within(SeedEstate, db)'
  BY DEF SeedIInv, Within
<1>2. ASSUME db = SeedEstate, NEW s \in Callers \ {r}
      PROVE  SeedOK(s)'
  <2>1. SeedOK(s)
    BY <1>2 DEF SeedIInv
  <2> QED
    BY <2>1 DEF SeedOK
<1> QED
  BY <1>1, <1>2

LEMMA SeedStep ==
    ASSUME SeedIInv, IInv', [Next]_pgVars
    PROVE  SeedIInv'
<1>0. TypeOK /\ \A r \in Callers : CallerOK(r)
  BY DEF SeedIInv, IInv
<1> SUFFICES /\ Within(SeedEstate, db)'
             /\ (db = SeedEstate => \A s \in Callers : SeedOK(s))'
  BY DEF SeedIInv
<1>1. ASSUME NEW r \in Callers, NEW q \in Calls, Call(r, q)
      PROVE  Within(SeedEstate, db)' /\ (db = SeedEstate => \A s \in Callers : SeedOK(s))'
  <2>1. Alone(r) /\ UNCHANGED db /\ pc'[r] = "acquire"
    BY <1>0, <1>1 DEF Call, Alone, TypeOK
  <2>2. SeedOK(r)'
    BY <2>1 DEF SeedOK
  <2>3. \A s \in Callers \ {r} : args'[s] = args[s]
    BY <1>0, <1>1 DEF Call, TypeOK
  <2> QED
    BY <2>1, <2>2, <2>3, SeedStepOf DEF Alone
<1>2. ASSUME NEW r \in Callers, Acquire(r) \/ Exists(r)
      PROVE  Within(SeedEstate, db)' /\ (db = SeedEstate => \A s \in Callers : SeedOK(s))'
  <2>1. Alone(r) /\ UNCHANGED <<db, args>> /\ pc'[r] \in {"acquire", "query"}
    BY <1>0, <1>2 DEF Acquire, Exists, Alone, TypeOK
  <2>2. SeedOK(r)'
    BY <2>1 DEF SeedOK
  <2> QED
    BY <2>1, <2>2, SeedStepOf DEF Alone
<1>3. ASSUME NEW r \in Callers, ExistsNot(r)
      PROVE  Within(SeedEstate, db)' /\ (db = SeedEstate => \A s \in Callers : SeedOK(s))'
  <2>1. Alone(r) /\ UNCHANGED <<db, args>> /\ pc'[r] = "done" /\ res'[r] = NotFound
    BY <1>0, <1>3 DEF ExistsNot, Return, Alone, TypeOK
  <2>2. args[r].op \in Scoped /\ args[r].key \notin db.accounts
    BY <1>0, <1>3 DEF ExistsNot, CallerOK
  <2>3. ASSUME db = SeedEstate
        PROVE  SeedOK(r)'
    <3>1. Refused(args[r])
      BY <2>2, <2>3 DEF Refused, SeedEstate
    <3>2. MemRead(args[r]) = NotFound
      BY <3>1, MemReadSays
    <3> QED
      BY <2>1, <3>2 DEF SeedOK
  <2> QED
    BY <2>1, <2>3, SeedStepOf DEF Alone
<1>4. ASSUME NEW r \in Callers, Select(r)
      PROVE  Within(SeedEstate, db)' /\ (db = SeedEstate => \A s \in Callers : SeedOK(s))'
  <2>1. Alone(r) /\ UNCHANGED <<db, args>>
    BY <1>0, <1>4 DEF Select, Alone, TypeOK
  <2>2. PICK s \in Listings(args[r], db) : snap' = [snap EXCEPT ![r] = s]
    BY <1>4 DEF Select
  <2>3. pc[r] = "query" /\ stage[r] = "select" /\ pc'[r] = "rows" /\ snap'[r] = s
    BY <1>0, <1>4, <2>2 DEF Select, TypeOK
  <2>4. args[r].op \in Scoped => args[r].key \in db.accounts
    BY <1>0, <2>3 DEF CallerOK
  <2>5. db = SeedEstate => SeedOK(r)'
    BY <2>1, <2>2, <2>3, <2>4 DEF SeedOK, SeedEstate
  <2> QED
    BY <2>1, <2>5, SeedStepOf DEF Alone
<1>5. ASSUME NEW r \in Callers, Scan(r)
      PROVE  Within(SeedEstate, db)' /\ (db = SeedEstate => \A s \in Callers : SeedOK(s))'
  <2>1. UNCHANGED <<db, args, pc, snap, res>>
    BY <1>5 DEF Scan
  <2>2. db = SeedEstate => SeedOK(r)'
    BY <2>1 DEF SeedOK, SeedIInv
  <2> QED
    BY <2>1, <2>2, SeedStepOf
<1>6. ASSUME NEW r \in Callers, RowsEnd(r)
      PROVE  Within(SeedEstate, db)' /\ (db = SeedEstate => \A s \in Callers : SeedOK(s))'
  <2>1. Alone(r) /\ UNCHANGED <<db, args>>
    BY <1>0, <1>6 DEF RowsEnd, Return, Alone, TypeOK
  <2>2. pc[r] = "rows" /\ pc'[r] = "done" /\ res'[r] = Made(args[r], snap[r])
    BY <1>0, <1>6 DEF RowsEnd, Return, TypeOK
  <2>3. ASSUME db = SeedEstate
        PROVE  SeedOK(r)'
    <3>1. /\ snap[r] \in Listings(args[r], SeedEstate)
          /\ args[r].op \in Scoped => args[r].key \in Stored
      BY <2>2, <2>3 DEF SeedIInv, SeedOK
    <3>2. args[r] \in Queries
      BY <1>0 DEF TypeOK
    <3>3. Made(args[r], snap[r]) = MemRead(args[r])
      BY <3>1, <3>2, SeedAnswers
    <3> QED
      BY <2>1, <2>2, <3>3 DEF SeedOK
  <2> QED
    BY <2>1, <2>3, SeedStepOf DEF Alone
<1>7. ASSUME NEW r \in Callers,
             ScanFails(r) \/ Broken(r) \/ QueryFails(r) \/ Cancelled(r)
      PROVE  Within(SeedEstate, db)' /\ (db = SeedEstate => \A s \in Callers : SeedOK(s))'
  <2>1. Return(r, NoResult)
    BY <1>7 DEF ScanFails, Broken, QueryFails, Cancelled
  <2>2. Alone(r) /\ UNCHANGED <<db, args>> /\ pc'[r] = "done" /\ res'[r] = NoResult
    BY <1>0, <2>1 DEF Return, Alone, TypeOK
  <2>3. SeedOK(r)'
    BY <2>2 DEF SeedOK
  <2> QED
    BY <2>2, <2>3, SeedStepOf DEF Alone
\* Once a migration has added a row the estate is never the seed again.
<1>8. CASE MigrationCommits
  <2>1. /\ db' \in Estates /\ db' # db /\ db \in Estates
        /\ \A t \in DOMAIN db : db[t] \subseteq db'[t]
    BY <1>0, <1>8 DEF MigrationCommits, TypeOK
  <2>2. Within(db, db')
    BY <2>1 DEF Within, Estates
  <2>3. Within(SeedEstate, db)
    BY DEF SeedIInv
  <2>4. Within(SeedEstate, db')
    BY <2>2, <2>3 DEF Within
  <2>5. db' # SeedEstate
    <3> SUFFICES ASSUME db' = SeedEstate
                 PROVE  db' = db
      BY <2>1
    <3>1. /\ db.accounts = db'.accounts /\ db.balances = db'.balances
          /\ db.transactions = db'.transactions
      BY <2>2, <2>3 DEF Within
    <3> QED
      BY <2>1, <3>1 DEF Estates
  <2>6. Within(SeedEstate, db)'
    BY <2>4 DEF Within
  <2> QED
    BY <2>5, <2>6
<1>9. CASE UNCHANGED pgVars
  <2>1. UNCHANGED <<db, args, pc, snap, res>>
    BY <1>9 DEF pgVars
  <2>2. Within(SeedEstate, db)'
    BY <2>1 DEF SeedIInv, Within
  <2>3. ASSUME db = SeedEstate, NEW s \in Callers
        PROVE  SeedOK(s)'
    BY <2>1, <2>3 DEF SeedIInv, SeedOK
  <2> QED
    BY <2>1, <2>2, <2>3
<1> QED
  BY <1>1, <1>2, <1>3, <1>4, <1>5, <1>6, <1>7, <1>8, <1>9 DEF Next, StatementStep

\* "so both backends behave identically": on any seed listed as seedAccounts
\* lists its own, whatever calls run concurrently and whatever fails, a call that
\* Postgres answers before anything is added is answered as MemRepository answers it.
THEOREM BackendsAgreeOnSeed == SeedSpec => []BackendsAgree
<1>1. SeedInit => SeedIInv
  <2> SUFFICES ASSUME SeedInit
               PROVE  SeedIInv
    OBVIOUS
  <2>1. IInv /\ db = SeedEstate
    BY InitIInv DEF SeedInit
  <2>2. \A r \in Callers : pc[r] = "idle"
    BY DEF SeedInit, Init
  <2>3. \A r \in Callers : SeedOK(r)
    BY <2>2 DEF SeedOK
  <2> QED
    BY <2>1, <2>3 DEF SeedIInv, Within
<1>2. SeedIInv /\ [Next]_pgVars => SeedIInv'
  BY StepIInv, SeedStep DEF SeedIInv
<1>3. SeedIInv => BackendsAgree
  BY DEF SeedIInv, SeedOK, BackendsAgree
<1> QED
  BY <1>1, <1>2, <1>3, PTL DEF SeedSpec

=============================================================================
