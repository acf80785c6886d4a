----------------------- MODULE AccountsServiceProofs -----------------------
(***************************************************************************)
(* Safety of the accounts service for any requests, consents, estate and   *)
(* calls: what the runs of MCAccounts check on small ones.                 *)
(*                                                                         *)
(* RequestOK(r) is the inductive part: what is known of a request at each  *)
(* place of its handler.  A request is disturbed by its own steps, and by  *)
(* the growth of the estate and the moves of its consent; for these two    *)
(* everything it knows is monotone (LEMMA EnvironmentKeeps).  What an      *)
(* answer of the repository is worth is kept as an instant of the past:    *)
(* an estate d, between the one at arrival and the present one, that the   *)
(* value was read from (ValueOK).                                          *)
(***************************************************************************)
EXTENDS AccountsService, EstateProofs

Guarded == {"consent", "answered", "repo"}

Fresh(r) ==
    LET now == consent[call[r].cid] IN
    /\ view[r].type = now.type /\ view[r].perms = now.perms
    /\ Reaches(arrival[r].status, view[r].status)
    /\ Reaches(view[r].status, now.status)

\* v is what a call q that looks at the estate d may be answered.
Seen(q, v, d) ==
    \/ \E s \in Listings(q, d) :
          /\ q.op \in Scoped => q.key \in d.accounts
          /\ v = Made(q, s)
    \/ /\ q.op \in Scoped /\ q.key \notin d.accounts
       /\ v = NotFound

ValueOK(r) ==
    state[r] = "answered" =>
        \E d \in Estates :
            /\ Within(arrival[r].db, d) /\ Within(d, db)
            /\ Seen(query[r], value[r], d)

\* What a repository call in progress was asked.
QueryOK(r) ==
    /\ pc[r] = "repo" => query[r] = QueryOf(call[r])
    /\ pc[r] = "find" => query[r] = [op |-> "FindByIdentification", key |-> call[r].key]
    /\ pc[r] = "balance" =>
          /\ query[r].op = "AvailableBalance" /\ query[r].key \in db.accounts
          /\ Identification[query[r].key] = call[r].key

\* What an answer owes to the request's arrival and to the estate.
BodyOK(r) ==
    /\ \E S \in SUBSET About(call[r], db) :
          About(call[r], arrival[r].db) \subseteq S /\ IsListing(Shown(r), S)
    /\ \A i \in 1..Len(resp[r].body) :
          resp[r].body[i] = Resource(OpOf(call[r].ep), resp[r].body[i].row)

FundsOK(r) ==
    /\ Confirms(r) \in db.accounts
    /\ Identification[Confirms(r)] = call[r].key
    /\ IF resp[r].funds
       THEN CoveredIn(Confirms(r), call[r].amount, db)
       ELSE ~CoveredIn(Confirms(r), call[r].amount, arrival[r].db)

AnswerOK(r) ==
    /\ Disclosed(r) =>
          /\ arrival[r].status \notin Ended
          /\ resp[r].code = 200 => BodyOK(r)
          /\ resp[r].code = 404 => call[r].ep \notin BulkEndpoints
    /\ (pc[r] = "done" /\ resp[r].code = 404) =>
          \A a \in arrival[r].db.accounts :
              IF call[r].ep = Funds THEN Identification[a] # call[r].key
                                    ELSE a # call[r].key
    /\ (pc[r] = "done" /\ resp[r].code # 200) => resp[r].body = << >>
    /\ Confirmed(r) => FundsOK(r)

RequestOK(r) ==
    /\ pc[r] # "idle" =>
          /\ call[r] \in Calls
          /\ Within(arrival[r].db, db)
          /\ call[r].cid \in ConsentIds =>
                Reaches(arrival[r].status, consent[call[r].cid].status)
    /\ pc[r] \in Guarded =>
          call[r].ep \in PublicEndpoints /\ call[r].cid \in ConsentIds
    /\ pc[r] \in {"answered", "repo"} => Fresh(r)
    /\ pc[r] = "repo" => view[r].status = StatusAuthorised
    /\ pc[r] \in {"find", "balance"} => call[r].ep = Funds /\ ValidFunds(call[r])
    /\ InRepository(r) => ValueOK(r)
    /\ QueryOK(r)
    /\ AnswerOK(r)

IInv == TypeOK /\ \A r \in Callers : RequestOK(r)

-----------------------------------------------------------------------------
(* Consents.                                                               *)

\* A status a consent may move to is reachable from the one it leaves, and
\* reachability composes: the life of a consent has no way back.
LEMMA ReachesTransitive ==
    ASSUME NEW s \in Statuses, NEW t \in Statuses, NEW u \in Statuses,
           Reaches(s, t), Reaches(t, u)
    PROVE  Reaches(s, u)
  BY DEF Reaches, Statuses, Ended, Unknown, StatusAwaitingAuthorisation,
         StatusAuthorised, StatusRejected, StatusRevoked, StatusConsumed

\* One move of a consent in the consent service goes forward.
LEMMA MoveReaches ==
    ASSUME NEW v \in View, NEW s \in MayBecome(v)
    PROVE  s \in Statuses /\ Reaches(v.status, s)
  BY DEF View, MayBecome, Reaches, Statuses, Ended, Unknown,
         StatusAwaitingAuthorisation, StatusAuthorised, StatusRejected,
         StatusRevoked, StatusConsumed

\* A move changes nothing of any consent but its status, and that forward.
LEMMA ConsentMonotone ==
    ASSUME consent \in [ConsentIds -> View], NEW c \in ConsentIds, MoveConsent(c)
    PROVE  /\ consent' \in [ConsentIds -> View]
           /\ \A d \in ConsentIds :
                 /\ consent'[d].type = consent[d].type
                 /\ consent'[d].perms = consent[d].perms
                 /\ Reaches(consent[d].status, consent'[d].status)
<1>1. PICK s \in MayBecome(consent[c]) :
          consent' = [consent EXCEPT ![c].status = s]
  BY DEF MoveConsent
<1>2. s \in Statuses /\ Reaches(consent[c].status, s)
  BY <1>1, MoveReaches
<1>3. ASSUME NEW d \in ConsentIds
      PROVE  /\ consent'[d] \in View
             /\ consent'[d].type = consent[d].type
             /\ consent'[d].perms = consent[d].perms
             /\ Reaches(consent[d].status, consent'[d].status)
  BY <1>1, <1>2 DEF View, Reaches
<1>4. consent' = [d \in ConsentIds |-> consent'[d]]
  BY <1>1
<1> QED
  BY <1>3, <1>4

-----------------------------------------------------------------------------
(* The estate, queries and bodies.                                         *)

\* Endpoints are of three disjoint kinds.
LEMMA EndpointKinds ==
    /\ Funds \notin PublicEndpoints /\ BulkEndpoints \cap ScopedEndpoints = {}
    /\ BulkEndpoints \subseteq PublicEndpoints /\ ScopedEndpoints \subseteq PublicEndpoints
  BY DEF Funds, PublicEndpoints, BulkEndpoints, ScopedEndpoints

\* Tables only grow, and what has grown twice has grown.
LEMMA WithinComposes ==
    ASSUME NEW a, NEW b, NEW c, Within(a, b), Within(b, c)
    PROVE  Within(a, c)
  BY DEF Within

\* A step of the estate is a growth of each table.
LEMMA GrowIsWithin ==
    ASSUME db \in Estates, Grow
    PROVE  Within(db, db')
<1>1. DOMAIN db = {"accounts", "balances", "transactions"}
  BY DEF Estates
<1>2. \A t \in DOMAIN db : db[t] \subseteq db'[t]
  BY DEF Grow
<1> QED
  BY <1>1, <1>2 DEF Within

\* What a handler asks of the repository is one of its calls.
LEMMA QueryOfType ==
    ASSUME NEW c \in Calls, c.ep \in PublicEndpoints \/ ValidFunds(c)
    PROVE  QueryOf(c) \in Queries
<1>1. c \in Call /\ WellFormed(c)
  BY CallsAssumption
<1>2. CASE c.ep \in BulkEndpoints
  BY <1>1, <1>2 DEF WellFormed, QueryOf, OpOf, Queries, Keys, Ops, Bulk, Single, Scoped,
     BulkEndpoints, ScopedEndpoints
<1>3. CASE c.ep \in ScopedEndpoints
  BY <1>1, <1>3 DEF WellFormed, QueryOf, OpOf, Queries, Keys, Ops, Bulk, Single, Scoped,
     BulkEndpoints, ScopedEndpoints
<1>4. CASE c.ep = Funds
  <2>1. c.key \in Idents
    BY <1>1, <1>4, EndpointKinds DEF WellFormed, ValidFunds, PublicEndpoints
  <2> QED
    BY <1>4, <2>1 DEF QueryOf, OpOf, Queries, Keys, Ops, Bulk, Single, Scoped, Funds
<1> QED
  BY <1>1, <1>2, <1>3, <1>4 DEF Call, PublicEndpoints

\* What a public read asks for is what it is about.
LEMMA AboutIsSelected ==
    ASSUME NEW c, c.ep \in PublicEndpoints, NEW d
    PROVE  About(c, d) = Selected(QueryOf(c), d)
<1> USE DEF QueryOf, OpOf, Selected, Table, Matches, Bulk, Single, About
<1>1. CASE c.ep = "listAccounts"
  BY <1>1
<1>2. CASE c.ep = "getAccount"
  BY <1>2
<1>3. CASE c.ep = "allBalances"
  BY <1>3
<1>4. CASE c.ep = "accountBalances"
  BY <1>4
<1>5. CASE c.ep = "allTransactions"
  BY <1>5
<1>6. CASE c.ep = "accountTransactions"
  BY <1>6
<1> QED
  BY <1>1, <1>2, <1>3, <1>4, <1>5, <1>6 DEF PublicEndpoints, BulkEndpoints, ScopedEndpoints

\* The value of a call is a value of the port.
LEMMA SeenType ==
    ASSUME NEW q \in Queries, NEW d \in Estates, NEW v, Seen(q, v, d)
    PROVE  v \in Values
<1>1. NotFound \in Values
  BY DEF NotFound, Values
<1> QED
  BY <1>1, ListingsType, MadeType DEF Seen

\* What looks at the estate now, or gives up, has seen the estate of now.
LEMMA LookSees ==
    ASSUME TypeOK, NEW r \in Callers, Look(r) \/ GiveUp(r)
    PROVE  /\ db' = db /\ query' = query
           /\ \A q \in Callers \ {r} : state'[q] = state[q] /\ value'[q] = value[q]
           /\ state' \in [Callers -> {"idle", "asked", "answered", "failed"}]
           /\ value' = [value EXCEPT ![r] = value'[r]]
           /\ state'[r] = "answered" => Seen(query[r], value'[r], db)
           /\ state'[r] # "answered" => value'[r] = NotFound
<1>1. CASE Look(r)
  <2>1. PICK v : Give(r, v) /\ Seen(query[r], v, db)
    BY <1>1 DEF Look, Seen
  <2> QED
    BY <2>1 DEF Give, TypeOK
<1>2. CASE GiveUp(r)
  BY <1>2 DEF GiveUp, TypeOK
<1> QED
  BY <1>1, <1>2

\* A resource shows its row.
LEMMA ResourceRow ==
    ASSUME NEW op, NEW row
    PROVE  Resource(op, row).row = row
<1>1. \/ Resource(op, row) = accountToDTO(row)
      \/ Resource(op, row) = balanceToDTO(row)
      \/ Resource(op, row) = transactionToDTO(row)
  BY DEF Resource
<1> QED
  BY <1>1 DEF accountToDTO, balanceToDTO, transactionToDTO

\* The resource of a selected row has the shape its endpoint promises.
LEMMA ResourceType ==
    ASSUME NEW q \in Queries, NEW d \in Estates, NEW row \in Selected(q, d)
    PROVE  Resource(q.op, row) \in Resources
<1>1. row \in d[Table(q.op)]
  BY DEF Selected
<1>2. CASE Table(q.op) = "accounts"
  <2>1. row \in Accounts
    BY <1>1, <1>2 DEF Estates
  <2>2. Identification[row] \in Idents
    BY <2>1, RowsAssumption
  <2> QED
    BY <1>2, <2>1, <2>2 DEF Resource, accountToDTO, Resources
<1>3. CASE Table(q.op) # "accounts"
  <2>1. row \in Balances \cup Transactions
    BY <1>1, <1>3 DEF Estates, Table
  <2>2. /\ Owner[row] \in Accounts
        /\ Entry[row] \in [indicator : {Credit, Debit}, amount : Amount]
    BY <2>1, RowsAssumption, EntryAssumption
  <2>3. Resource(q.op, row) = [row |-> row, account |-> Owner[row],
                               indicator |-> Entry[row].indicator, amount |-> Entry[row].amount]
    BY <1>3 DEF Resource, balanceToDTO, transactionToDTO
  <2> QED
    BY <2>1, <2>2, <2>3 DEF Resources
<1> QED
  BY <1>2, <1>3

\* The body made of the rows of a listing shows these rows, each as its resource.
LEMMA BodyShows ==
    ASSUME NEW q \in Queries, NEW d \in Estates, NEW s \in Seq(Selected(q, d))
    PROVE  /\ Body(q.op, s) \in Seq(Resources)
           /\ Len(Body(q.op, s)) = Len(s)
           /\ \A i \in 1..Len(s) : Body(q.op, s)[i] = Resource(q.op, s[i])
           /\ [i \in 1..Len(Body(q.op, s)) |-> Body(q.op, s)[i].row] = s
<1> DEFINE b == Body(q.op, s)
<1>1. Len(s) \in Nat /\ s \in [1..Len(s) -> Selected(q, d)]
  BY LenProperties
<1>2. \A i \in 1..Len(s) : Resource(q.op, s[i]) \in Resources
  BY <1>1, ResourceType
<1>3. b = [i \in 1..Len(s) |-> Resource(q.op, s[i])]
  BY DEF Body
<1>4. b \in [1..Len(s) -> Resources]
  BY <1>2, <1>3
<1> HIDE DEF b
<1>5. b \in Seq(Resources) /\ Len(b) = Len(s)
  BY <1>1, <1>4
<1>6. \A i \in 1..Len(s) : b[i] = Resource(q.op, s[i])
  BY <1>3
<1>7. [i \in 1..Len(b) |-> b[i].row] = s
  BY <1>1, <1>5, <1>6, ResourceRow
<1> QED
  BY <1>5, <1>6, <1>7 DEF b

-----------------------------------------------------------------------------
(* What an answer of the repository tells of the estate it was read from.   *)

\* A public read gets all the rows it is about, or learns that the account it
\* names is not there, which a bulk read never does.
LEMMA ReadValue ==
    ASSUME NEW c \in Calls, c.ep \in PublicEndpoints,
           NEW d \in Estates, NEW v, Seen(QueryOf(c), v, d)
    PROVE  /\ v.found => IsListing(v.rows, About(c, d))
           /\ ~v.found => c.ep \notin BulkEndpoints /\ \A a \in d.accounts : a # c.key
<1> DEFINE q == QueryOf(c)
<1>1. About(c, d) = Selected(q, d)
  BY AboutIsSelected
<1>2. /\ q.key = c.key /\ q.op # "AvailableBalance" /\ q.op # "FindByIdentification"
      /\ q.op \in Ops
      /\ c.ep \in BulkEndpoints => q.op \notin Single \cup Scoped
  BY DEF QueryOf, OpOf, Single, Scoped, Bulk, Ops, PublicEndpoints, BulkEndpoints, ScopedEndpoints
<1>3. Table("GetAccount") = "accounts"
  BY DEF Table, Single
<1> HIDE DEF q
<1>4. CASE q.op \in Scoped /\ q.key \notin d.accounts /\ v = NotFound
  BY <1>2, <1>4 DEF NotFound
<1>5. ASSUME NEW s \in Listings(q, d), v = Made(q, s)
      PROVE  /\ v.found => IsListing(v.rows, Selected(q, d))
             /\ ~v.found => c.ep \notin BulkEndpoints /\ \A a \in d.accounts : a # c.key
  <2>1. CASE q.op \notin Single
    <3>1. v = [found |-> TRUE, rows |-> s]
      BY <1>2, <1>5, <2>1 DEF Made
    <3>2. IsListing(s, Selected(q, d))
      BY <1>5, <2>1, ManyListing
    <3> QED
      BY <3>1, <3>2
  <2>2. CASE q.op \in Single /\ s = << >> /\ Selected(q, d) = {}
    <3>1. v = NotFound /\ q.op = "GetAccount"
      BY <1>2, <1>5, <2>2 DEF Made, Single
    <3>2. \A a \in d.accounts : a # q.key
      BY <1>3, <2>2, <3>1 DEF Selected, Matches, Bulk
    <3> QED
      BY <1>2, <2>2, <3>1, <3>2 DEF NotFound
  <2>3. ASSUME q.op \in Single, NEW row \in Selected(q, d), s = <<row>>
        PROVE  v.found /\ IsListing(v.rows, Selected(q, d))
    <3>1. v = [found |-> TRUE, rows |-> <<row>>] /\ q.op = "GetAccount"
      BY <1>2, <1>5, <2>3 DEF Made, Single
    <3>2. \A x \in Selected(q, d) : x = row
      BY <2>3, <3>1 DEF Selected, Matches, Bulk
    <3>3. Len(<<row>>) = 1 /\ <<row>>[1] = row /\ <<row>> \in Seq(Selected(q, d))
      BY <2>3
    <3>4. IsListing(<<row>>, Selected(q, d))
      BY <3>2, <3>3 DEF IsListing
    <3> QED
      BY <3>1, <3>4
  <2> QED
    BY <1>5, <2>1, <2>2, <2>3, SingleListing
<1> QED
  BY <1>1, <1>4, <1>5 DEF Seen, q

\* FindByIdentification gets an account with the identification, if there is one.
LEMMA FindValue ==
    ASSUME NEW q, q.op = "FindByIdentification",
           NEW d \in Estates, NEW v, Seen(q, v, d)
    PROVE  /\ v.found => v.rows[1] \in d.accounts /\ Identification[v.rows[1]] = q.key
           /\ ~v.found => \A a \in d.accounts : Identification[a] # q.key
<1>1. q.op \in Single /\ q.op \notin Scoped /\ Table(q.op) = "accounts"
  BY DEF Single, Scoped, Table
<1>2. Selected(q, d) = {a \in d.accounts : Identification[a] = q.key}
  BY <1>1 DEF Selected, Matches, Bulk
<1>3. PICK s \in Listings(q, d) : v = Made(q, s)
  BY <1>1 DEF Seen
<1>4. CASE s = << >> /\ Selected(q, d) = {}
  BY <1>1, <1>2, <1>3, <1>4 DEF Made, NotFound
<1>5. ASSUME NEW row \in Selected(q, d), s = <<row>>
      PROVE  v.found /\ v.rows[1] = row
  BY <1>3, <1>5 DEF Made
<1> QED
  BY <1>1, <1>2, <1>3, <1>4, <1>5, SingleListing

\* The comparison says yes exactly when the estate the balance was read from
\* covers the amount.
LEMMA FundsValue ==
    ASSUME NEW q, q.op = "AvailableBalance", NEW d \in Estates, NEW v, Seen(q, v, d),
           v.found, NEW amount \in Amount, amount.currency \in Currencies
    PROVE  Sufficient(AvailableBalance(v.rows), amount) <=> CoveredIn(q.key, amount, d)
<1>1. q.op \notin Single /\ Table(q.op) = "balances"
  BY DEF Single, Table
<1>2. PICK s \in Listings(q, d) : v = Made(q, s)
  BY DEF Seen, NotFound
<1>3. v.rows = InterimOf(s)
  BY <1>1, <1>2 DEF Made
<1> DEFINE S == Selected(q, d)
<1>4. S = {b \in d.balances : Owner[b] = q.key}
  BY <1>1 DEF Selected, Matches, Bulk
<1>5. IsListing(s, S)
  BY <1>1, <1>2, ManyListing
<1> HIDE DEF S
<1>6. CASE InterimOf(s) = << >> /\ S \cap Interim = {}
  <2>1. ~Sufficient(AvailableBalance(v.rows), amount)
    BY <1>3, <1>6, EntryAssumption DEF AvailableBalance, Sufficient, ZeroAmount
  <2>2. ~CoveredIn(q.key, amount, d)
    BY <1>4, <1>6 DEF CoveredIn
  <2> QED
    BY <2>1, <2>2
<1>7. ASSUME NEW b \in S \cap Interim, InterimOf(s) = <<b>>
      PROVE  Sufficient(AvailableBalance(v.rows), amount) <=> CoveredIn(q.key, amount, d)
  <2>1. b \in d.balances /\ b \in Interim /\ Owner[b] = q.key /\ b \in Balances
    BY <1>4, RowsAssumption
  <2>2. \A x \in d.balances \cap Interim : Owner[x] = q.key => x = b
    BY <2>1, RowsAssumption
  <2>3. CoveredIn(q.key, amount, d) <=> Covers(Entry[b], amount)
    BY <2>1, <2>2 DEF CoveredIn
  <2>4. Entry[b] \in [indicator : {Credit, Debit}, amount : Amount]
    BY <2>1, EntryAssumption
  <2>5. v.rows # << >> /\ v.rows[1] = b
    BY <1>3, <1>7
  <2> DEFINE e == Entry[b]
  <2>6. AvailableBalance(v.rows) = IF e.indicator = Debit
                                   THEN [e.amount EXCEPT !.value = -e.amount.value]
                                   ELSE e.amount
    BY <2>5 DEF AvailableBalance
  <2> HIDE DEF e
  <2>7. /\ AvailableBalance(v.rows).currency = e.amount.currency
        /\ AvailableBalance(v.rows).value = Worth(e)
    BY <2>4, <2>6 DEF e, Amount, Worth, Credit, Debit
  <2> QED
    BY <2>3, <2>7 DEF Sufficient, Covers, e
<1> QED
  BY <1>5, <1>6, <1>7, InterimFound

-----------------------------------------------------------------------------
(* Types.                                                                  *)

\* The service starts with variables of their types.
LEMMA InitTypeOK ==
    ASSUME Init
    PROVE  TypeOK
<1>1. PICK g \in [ConsentIds -> Grants] :
          consent = [c \in ConsentIds |->
                       [type |-> g[c].type, perms |-> g[c].perms, status |-> Unknown]]
  BY DEF Init, ConsentInit
<1>2. \A c \in ConsentIds : g[c].type \in ConsentTypes /\ g[c].perms \in SUBSET Permissions
  BY GrantsAssumption
<1>3. consent \in [ConsentIds -> View]
  BY <1>1, <1>2 DEF View, Statuses
<1>4. NoView \in View
  BY DEF NoView, View, ConsentTypes, Statuses, TypeAccountAccess
<1>5. NoAnswer \in Answers
  <2>1. << >> \in Seq(Resources)
    BY EmptySeq
  <2> QED
    BY <2>1 DEF NoAnswer, Answers, Codes
<1>6. db \in Estates /\ ForeignKeys(db)
  BY DEF Init, PortInit
<1>7. [status |-> Unknown, db |-> db] \in Arrivals
  BY <1>6 DEF Arrivals, Statuses
<1>8. [op |-> "ListAccounts", key |-> NoKey] \in Queries
  BY DEF Queries, Ops, Keys, Single, Scoped, Bulk
<1>9. NotFound \in Values
  BY DEF NotFound, Values
<1> QED
  BY <1>3, <1>4, <1>5, <1>6, <1>7, <1>8, <1>9 DEF Init, PortInit, TypeOK

\* An answer of a code, a body and a yes or no keeps every type.
LEMMA AnswerTypeOK ==
    ASSUME TypeOK, NEW r \in Callers, NEW code \in Codes,
           NEW body \in Seq(Resources), NEW funds \in BOOLEAN,
           Answer(r, code, body, funds)
    PROVE  TypeOK'
<1>1. [code |-> code, body |-> body, funds |-> funds] \in Answers
  BY DEF Answers
<1>2. resp' \in [Callers -> Answers]
  BY <1>1 DEF TypeOK, Answer
<1> QED
  BY <1>2 DEF TypeOK, Answer, portVars

\* So does an error, which is an answer without a body.
LEMMA FailTypeOK ==
    ASSUME TypeOK, NEW r \in Callers, NEW code \in Codes, Fail(r, code)
    PROVE  TypeOK'
<1>1. << >> \in Seq(Resources)
  BY EmptySeq
<1>2. Answer(r, code, << >>, FALSE)
  BY DEF Fail
<1> QED
  BY <1>1, <1>2, AnswerTypeOK

\* So does a call of the repository.
LEMMA CallTypeOK ==
    ASSUME TypeOK, NEW r \in Callers, NEW from, NEW to \in {"repo", "find", "balance"},
           NEW q \in Queries, CallRepository(r, from, to, q)
    PROVE  TypeOK'
<1>1. NotFound \in Values
  BY DEF NotFound, Values
<1> QED
  BY <1>1 DEF CallRepository, Goto, Ask, TypeOK

\* What the three returns of the repository lead to is of its type: the body of a
\* read, the account of the second funds call, the answer to the comparison.
LEMMA ReturnTypeOK ==
    ASSUME IInv, NEW r \in Callers, ReadReturns(r) \/ FindReturns(r) \/ CompareFunds(r)
    PROVE  TypeOK'
<1>0. TypeOK /\ RequestOK(r)
  BY DEF IInv
<1>1. {200, 404, 500} \subseteq Codes
  BY DEF Codes
<1>2. ASSUME NEW code \in {404, 500}, Fail(r, code)
      PROVE  TypeOK'
  BY <1>0, <1>1, <1>2, FailTypeOK
<1>3. mapNotFound(r) \in {404, 500}
  BY DEF mapNotFound
<1>4. CASE ReadReturns(r)
  <2>1. CASE Succeeded(r) /\ Answer(r, 200, Body(query[r].op, value[r].rows), FALSE)
    <3>1. /\ pc[r] = "repo" /\ query[r] = QueryOf(call[r]) /\ query[r] \in Queries
          /\ call[r] \in Calls /\ call[r].ep \in PublicEndpoints
      BY <1>0, <1>4 DEF ReadReturns, RequestOK, QueryOK, Guarded, TypeOK
    <3>2. PICK d \in Estates : Seen(query[r], value[r], d)
      BY <1>0, <2>1, <3>1 DEF RequestOK, InRepository, ValueOK, Succeeded
    <3>3. IsListing(value[r].rows, Selected(query[r], d))
      BY <2>1, <3>1, <3>2, ReadValue, AboutIsSelected DEF Succeeded
    <3>4. Body(query[r].op, value[r].rows) \in Seq(Resources)
      BY <3>1, <3>3, BodyShows DEF IsListing
    <3> QED
      BY <1>0, <1>1, <2>1, <3>4, AnswerTypeOK
  <2>2. CASE Fail(r, IF call[r].ep \in BulkEndpoints THEN 500 ELSE mapNotFound(r))
    BY <1>2, <1>3, <2>2
  <2> QED
    BY <1>4, <2>1, <2>2 DEF ReadReturns
<1>5. CASE FindReturns(r)
  <2>1. CASE /\ Succeeded(r)
             /\ CallRepository(r, "find", "balance",
                               [op |-> "AvailableBalance", key |-> value[r].rows[1]])
    <3>1. pc[r] = "find" /\ query[r].op = "FindByIdentification"
      BY <1>0, <2>1 DEF CallRepository, Goto, RequestOK, QueryOK
    <3>2. PICK d \in Estates : Seen(query[r], value[r], d)
      BY <1>0, <2>1, <3>1 DEF RequestOK, InRepository, ValueOK, Succeeded
    <3>3. value[r].rows[1] \in Accounts
      BY <2>1, <3>1, <3>2, FindValue DEF Succeeded, Estates
    <3>4. [op |-> "AvailableBalance", key |-> value[r].rows[1]] \in Queries
      BY <3>3 DEF Queries, Keys, Ops, Scoped, Bulk
    <3> QED
      BY <1>0, <2>1, <3>4, CallTypeOK
  <2>2. CASE Fail(r, mapNotFound(r))
    BY <1>2, <1>3, <2>2
  <2> QED
    BY <1>5, <2>1, <2>2 DEF FindReturns
<1>6. CASE CompareFunds(r)
  <2>1. CASE Fail(r, 500)
    BY <1>2, <2>1
  <2>2. CASE ~Fail(r, 500)
    <3> DEFINE funds == Sufficient(AvailableBalance(value[r].rows), call[r].amount)
    <3>1. << >> \in Seq(Resources)
      BY EmptySeq
    <3>2. funds \in BOOLEAN
      BY DEF Sufficient
    <3>3. Answer(r, 200, << >>, funds)
      BY <1>6, <2>2 DEF CompareFunds
    <3> HIDE DEF funds
    <3>4. 200 \in Codes /\ r \in Callers /\ TypeOK
      BY <1>0, <1>1
    <3> QED
      BY <3>1, <3>2, <3>3, <3>4, AnswerTypeOK, Zenon
  <2> QED
    BY <2>1, <2>2
<1> QED
  BY <1>4, <1>5, <1>6

\* No step of a handler, of the consent service, of the repository or of a
\* migration breaks a type.
LEMMA StepTypeOK ==
    ASSUME IInv, [Next]_vars
    PROVE  TypeOK'
<1>0. TypeOK /\ \A r \in Callers : RequestOK(r)
  BY DEF IInv
<1>1. ASSUME NEW r \in Callers, NEW c \in Calls, Arrive(r, c)
      PROVE  TypeOK'
  <2>1. StatusNow(c) \in Statuses
    BY <1>0, CallsAssumption DEF TypeOK, StatusNow, Call, Statuses, View
  <2>2. [status |-> StatusNow(c), db |-> db] \in Arrivals
    BY <1>0, <2>1 DEF Arrivals, TypeOK
  <2> QED
    BY <1>0, <1>1, <2>2 DEF Arrive, Goto, TypeOK, portVars
<1>2. ASSUME NEW r \in Callers, HandlerStep(r)
      PROVE  TypeOK'
  <2>1. CASE HeaderMissing(r)
    BY <2>1, <1>0, FailTypeOK DEF HeaderMissing, Codes
  <2>2. CASE CallConsent(r)
    BY <1>0, <2>2 DEF CallConsent, Goto, TypeOK, portVars
  <2>3. CASE Authorise(r)
    <3>1. CASE Fail(r, 403)
      BY <3>1, <1>0, FailTypeOK DEF Codes
    <3>2. CASE CallRepository(r, "answered", "repo", QueryOf(call[r]))
      <4>1. call[r] \in Calls /\ call[r].ep \in PublicEndpoints
        BY <1>0, <3>2 DEF CallRepository, Goto, RequestOK, Guarded
      <4> QED
        BY <1>0, <3>2, <4>1, QueryOfType, CallTypeOK
    <3> QED
      BY <2>3, <3>1, <3>2 DEF Authorise
  <2>4. CASE Validate(r)
    <3>1. CASE Fail(r, 400)
      BY <3>1, <1>0, FailTypeOK DEF Codes
    <3>2. CASE /\ ValidFunds(call[r])
               /\ CallRepository(r, "handler", "find", QueryOf(call[r]))
      <4>1. call[r] \in Calls
        BY <1>0, <3>2 DEF CallRepository, Goto, RequestOK
      <4> QED
        BY <1>0, <3>2, <4>1, QueryOfType, CallTypeOK
    <3> QED
      BY <2>4, <3>1, <3>2 DEF Validate
  <2> QED
    BY <1>2, <2>1, <2>2, <2>3, <2>4, ReturnTypeOK DEF HandlerStep
<1>3. ASSUME NEW r \in Callers, ConsentAnswers(r)
      PROVE  TypeOK'
  <2>1. consent[call[r].cid] \in View
    BY <1>0, <1>3 DEF ConsentAnswers, Goto, RequestOK, Guarded, TypeOK
  <2> QED
    BY <1>0, <1>3, <2>1 DEF ConsentAnswers, ConsentSnapshot, Goto, TypeOK, portVars
<1>4. ASSUME NEW r \in Callers, Resend(r)
      PROVE  TypeOK'
  <2>1. NoView \in View
    BY DEF NoView, View, ConsentTypes, Statuses
  <2> QED
    BY <1>0, <1>4, <2>1 DEF Resend, Goto, TypeOK, portVars
<1>5. ASSUME NEW r \in Callers, ConsentGetFails(r)
      PROVE  TypeOK'
  BY <1>0, <1>5, FailTypeOK DEF ConsentGetFails, Codes
<1>6. ASSUME NEW r \in Callers, RepositoryStep(r)
      PROVE  TypeOK'
  <2>1. Look(r) \/ GiveUp(r)
    BY <1>6 DEF RepositoryStep
  <2>2. value'[r] \in Values
    <3>1. query[r] \in Queries /\ db \in Estates
      BY <1>0 DEF TypeOK
    <3>2. CASE state'[r] = "answered"
      <4>1. Seen(query[r], value'[r], db)
        BY <1>0, <2>1, <3>2, LookSees
      <4> QED
        BY <3>1, <4>1, SeenType
    <3>3. CASE state'[r] # "answered"
      <4>1. value'[r] = NotFound
        BY <1>0, <2>1, <3>3, LookSees
      <4> QED
        BY <4>1 DEF NotFound, Values
    <3> QED
      BY <3>2, <3>3
  <2>3. value' \in [Callers -> Values]
    BY <1>0, <2>1, <2>2, LookSees DEF TypeOK
  <2> QED
    BY <1>0, <1>6, <2>1, <2>3, LookSees DEF RepositoryStep, TypeOK, ownVars
<1>7. CASE GrowEstate
  BY <1>0, <1>7 DEF GrowEstate, Grow, TypeOK, ownVars
<1>8. CASE ConsentMoves
  BY <1>0, <1>8, ConsentMonotone DEF ConsentMoves, TypeOK, portVars
<1>9. CASE UNCHANGED vars
  BY <1>0, <1>9 DEF vars, portVars, ownVars, TypeOK
<1> QED
  BY <1>1, <1>2, <1>3, <1>4, <1>5, <1>6, <1>7, <1>8, <1>9 DEF Next

-----------------------------------------------------------------------------
(* Requests.                                                               *)

\* r's own variables are left alone, and what goes on around it goes forward:
\* rows are added, consents move on.
Undisturbed(r) ==
    /\ pc'[r] = pc[r] /\ call'[r] = call[r] /\ view'[r] = view[r]
    /\ resp'[r] = resp[r] /\ arrival'[r] = arrival[r]
    /\ state'[r] = state[r] /\ query'[r] = query[r] /\ value'[r] = value[r]
    /\ Within(db, db')
    /\ \A d \in ConsentIds :
          /\ consent'[d].type = consent[d].type
          /\ consent'[d].perms = consent[d].perms
          /\ Reaches(consent[d].status, consent'[d].status)

\* What an answer says stays true while rows are added.
LEMMA AnswerStays ==
    ASSUME NEW r \in Callers, AnswerOK(r), Within(db, db'),
           pc'[r] = pc[r], call'[r] = call[r], resp'[r] = resp[r],
           arrival'[r] = arrival[r], Confirmed(r) => query'[r] = query[r]
    PROVE  AnswerOK(r)'
<1>1. Disclosed(r)' <=> Disclosed(r)
  BY DEF Disclosed
<1>2. ASSUME Disclosed(r), BodyOK(r)
      PROVE  BodyOK(r)'
  <2>1. PICK S \in SUBSET About(call[r], db) :
            About(call[r], arrival[r].db) \subseteq S /\ IsListing(Shown(r), S)
    BY <1>2 DEF BodyOK
  <2>2. About(call[r], db) \subseteq About(call[r], db')
    BY <1>2, AboutIsSelected, SelectedGrows DEF Disclosed
  <2>3. Shown(r)' = Shown(r)
    BY DEF Shown
  <2> QED
    BY <1>2, <2>1, <2>2, <2>3 DEF BodyOK
<1>3. ASSUME Confirmed(r), FundsOK(r)
      PROVE  FundsOK(r)'
  BY <1>3 DEF FundsOK, Confirms, Within, CoveredIn
<1> QED
  BY <1>1, <1>2, <1>3 DEF AnswerOK, Confirmed

\* What was seen between arrival and then was seen between arrival and now.
LEMMA ValueStays ==
    ASSUME NEW r \in Callers, ValueOK(r), Within(db, db'), arrival'[r] = arrival[r],
           state'[r] = state[r], query'[r] = query[r], value'[r] = value[r]
    PROVE  ValueOK(r)'
<1>1. ASSUME NEW d \in Estates, Within(d, db)
      PROVE  Within(d, db')
  BY <1>1, WithinComposes
<1> QED
  BY <1>1 DEF ValueOK

\* Everything a request knows is monotone.
LEMMA EnvironmentKeeps ==
    ASSUME TypeOK, TypeOK', NEW r \in Callers, RequestOK(r), Undisturbed(r)
    PROVE  RequestOK(r)'
<1>1. ASSUME pc[r] # "idle", call[r].cid \in ConsentIds
      PROVE  Reaches(arrival'[r].status, consent'[call[r].cid].status)
  <2>1. /\ arrival[r].status \in Statuses
        /\ consent[call[r].cid].status \in Statuses
        /\ consent'[call[r].cid].status \in Statuses
    BY <1>1 DEF TypeOK, Arrivals, View
  <2>2. Reaches(arrival[r].status, consent[call[r].cid].status)
    BY <1>1 DEF RequestOK
  <2>3. Reaches(consent[call[r].cid].status, consent'[call[r].cid].status)
    BY <1>1 DEF Undisturbed
  <2> QED
    BY <2>1, <2>2, <2>3, ReachesTransitive DEF Undisturbed
<1>2. ASSUME pc[r] \in {"answered", "repo"}
      PROVE  Fresh(r)'
  <2>1. call[r].cid \in ConsentIds /\ Fresh(r)
    BY <1>2 DEF RequestOK, Guarded
  <2>2. /\ view[r].status \in Statuses
        /\ consent[call[r].cid].status \in Statuses
        /\ consent'[call[r].cid].status \in Statuses
    BY <2>1 DEF TypeOK, View
  <2>3. Reaches(view[r].status, consent'[call[r].cid].status)
    BY <2>1, <2>2, ReachesTransitive DEF Fresh, Undisturbed
  <2> QED
    BY <2>1, <2>3 DEF Fresh, Undisturbed
<1>3. InRepository(r) => ValueOK(r)'
  BY ValueStays DEF RequestOK, Undisturbed
<1>4. QueryOK(r)'
  BY DEF RequestOK, QueryOK, Undisturbed, Within
<1>5. AnswerOK(r)'
  BY AnswerStays DEF RequestOK, Undisturbed
<1>6. pc[r] # "idle" => call[r] \in Calls /\ Within(arrival'[r].db, db')
  BY WithinComposes DEF RequestOK, Undisturbed
<1> QED
  BY <1>1, <1>2, <1>3, <1>4, <1>5, <1>6 DEF RequestOK, Undisturbed, InRepository

\* A request that is to come is in order.
LEMMA InitRequestOK ==
    ASSUME Init, NEW r \in Callers
    PROVE  RequestOK(r)
  BY DEF Init, RequestOK, QueryOK, InRepository, AnswerOK, Disclosed, Confirmed, Guarded

\* A handler that gives an answer that is in order leaves its request in order.
LEMMA AnswerKeeps ==
    ASSUME TypeOK, NEW r \in Callers, RequestOK(r), pc[r] # "idle",
           NEW code, NEW body, NEW funds, Answer(r, code, body, funds),
           AnswerOK(r)'
    PROVE  RequestOK(r)'
<1>1. pc'[r] = "done"
  BY DEF Answer, TypeOK
<1> QED
  BY <1>1 DEF RequestOK, QueryOK, InRepository, Answer, Guarded, portVars

\* An error other than 404 tells nothing.
LEMMA FailKeeps ==
    ASSUME TypeOK, NEW r \in Callers, RequestOK(r), pc[r] # "idle",
           NEW code \in {400, 401, 403, 500}, Fail(r, code)
    PROVE  RequestOK(r)'
<1>1. Answer(r, code, << >>, FALSE)
  BY DEF Fail
<1>2. pc'[r] = "done" /\ resp'[r].code = code /\ resp'[r].body = << >>
  BY <1>1 DEF Answer, TypeOK
<1>3. AnswerOK(r)'
  BY <1>2 DEF AnswerOK, Disclosed, Confirmed
<1> QED
  BY <1>1, <1>2, <1>3 DEF RequestOK, QueryOK, InRepository, Answer, Guarded, portVars

\* A 404 that is true of the estate seen leaves the request in order.
LEMMA NotFoundKeeps ==
    ASSUME TypeOK, NEW r \in Callers, RequestOK(r), pc[r] # "idle", Fail(r, 404),
           call[r].ep \notin BulkEndpoints,
           call[r].ep \in PublicEndpoints => arrival[r].status \notin Ended,
           \A a \in arrival[r].db.accounts :
              IF call[r].ep = Funds THEN Identification[a] # call[r].key ELSE a # call[r].key
    PROVE  RequestOK(r)'
<1>1. Answer(r, 404, << >>, FALSE)
  BY DEF Fail
<1>2. /\ pc'[r] = "done" /\ resp'[r].code = 404 /\ resp'[r].body = << >>
      /\ call'[r] = call[r] /\ arrival'[r] = arrival[r]
  BY <1>1 DEF Answer, TypeOK
<1>3. AnswerOK(r)'
  BY <1>2 DEF AnswerOK, Disclosed, Confirmed
<1> QED
  BY <1>1, <1>3, AnswerKeeps

-----------------------------------------------------------------------------
(* Steps of a request.                                                     *)

\* A view that authorises is one the consent had since the arrival.
LEMMA GrantedInTime ==
    ASSUME TypeOK, NEW r \in Callers, RequestOK(r), pc[r] = "repo"
    PROVE  arrival[r].status \notin Ended
<1>1. Reaches(arrival[r].status, StatusAuthorised)
  BY DEF RequestOK, Fresh
<1> QED
  BY <1>1 DEF Reaches, Ended, Unknown, StatusAwaitingAuthorisation,
     StatusAuthorised, StatusRejected, StatusRevoked, StatusConsumed

\* A read that returns is answered with the truth about the estate of one
\* instant.
LEMMA ReadKeeps ==
    ASSUME TypeOK, NEW r \in Callers, RequestOK(r), ReadReturns(r)
    PROVE  RequestOK(r)'
<1>1. /\ pc[r] = "repo" /\ query[r] = QueryOf(call[r]) /\ query[r] \in Queries
      /\ call[r] \in Calls /\ call[r].ep \in PublicEndpoints
      /\ arrival[r].status \notin Ended
  BY GrantedInTime DEF ReadReturns, RequestOK, QueryOK, Guarded, TypeOK
<1>2. CASE state[r] = "failed"
  <2>1. Fail(r, 500)
    BY <1>2 DEF ReadReturns, Succeeded, Erred, mapNotFound
  <2> QED
    BY <1>1, <2>1, FailKeeps
<1>3. CASE state[r] = "answered"
  <2>1. PICK d \in Estates : /\ Within(arrival[r].db, d) /\ Within(d, db)
                             /\ Seen(query[r], value[r], d)
    BY <1>1, <1>3 DEF RequestOK, InRepository, ValueOK
  <2>2. /\ value[r].found => IsListing(value[r].rows, About(call[r], d))
        /\ ~value[r].found => /\ call[r].ep \notin BulkEndpoints
                              /\ \A a \in d.accounts : a # call[r].key
    BY <1>1, <2>1, ReadValue
  <2>3. CASE value[r].found
    <3> DEFINE s == value[r].rows
               S == About(call[r], d)
               op == OpOf(call[r].ep)
    <3>0. query[r].op = op
      BY <1>1 DEF QueryOf
    <3>1. Answer(r, 200, Body(op, s), FALSE)
      <4>1. Succeeded(r) /\ ~Erred(r)
        BY <1>3, <2>3 DEF Succeeded, Erred
      <4>2. Answer(r, 200, Body(query[r].op, value[r].rows), FALSE)
        BY <4>1 DEF ReadReturns
      <4> HIDE DEF op
      <4> QED
        BY <3>0, <4>2
    <3>2. /\ pc'[r] = "done" /\ resp'[r] = [code |-> 200, body |-> Body(op, s), funds |-> FALSE]
          /\ call' = call /\ arrival' = arrival /\ db' = db
      BY <3>1 DEF Answer, TypeOK, portVars
    <3>3. S \in SUBSET About(call[r], db) /\ About(call[r], arrival[r].db) \subseteq S
      BY <1>1, <2>1, AboutIsSelected, SelectedGrows
    <3>4. IsListing(s, S) /\ S = Selected(query[r], d)
      BY <1>1, <2>2, <2>3, AboutIsSelected
    <3>5. /\ Len(Body(op, s)) = Len(s)
          /\ \A i \in 1..Len(s) : Body(op, s)[i] = Resource(op, s[i])
          /\ [i \in 1..Len(Body(op, s)) |-> Body(op, s)[i].row] = s
      <4>1. s \in Seq(Selected(query[r], d))
        BY <3>4 DEF IsListing
      <4> HIDE DEF s, S, op
      <4> QED
        BY <1>1, <3>0, <4>1, BodyShows
    <3> HIDE DEF s, S, op
    <3>6. Shown(r)' = s
      BY <3>2, <3>5 DEF Shown
    <3>7. \A i \in 1..Len(s) : Body(op, s)[i] = Resource(op, Body(op, s)[i].row)
      BY <3>5, ResourceRow
    <3>8. BodyOK(r)'
      <4>1. \E T \in SUBSET About(call[r], db)' :
                About(call[r], arrival[r].db)' \subseteq T /\ IsListing(Shown(r)', T)
        BY <3>2, <3>3, <3>4, <3>6
      <4>2. \A i \in 1..Len(resp'[r].body) :
                resp'[r].body[i] = Resource(OpOf(call'[r].ep), resp'[r].body[i].row)
        BY <3>2, <3>5, <3>7 DEF op
      <4> QED
        BY <4>1, <4>2 DEF BodyOK
    <3>9. AnswerOK(r)'
      BY <1>1, <3>2, <3>8, EndpointKinds DEF AnswerOK, Disclosed, Confirmed
    <3> QED
      BY <1>1, <3>1, <3>9, AnswerKeeps
  <2>4. CASE ~value[r].found
    <3>1. Fail(r, 404)
      BY <1>3, <2>2, <2>4 DEF ReadReturns, Succeeded, Erred, mapNotFound
    <3>2. \A a \in arrival[r].db.accounts : a # call[r].key
      BY <2>1, <2>2, <2>4 DEF Within
    <3>3. call[r].ep # Funds
      BY <1>1, EndpointKinds
    <3> QED
      BY <1>1, <2>2, <2>4, <3>1, <3>2, <3>3, NotFoundKeeps
  <2> QED
    BY <2>3, <2>4
<1> QED
  BY <1>2, <1>3 DEF ReadReturns, Succeeded, Erred

\* A call that begins has nothing to answer for.
LEMMA CallKeeps ==
    ASSUME TypeOK, NEW r \in Callers, RequestOK(r), pc[r] # "idle", pc[r] # "done",
           NEW from, NEW to \in {"repo", "find", "balance"}, NEW q \in Queries,
           CallRepository(r, from, to, q),
           to = "repo" => /\ Fresh(r) /\ view[r].status = StatusAuthorised
                          /\ call[r].ep \in PublicEndpoints /\ call[r].cid \in ConsentIds
                          /\ q = QueryOf(call[r]),
           to \in {"find", "balance"} => call[r].ep = Funds /\ ValidFunds(call[r]),
           to = "find" => q = [op |-> "FindByIdentification", key |-> call[r].key],
           to = "balance" => /\ q.op = "AvailableBalance" /\ q.key \in db.accounts
                             /\ Identification[q.key] = call[r].key
    PROVE  RequestOK(r)'
<1>1. /\ pc'[r] = to /\ query'[r] = q /\ state'[r] = "asked"
      /\ UNCHANGED <<db, consent, call, view, resp, arrival>>
  BY DEF CallRepository, Goto, Ask, TypeOK
<1>2. ValueOK(r)'
  BY <1>1 DEF ValueOK
<1>3. QueryOK(r)'
  BY <1>1 DEF QueryOK
<1>4. AnswerOK(r)'
  BY <1>1 DEF AnswerOK, Disclosed, Confirmed
<1>5. Fresh(r) => Fresh(r)'
  BY <1>1 DEF Fresh
<1> QED
  BY <1>1, <1>2, <1>3, <1>4, <1>5 DEF RequestOK, Guarded

\* FindByIdentification returns an account of the estate with the identification.
LEMMA FindKeeps ==
    ASSUME TypeOK, NEW r \in Callers, RequestOK(r), FindReturns(r)
    PROVE  RequestOK(r)'
<1>1. /\ pc[r] = "find" /\ query[r] = [op |-> "FindByIdentification", key |-> call[r].key]
      /\ call[r].ep = Funds /\ ValidFunds(call[r])
  BY DEF FindReturns, CallRepository, Goto, RequestOK, QueryOK
<1>2. CASE state[r] = "failed"
  <2>1. Fail(r, 500)
    BY <1>2 DEF FindReturns, Succeeded, Erred, mapNotFound
  <2> QED
    BY <1>1, <2>1, FailKeeps
<1>3. CASE state[r] = "answered"
  <2>1. PICK d \in Estates : /\ Within(arrival[r].db, d) /\ Within(d, db)
                             /\ Seen(query[r], value[r], d)
    BY <1>1, <1>3 DEF RequestOK, InRepository, ValueOK
  <2>2. /\ value[r].found => /\ value[r].rows[1] \in d.accounts
                             /\ Identification[value[r].rows[1]] = call[r].key
        /\ ~value[r].found => \A a \in d.accounts : Identification[a] # call[r].key
    BY <1>1, <2>1, FindValue
  <2>3. CASE value[r].found
    <3> DEFINE q == [op |-> "AvailableBalance", key |-> value[r].rows[1]]
    <3>1. CallRepository(r, "find", "balance", q)
      BY <1>3, <2>3 DEF FindReturns, Succeeded, Erred
    <3>2. /\ q.op = "AvailableBalance" /\ q.key \in db.accounts
          /\ Identification[q.key] = call[r].key
      BY <2>1, <2>2, <2>3 DEF Within
    <3>3. q \in Queries
      BY <2>2, <2>3 DEF Queries, Keys, Ops, Scoped, Bulk, Estates
    <3> HIDE DEF q
    <3> QED
      BY <1>1, <3>1, <3>2, <3>3, CallKeeps
  <2>4. CASE ~value[r].found
    <3>1. Fail(r, 404)
      BY <1>3, <2>4 DEF FindReturns, Succeeded, Erred, mapNotFound
    <3>2. \A a \in arrival[r].db.accounts : Identification[a] # call[r].key
      BY <2>1, <2>2, <2>4 DEF Within
    <3> QED
      BY <1>1, <3>1, <3>2, EndpointKinds, NotFoundKeeps
  <2> QED
    BY <2>3, <2>4
<1> QED
  BY <1>2, <1>3 DEF FindReturns, Succeeded, Erred

\* The comparison is exact: a yes is covered now, a no was not covered at arrival.
LEMMA CompareKeeps ==
    ASSUME TypeOK, NEW r \in Callers, RequestOK(r), CompareFunds(r)
    PROVE  RequestOK(r)'
<1> DEFINE funds == Sufficient(AvailableBalance(value[r].rows), call[r].amount)
<1>1. /\ pc[r] = "balance" /\ query[r].op = "AvailableBalance"
      /\ query[r].key \in db.accounts /\ Identification[query[r].key] = call[r].key
      /\ call[r].ep = Funds /\ ValidFunds(call[r])
  BY DEF CompareFunds, RequestOK, QueryOK
<1>2. CASE Fail(r, 500)
  BY <1>1, <1>2, FailKeeps
<1>3. CASE Succeeded(r) /\ Answer(r, 200, << >>, funds)
  <2>1. PICK d \in Estates : /\ Within(arrival[r].db, d) /\ Within(d, db)
                             /\ Seen(query[r], value[r], d)
    BY <1>1, <1>3 DEF RequestOK, InRepository, ValueOK, Succeeded
  <2>2. call[r].amount \in Amount /\ call[r].amount.currency \in Currencies
    BY <1>1, CallsAssumption DEF RequestOK, ValidFunds, Call
  <2>3. funds <=> CoveredIn(query[r].key, call[r].amount, d)
    BY <1>1, <1>3, <2>1, <2>2, FundsValue DEF Succeeded
  <2>4. /\ pc'[r] = "done"
        /\ resp'[r] = [code |-> 200, body |-> << >>, funds |-> funds]
        /\ UNCHANGED <<db, query, call, arrival>>
    BY <1>3 DEF Answer, TypeOK, portVars
  <2> HIDE DEF funds
  <2>5. /\ funds => CoveredIn(query[r].key, call[r].amount, db)
        /\ ~funds => ~CoveredIn(query[r].key, call[r].amount, arrival[r].db)
    BY <2>1, <2>3 DEF CoveredIn, Within
  <2>6. resp'[r].code = 200 /\ (resp'[r].funds = funds)
    BY <2>4
  <2>7. FundsOK(r)'
    <3>1. Confirms(r)' = query[r].key
      BY <2>4 DEF Confirms
    <3> QED
      BY <1>1, <2>4, <2>5, <2>6, <3>1 DEF FundsOK
  <2>8. AnswerOK(r)'
    BY <1>1, <2>4, <2>6, <2>7, EndpointKinds DEF AnswerOK, Disclosed
  <2> QED
    BY <1>1, <1>3, <2>8, AnswerKeeps DEF funds
<1> QED
  BY <1>2, <1>3 DEF CompareFunds

\* The look of a repository call at the estate is an instant between arrival and
\* now.
LEMMA RepositoryKeeps ==
    ASSUME TypeOK, TypeOK', NEW r \in Callers, RequestOK(r), RepositoryStep(r)
    PROVE  RequestOK(r)'
<1>1. /\ InRepository(r) /\ db' = db /\ query' = query
      /\ state'[r] = "answered" => Seen(query[r], value'[r], db)
      /\ UNCHANGED <<consent, pc, call, view, resp, arrival>>
  BY LookSees DEF RepositoryStep, ownVars
<1>2. Within(arrival[r].db, db) /\ Within(db, db) /\ db \in Estates
  BY <1>1 DEF RequestOK, InRepository, Within, TypeOK
<1>3. ValueOK(r)'
  BY <1>1, <1>2 DEF ValueOK
<1>4. AnswerOK(r)'
  BY <1>1 DEF AnswerOK, Disclosed, Confirmed, InRepository
<1>5. Fresh(r) => Fresh(r)'
  BY <1>1 DEF Fresh
<1> QED
  BY <1>1, <1>3, <1>4, <1>5 DEF RequestOK, QueryOK, InRepository, Guarded

\* A request that arrives knows the estate and the consent of this moment.
LEMMA ArriveKeeps ==
    ASSUME TypeOK, NEW r \in Callers, RequestOK(r), NEW c \in Calls, Arrive(r, c)
    PROVE  RequestOK(r)'
<1>1. /\ pc'[r] = "handler" /\ call'[r] = c
      /\ arrival'[r] = [status |-> StatusNow(c), db |-> db]
      /\ UNCHANGED <<consent, db>>
  BY DEF Arrive, Goto, TypeOK, portVars
<1>2. c.cid \in ConsentIds => Reaches(StatusNow(c), consent[c.cid].status)
  BY CallsAssumption DEF StatusNow, Reaches
<1>3. AnswerOK(r)'
  BY <1>1 DEF AnswerOK, Disclosed, Confirmed
<1>4. QueryOK(r)'
  BY <1>1 DEF QueryOK
<1> QED
  BY <1>1, <1>2, <1>3, <1>4 DEF RequestOK, Guarded, InRepository, Within

\* A view is fresh when the consent service answers, and a view that is thrown
\* away leaves nothing to be in order.
LEMMA ExchangeKeeps ==
    ASSUME TypeOK, NEW r \in Callers, RequestOK(r),
           CallConsent(r) \/ ConsentAnswers(r) \/ Resend(r)
    PROVE  RequestOK(r)'
<1>1. /\ pc[r] \in {"handler", "consent", "answered"}
      /\ UNCHANGED <<portVars, consent, call, resp, arrival>>
  BY DEF CallConsent, ConsentAnswers, Resend, Goto
<1>2. pc'[r] \in {"consent", "answered"}
  BY DEF CallConsent, ConsentAnswers, Resend, Goto, TypeOK
<1>3. call[r].ep \in PublicEndpoints /\ call[r].cid \in ConsentIds
  <2>1. CASE CallConsent(r)
    BY <1>1, <2>1, CallsAssumption DEF CallConsent, RequestOK, Call
  <2>2. CASE ConsentAnswers(r) \/ Resend(r)
    BY <2>2 DEF ConsentAnswers, Resend, Goto, RequestOK, Guarded
  <2> QED
    BY <2>1, <2>2
<1>4. pc'[r] = "answered" => Fresh(r)'
  <2>1. CASE ConsentAnswers(r)
    <3>1. view'[r] = consent[call[r].cid]
      BY <2>1 DEF ConsentAnswers, ConsentSnapshot, TypeOK
    <3>2. Reaches(arrival[r].status, consent[call[r].cid].status)
      BY <1>1, <1>3 DEF RequestOK
    <3> QED
      BY <1>1, <3>1, <3>2 DEF Fresh, Reaches
  <2>2. CASE CallConsent(r) \/ Resend(r)
    BY <2>2 DEF CallConsent, Resend, Goto, TypeOK
  <2> QED
    BY <2>1, <2>2
<1>5. AnswerOK(r)'
  BY <1>2 DEF AnswerOK, Disclosed, Confirmed
<1>6. QueryOK(r)'
  BY <1>2 DEF QueryOK
<1> QED
  BY <1>1, <1>2, <1>3, <1>4, <1>5, <1>6 DEF RequestOK, Guarded, InRepository, portVars

\* authorise lets a request through with a fresh view that authorises it.
LEMMA AuthoriseKeeps ==
    ASSUME TypeOK, NEW r \in Callers, RequestOK(r), Authorise(r)
    PROVE  RequestOK(r)'
<1>1. CASE pc[r] = "answered" /\ Fail(r, 403)
  BY <1>1, FailKeeps
<1>2. CASE /\ Acceptable(view[r], call[r].ep)
           /\ CallRepository(r, "answered", "repo", QueryOf(call[r]))
  <2>1. pc[r] = "answered"
    BY <1>2 DEF CallRepository, Goto
  <2>2. /\ Fresh(r) /\ call[r] \in Calls
        /\ call[r].ep \in PublicEndpoints /\ call[r].cid \in ConsentIds
    BY <2>1 DEF RequestOK, Guarded
  <2>3. view[r].status = StatusAuthorised
    BY <1>2 DEF Acceptable
  <2>4. QueryOf(call[r]) \in Queries
    BY <2>2, QueryOfType
  <2> DEFINE q == QueryOf(call[r])
  <2>5. q = QueryOf(call[r])
    OBVIOUS
  <2> HIDE DEF q
  <2>6. CallRepository(r, "answered", "repo", q) /\ q \in Queries
    BY <1>2, <2>4, <2>5
  <2> QED
    BY <2>1, <2>2, <2>3, <2>5, <2>6, CallKeeps
<1> QED
  BY <1>1, <1>2 DEF Authorise

\* A funds confirmation that is well formed asks for its identification.
LEMMA ValidateKeeps ==
    ASSUME TypeOK, NEW r \in Callers, RequestOK(r), Validate(r)
    PROVE  RequestOK(r)'
<1>1. CASE pc[r] = "handler" /\ Fail(r, 400)
  BY <1>1, FailKeeps
<1>2. CASE /\ ValidFunds(call[r])
           /\ CallRepository(r, "handler", "find", QueryOf(call[r]))
  <2> DEFINE q == QueryOf(call[r])
  <2>1. pc[r] = "handler" /\ call[r].ep = Funds
    BY <1>2 DEF CallRepository, Goto, Validate
  <2>2. call[r] \in Calls
    BY <2>1 DEF RequestOK
  <2>3. q = [op |-> "FindByIdentification", key |-> call[r].key]
    BY <2>1 DEF QueryOf, OpOf, Funds
  <2>4. q \in Queries
    BY <1>2, <2>2, QueryOfType
  <2>5. CallRepository(r, "handler", "find", q)
    BY <1>2
  <2> HIDE DEF q
  <2> QED
    BY <1>2, <2>1, <2>3, <2>4, <2>5, CallKeeps
<1> QED
  BY <1>1, <1>2 DEF Validate

OwnStep(r) ==
    \/ \E c \in Calls : Arrive(r, c)
    \/ HandlerStep(r) \/ ConsentAnswers(r) \/ Resend(r)
    \/ ConsentGetFails(r) \/ RepositoryStep(r)

\* No step of a request breaks what is known of it.
LEMMA OwnStepKeeps ==
    ASSUME TypeOK, TypeOK', NEW r \in Callers, RequestOK(r), OwnStep(r)
    PROVE  RequestOK(r)'
<1>1. CASE HeaderMissing(r)
  BY <1>1, FailKeeps DEF HeaderMissing
<1>2. CASE ConsentGetFails(r)
  BY <1>2, FailKeeps DEF ConsentGetFails, MayFail
<1> QED
  BY <1>1, <1>2, ArriveKeeps, ExchangeKeeps, AuthoriseKeeps, ValidateKeeps, ReadKeeps,
     FindKeeps, CompareKeeps, RepositoryKeeps DEF OwnStep, HandlerStep

\* And none touches another request.
LEMMA OthersUndisturbed ==
    ASSUME TypeOK, NEW r \in Callers, OwnStep(r), NEW q \in Callers, q # r
    PROVE  Undisturbed(q)
<1>0. /\ \A s \in Statuses : Reaches(s, s)
      /\ Within(db, db)
      /\ \A d \in ConsentIds : consent[d].status \in Statuses
  BY DEF Reaches, Within, TypeOK, View
<1>1. ASSUME NEW code, NEW body, NEW funds, Answer(r, code, body, funds)
      PROVE  Undisturbed(q)
  BY <1>0, <1>1 DEF Answer, Undisturbed, TypeOK, portVars
<1>2. ASSUME NEW from, NEW to, NEW x, CallRepository(r, from, to, x)
      PROVE  Undisturbed(q)
  BY <1>0, <1>2 DEF CallRepository, Goto, Ask, Undisturbed, TypeOK
<1>3. CASE \E c \in Calls : Arrive(r, c)
  BY <1>0, <1>3 DEF Arrive, Goto, Undisturbed, TypeOK, portVars
<1>4. CASE CallConsent(r) \/ ConsentAnswers(r) \/ Resend(r)
  BY <1>0, <1>4 DEF CallConsent, ConsentAnswers, Resend, Goto, Undisturbed, TypeOK, portVars
<1>5. CASE RepositoryStep(r)
  <2>1. /\ db' = db /\ query' = query
        /\ state'[q] = state[q] /\ value'[q] = value[q]
    BY <1>5, LookSees DEF RepositoryStep
  <2> QED
    BY <1>0, <1>5, <2>1 DEF RepositoryStep, Undisturbed, ownVars
<1>6. CASE HeaderMissing(r)
  BY <1>1, <1>6 DEF HeaderMissing, Fail
<1>7. CASE ConsentGetFails(r)
  BY <1>1, <1>7 DEF ConsentGetFails, Fail
<1>8. CASE Authorise(r) \/ Validate(r)
  BY <1>1, <1>2, <1>8 DEF Authorise, Validate, Fail
<1>9. CASE ReadReturns(r)
  BY <1>1, <1>9 DEF ReadReturns, Fail
<1>10. CASE FindReturns(r)
  BY <1>1, <1>2, <1>10 DEF FindReturns, Fail
<1>11. CASE CompareFunds(r)
  BY <1>1, <1>11, Zenon DEF CompareFunds, Fail
<1> QED
  BY <1>3, <1>4, <1>5, <1>6, <1>7, <1>8, <1>9, <1>10, <1>11 DEF OwnStep, HandlerStep

-----------------------------------------------------------------------------
(* Invariance.                                                             *)

\* The invariant is inductive.
LEMMA StepIInv ==
    ASSUME IInv, [Next]_vars
    PROVE  IInv'
<1>1. TypeOK /\ TypeOK'
  BY StepTypeOK DEF IInv
<1>2. ASSUME NEW q \in Callers
      PROVE  RequestOK(q)'
  <2>0. RequestOK(q)
    BY DEF IInv
  <2>1. /\ \A s \in Statuses : Reaches(s, s)
        /\ \A d \in ConsentIds : consent[d].status \in Statuses
        /\ Within(db, db)
    BY <1>1 DEF Reaches, TypeOK, View, Within
  <2>2. ASSUME NEW r \in Callers, OwnStep(r)
        PROVE  RequestOK(q)'
    <3>1. CASE q = r
      BY <1>1, <2>0, <2>2, <3>1, OwnStepKeeps
    <3>2. CASE q # r
      BY <1>1, <2>0, <2>2, <3>2, OthersUndisturbed, EnvironmentKeeps
    <3> QED
      BY <3>1, <3>2
  <2>3. CASE GrowEstate
    <3>1. Within(db, db')
      BY <1>1, <2>3, GrowIsWithin DEF GrowEstate, TypeOK
    <3>2. Undisturbed(q)
      BY <2>1, <2>3, <3>1 DEF GrowEstate, Grow, Undisturbed, ownVars
    <3> QED
      BY <1>1, <2>0, <3>2, EnvironmentKeeps
  <2>4. CASE ConsentMoves
    <3>1. PICK c \in ConsentIds : MoveConsent(c)
      BY <2>4 DEF ConsentMoves
    <3>2. Undisturbed(q)
      BY <1>1, <2>1, <2>4, <3>1, ConsentMonotone DEF ConsentMoves, Undisturbed, TypeOK, portVars
    <3> QED
      BY <1>1, <2>0, <3>2, EnvironmentKeeps
  <2>5. CASE UNCHANGED vars
    <3>1. Undisturbed(q)
      BY <2>1, <2>5 DEF vars, portVars, ownVars, Undisturbed
    <3> QED
      BY <1>1, <2>0, <3>1, EnvironmentKeeps
  <2> QED
    BY <2>2, <2>3, <2>4, <2>5 DEF Next, OwnStep
<1> QED
  BY <1>1, <1>2 DEF IInv

\* What is known of each request holds in every state the service reaches,
\* whatever its callers, the consent service and the other replicas do.
THEOREM Invariance == Spec => []IInv
<1>1. Init => IInv
  BY InitTypeOK, InitRequestOK DEF IInv
<1>2. IInv /\ [Next]_vars => IInv'
  BY StepIInv
<1> QED
  BY <1>1, <1>2, PTL DEF Spec

\* Every variable keeps its type: the rows and the account a handler passes on
\* are what the repository may return, and what it asks is one of its calls.
THEOREM TypeCorrect == Spec => []TypeOK
<1>1. IInv => TypeOK
  BY DEF IInv
<1> QED
  BY <1>1, Invariance, PTL

\* A view is never older than the request that holds it: consentcli.Get asks
\* the consent service on every call.
THEOREM ViewsAreFresh == Spec => []ViewFresh
<1>1. IInv => ViewFresh
  BY DEF IInv, RequestOK, Fresh, ViewFresh
<1> QED
  BY <1>1, Invariance, PTL

\* A revocation binds every request that arrives after it, for any number of
\* concurrent requests: authorise sees it in the view.
THEOREM RevocationBinds == Spec => []RevocationHolds
<1>1. IInv => RevocationHolds
  BY DEF IInv, RequestOK, AnswerOK, RevocationHolds
<1> QED
  BY <1>1, Invariance, PTL

\* A read lists, once and in order, the rows of one instant between its arrival
\* and its answer: nothing stored before is left out, whatever replicas insert.
THEOREM ListsAreComplete == Spec => []ListComplete
<1>1. ASSUME IInv, NEW r \in Callers, Disclosed(r)
      PROVE  IF resp[r].code = 200
             THEN \E S \in SUBSET About(call[r], db) :
                     About(call[r], arrival[r].db) \subseteq S /\ IsListing(Shown(r), S)
             ELSE call[r].ep \notin BulkEndpoints
  <2>1. AnswerOK(r)
    BY <1>1 DEF IInv, RequestOK
  <2>2. CASE resp[r].code = 200
    BY <1>1, <2>1, <2>2 DEF AnswerOK, BodyOK
  <2>3. CASE resp[r].code # 200
    BY <1>1, <2>1, <2>3 DEF AnswerOK, Disclosed
  <2> QED
    BY <2>2, <2>3
<1>2. IInv => ListComplete
  BY <1>1 DEF ListComplete
<1> QED
  BY <1>2, Invariance, PTL

\* mapNotFound answers 404 only for an account that the request did not find
\* stored when it arrived.
THEOREM NotFoundIsTrue == Spec => []NotFoundHonest
<1>1. IInv => NotFoundHonest
  BY DEF IInv, RequestOK, AnswerOK, NotFoundHonest
<1> QED
  BY <1>1, Invariance, PTL

-----------------------------------------------------------------------------
(* Funds.                                                                  *)

\* A confirmation is exact for any balances and amounts: FundsAvailable says yes
\* only of a covered account, and no only of one not covered at arrival.
THEOREM FundsAnswersAreExact == Spec => []FundsAnswerExact
<1>1. IInv => FundsAnswerExact
  BY DEF IInv, RequestOK, AnswerOK, FundsOK, FundsAnswerExact
<1> QED
  BY <1>1, Invariance, PTL

\* An account has one InterimAvailable row, so an answer about it is about that
\* row if it was there at arrival.
LEMMA FundsOfRow ==
    ASSUME IInv, NEW q \in Callers, Confirmed(q),
           NEW b \in arrival[q].db.balances \cap Interim, Owner[b] = Confirms(q)
    PROVE  resp[q].funds <=> Covers(Entry[b], call[q].amount)
<1>1. FundsOK(q) /\ resp[q].funds \in BOOLEAN
  BY DEF IInv, RequestOK, AnswerOK, TypeOK, Answers
<1>2. CASE resp[q].funds
  <2>1. PICK c \in db.balances \cap Interim :
            Owner[c] = Confirms(q) /\ Covers(Entry[c], call[q].amount)
    BY <1>1, <1>2 DEF FundsOK, CoveredIn
  <2>2. c = b
    BY <2>1, RowsAssumption
  <2> QED
    BY <1>2, <2>1, <2>2
<1>3. CASE ~resp[q].funds
  BY <1>1, <1>3 DEF FundsOK, CoveredIn
<1> QED
  BY <1>1, <1>2, <1>3

\* No two confirmations about one account contradict each other.
THEOREM FundsAnswersAgree == Spec => []FundsConsistent
<1>1. ASSUME IInv, NEW r \in Callers, NEW q \in Callers,
             Confirmed(r), Confirmed(q), Confirms(r) = Confirms(q),
             HadInterim(q, Confirms(q)),
             call[r].amount.currency = call[q].amount.currency,
             resp[r].funds, ~resp[q].funds
      PROVE  call[r].amount.value < call[q].amount.value
  <2>1. PICK b \in arrival[q].db.balances \cap Interim : Owner[b] = Confirms(q)
    BY <1>1 DEF HadInterim
  <2>2. ~Covers(Entry[b], call[q].amount)
    BY <1>1, <2>1, FundsOfRow
  <2>3. PICK c \in db.balances \cap Interim :
            Owner[c] = Confirms(r) /\ Covers(Entry[c], call[r].amount)
    BY <1>1 DEF IInv, RequestOK, AnswerOK, FundsOK, CoveredIn
  <2>4. c = b
    BY <1>1, <2>1, <2>3, RowsAssumption
  <2>5. b \in Balances /\ Entry[b].indicator \in {Credit, Debit} /\ Entry[b].amount \in Amount
    BY <2>1, RowsAssumption, EntryAssumption
  <2>6. Worth(Entry[b]) \in Int
    BY <2>5 DEF Worth, Amount
  <2>7. call[r].amount \in Amount /\ call[q].amount \in Amount
    BY <1>1, CallsAssumption DEF IInv, RequestOK, Confirmed, Call
  <2>8. Worth(Entry[b]) >= call[r].amount.value /\ ~(Worth(Entry[b]) >= call[q].amount.value)
    BY <1>1, <2>2, <2>3, <2>4 DEF Covers
  <2> QED
    BY <2>6, <2>7, <2>8 DEF Amount
<1>2. IInv => FundsConsistent
  BY <1>1 DEF FundsConsistent
<1> QED
  BY <1>2, Invariance, PTL

\* The balances on the wire and the confirmations tell of the same money:
\* balanceToDTO leaves the sign to the indicator, as availableBalance reads it.
THEOREM BalancesAgree == Spec => []BalancesAgreeWithFunds
<1>1. ASSUME IInv, NEW r \in Callers, NEW q \in Callers,
             Disclosed(r), call[r].ep \in {"accountBalances", "allBalances"}, Confirmed(q),
             NEW i \in 1..Len(resp[r].body),
             resp[r].body[i].row \in Interim \cap arrival[q].db.balances,
             resp[r].body[i].account = Confirms(q)
      PROVE  resp[q].funds <=> Covers(resp[r].body[i], call[q].amount)
  <2> DEFINE e == resp[r].body[i]
             b == resp[r].body[i].row
  <2>1. resp[r].code = 200
    <3>1. AnswerOK(r) /\ pc[r] = "done"
      BY <1>1 DEF IInv, RequestOK, Disclosed
    <3>2. Len(<< >>) = 0
      OBVIOUS
    <3> QED
      BY <1>1, <3>1, <3>2 DEF AnswerOK
  <2>2. e = Resource(OpOf(call[r].ep), b)
    BY <1>1, <2>1 DEF IInv, RequestOK, AnswerOK, BodyOK
  <2>3. Table(OpOf(call[r].ep)) = "balances"
    BY <1>1 DEF OpOf, Table, Single
  <2>4. e = [row |-> b, account |-> Owner[b],
             indicator |-> Entry[b].indicator, amount |-> Entry[b].amount]
    BY <2>2, <2>3 DEF Resource, balanceToDTO
  <2> HIDE DEF e, b
  <2>5. Owner[b] = Confirms(q) /\ b \in arrival[q].db.balances \cap Interim
    BY <1>1, <2>4 DEF e, b
  <2>6. e.indicator = Entry[b].indicator /\ e.amount = Entry[b].amount
    BY <2>4
  <2>7. Covers(e, call[q].amount) <=> Covers(Entry[b], call[q].amount)
    BY <2>6 DEF Covers, Worth
  <2> QED
    BY <1>1, <2>5, <2>7, FundsOfRow DEF e
<1>2. IInv => BalancesAgreeWithFunds
  BY <1>1 DEF BalancesAgreeWithFunds
<1> QED
  BY <1>2, Invariance, PTL

-----------------------------------------------------------------------------
(* The service implements ConsentGate: every behaviour of it, seen through *)
(* gateOf and wantOf, is one of the gate.  The only step that grants is    *)
(* ConsentAnswers: the moment the consent service handles the GET is the   *)
(* instant at which check and consent meet.                                *)

\* What the gate knows of consents is what the service knows of them.
LEMMA SameConsents ==
    /\ Gate!Permissions = Permissions
    /\ Gate!ConsentInit <=> ConsentInit
    /\ \A v, P : Gate!Authorises(v, P) <=> Authorises(v, P)
    /\ \A c : Gate!MoveConsent(c) <=> MoveConsent(c)
<1> USE DEF Gate!Unknown, Unknown, Gate!StatusAwaitingAuthorisation,
         StatusAwaitingAuthorisation, Gate!StatusAuthorised, StatusAuthorised,
         Gate!StatusRejected, StatusRejected, Gate!StatusRevoked, StatusRevoked,
         Gate!StatusConsumed, StatusConsumed, Gate!TypeAccountAccess,
         TypeAccountAccess, Gate!TypeDomesticPayment, TypeDomesticPayment
<1>1. Gate!Permissions = Permissions
  BY DEF Gate!Permissions, Permissions, Gate!AccountPerms, AccountPerms,
         Gate!BalancePerms, BalancePerms, Gate!TransactionPerms, TransactionPerms
<1>2. Gate!ConsentInit <=> ConsentInit
  BY DEF Gate!ConsentInit, ConsentInit
<1>3. \A v, P : Gate!Authorises(v, P) <=> Authorises(v, P)
  BY DEF Gate!Authorises, Authorises, Gate!HasPermission, HasPermission
<1>4. \A v : Gate!MayBecome(v) = MayBecome(v)
  BY DEF Gate!MayBecome, MayBecome, Gate!Statuses, Statuses, Gate!Ended, Ended
<1>5. \A c : Gate!MoveConsent(c) <=> MoveConsent(c)
  BY <1>4 DEF Gate!MoveConsent, MoveConsent
<1> QED
  BY <1>1, <1>2, <1>3, <1>5

\* What WantPerms asks of a consent for an endpoint are permissions.
LEMMA WantPermsType ==
    ASSUME NEW ep
    PROVE  WantPerms(ep) \in SUBSET Permissions
<1>1. \/ WantPerms(ep) = AccountPerms \/ WantPerms(ep) = BalancePerms
      \/ WantPerms(ep) = TransactionPerms \/ WantPerms(ep) = {}
  BY DEF WantPerms
<1> QED
  BY <1>1 DEF Permissions

\* What a request of the service wants is what a request of the gate may want.
LEMMA WantType ==
    ASSUME TypeOK
    PROVE  wantOf \in [Callers -> Gate!Wants]
<1>1. \A ep : WantPerms(ep) \in SUBSET Permissions
  BY WantPermsType
<1>2. \A r \in Callers : call[r].cid \in ConsentIds \cup {NoConsent}
  BY CallsAssumption DEF TypeOK, Call, NoCall
<1> QED
  BY <1>1, <1>2, SameConsents DEF wantOf, Gate!Wants

\* Before the first request the gate is where ConsentGate starts.
LEMMA GateInit ==
    ASSUME Init
    PROVE  Gate!GateInit
<1>1. gateOf = [r \in Callers |-> "idle"]
  BY DEF Init, gateOf
<1>2. wantOf \in [Callers -> Gate!Wants]
  BY InitTypeOK, WantType
<1> QED
  BY <1>1, <1>2, SameConsents DEF Init, Gate!GateInit

\* Only r has moved.
Alone(r) ==
    \A q \in Callers \ {r} :
        /\ pc'[q] = pc[q] /\ call'[q] = call[q]
        /\ view'[q] = view[q] /\ resp'[q] = resp[q]

\* A step that touches one request moves that request alone at the gate.
LEMMA AloneInGate ==
    ASSUME NEW r \in Callers, Alone(r)
    PROVE  /\ gateOf' = [gateOf EXCEPT ![r] = gateOf'[r]]
           /\ wantOf' = [wantOf EXCEPT ![r] = wantOf'[r]]
<1>1. \A q \in Callers \ {r} : gateOf'[q] = gateOf[q] /\ wantOf'[q] = wantOf[q]
  BY DEF Alone, gateOf, wantOf
<1>2. /\ gateOf = [q \in Callers |-> gateOf[q]]
      /\ gateOf' = [q \in Callers |-> gateOf'[q]]
      /\ wantOf = [q \in Callers |-> wantOf[q]]
      /\ wantOf' = [q \in Callers |-> wantOf'[q]]
  BY DEF gateOf, wantOf
<1> QED
  BY <1>1, <1>2

\* A step of r that the gate allows from where it stands, or does not notice.
LEMMA StepOfGate ==
    ASSUME NEW r \in Callers, Alone(r), consent' = consent, call'[r] = call[r],
           \/ gateOf'[r] = gateOf[r]
           \/ gateOf[r] \in {"asked", "granted"} /\ gateOf'[r] = "refused"
           \/ gateOf[r] = "granted" /\ gateOf'[r] \in {"asked", "disclosed"}
           \/ /\ gateOf[r] = "asked" /\ gateOf'[r] = "granted"
              /\ wantOf[r].cid \in ConsentIds
              /\ Authorises(consent[wantOf[r].cid], wantOf[r].perms)
    PROVE  [Gate!GateNext]_(Gate!gateVars)
<1>1. gateOf' = [gateOf EXCEPT ![r] = gateOf'[r]]
  BY AloneInGate
<1>2. wantOf' = wantOf
  <2>1. wantOf'[r] = wantOf[r]
    BY DEF wantOf
  <2>2. wantOf = [q \in Callers |-> wantOf[q]]
    BY DEF wantOf
  <2> QED
    BY <2>1, <2>2, AloneInGate
<1>3. gateOf = [q \in Callers |-> gateOf[q]]
  BY DEF gateOf
<1>4. CASE gateOf'[r] = gateOf[r]
  BY <1>1, <1>2, <1>3, <1>4 DEF Gate!gateVars
<1>5. CASE gateOf[r] \in {"asked", "granted"} /\ gateOf'[r] = "refused"
  BY <1>1, <1>2, <1>5 DEF Gate!GateNext, Gate!Refuse, Gate!Step
<1>6. CASE gateOf[r] = "granted" /\ gateOf'[r] = "asked"
  BY <1>1, <1>2, <1>6 DEF Gate!GateNext, Gate!Retract, Gate!Step
<1>7. CASE gateOf[r] = "granted" /\ gateOf'[r] = "disclosed"
  BY <1>1, <1>2, <1>7 DEF Gate!GateNext, Gate!Disclose, Gate!Step
<1>8. CASE /\ gateOf[r] = "asked" /\ gateOf'[r] = "granted"
           /\ wantOf[r].cid \in ConsentIds
           /\ Authorises(consent[wantOf[r].cid], wantOf[r].perms)
  BY <1>1, <1>2, <1>8, SameConsents DEF Gate!GateNext, Gate!Grant, Gate!Step
<1> QED
  BY <1>4, <1>5, <1>6, <1>7, <1>8

-----------------------------------------------------------------------------
(* Steps.                                                                  *)

\* A step of one request moves that request alone.
LEMMA OwnStepAlone ==
    ASSUME TypeOK, NEW r \in Callers, OwnStep(r)
    PROVE  Alone(r) /\ consent' = consent
<1>1. Alone(r)
  BY OthersUndisturbed DEF Alone, Undisturbed
<1>2. consent' = consent
  <2>1. ASSUME NEW code, NEW body, NEW funds, Answer(r, code, body, funds)
        PROVE  consent' = consent
    BY <2>1 DEF Answer
  <2>2. ASSUME NEW from, NEW to, NEW x, CallRepository(r, from, to, x)
        PROVE  consent' = consent
    BY <2>2 DEF CallRepository
  <2>3. CASE \/ \E c \in Calls : Arrive(r, c)
             \/ CallConsent(r) \/ ConsentAnswers(r) \/ Resend(r) \/ RepositoryStep(r)
    BY <2>3 DEF Arrive, CallConsent, ConsentAnswers, Resend, RepositoryStep, ownVars
  <2>4. CASE HeaderMissing(r) \/ ConsentGetFails(r)
    BY <2>1, <2>4, Zenon DEF HeaderMissing, ConsentGetFails, Fail
  <2>5. CASE Authorise(r) \/ Validate(r)
    BY <2>1, <2>2, <2>5, Zenon DEF Authorise, Validate, Fail
  <2>6. CASE ReadReturns(r)
    BY <2>1, <2>6, Zenon DEF ReadReturns, Fail
  <2>7. CASE FindReturns(r)
    BY <2>1, <2>2, <2>7, Zenon DEF FindReturns, Fail
  <2>8. CASE CompareFunds(r)
    BY <2>1, <2>8, Zenon DEF CompareFunds, Fail
  <2> QED
    BY <2>3, <2>4, <2>5, <2>6, <2>7, <2>8 DEF OwnStep, HandlerStep
<1> QED
  BY <1>1, <1>2

\* A request arrives at the gate, or at a call it does not guard.
LEMMA ArriveAsks ==
    ASSUME IInv, IInv', NEW r \in Callers, NEW c \in Calls, Arrive(r, c)
    PROVE  Gate!Ask(r)
<1>0. TypeOK /\ TypeOK'
  BY DEF IInv
<1>1. Alone(r) /\ consent' = consent
  BY <1>0, OwnStepAlone DEF OwnStep
<1>2. pc[r] = "idle" /\ pc'[r] = "handler"
  BY <1>0 DEF Arrive, Goto, TypeOK
<1>3. gateOf[r] \in Gate!Over /\ gateOf'[r] \in {"asked", "idle"}
  BY <1>2 DEF gateOf, Gate!Over
<1>4. gateOf' = [gateOf EXCEPT ![r] = gateOf'[r]]
  BY <1>1, AloneInGate
<1>5. \A q \in Callers \ {r} : wantOf'[q] = wantOf[q]
  BY <1>1 DEF Alone, wantOf
<1>6. wantOf' \in [Callers -> Gate!Wants]
  <2>1. \A q \in Callers :
            /\ WantPerms(call'[q].ep) \in SUBSET Permissions
            /\ call'[q].cid \in ConsentIds \cup {NoConsent}
    BY <1>0, WantPermsType, CallsAssumption DEF TypeOK, Call, NoCall
  <2> QED
    BY <2>1, SameConsents DEF wantOf, Gate!Wants
<1> QED
  BY <1>1, <1>3, <1>4, <1>5, <1>6 DEF Gate!Ask, Gate!Step

\* A step of one request, or of the consent service or the repository on its
\* behalf, is a step of the gate or leaves the gate as it is.
LEMMA RequestStepOfGate ==
    ASSUME IInv, IInv', NEW r \in Callers, OwnStep(r)
    PROVE  [Gate!GateNext]_(Gate!gateVars)
<1>0. TypeOK /\ TypeOK' /\ RequestOK(r) /\ RequestOK(r)'
  BY DEF IInv
<1>1. Alone(r) /\ consent' = consent
  BY <1>0, OwnStepAlone
<1>2. CASE \E c \in Calls : Arrive(r, c)
  BY <1>2, ArriveAsks DEF Gate!GateNext
<1>3. ASSUME call'[r] = call[r], gateOf'[r] = gateOf[r]
      PROVE  [Gate!GateNext]_(Gate!gateVars)
  BY <1>1, <1>3, StepOfGate
<1>4. ASSUME call'[r] = call[r], call[r].ep \notin PublicEndpoints
      PROVE  [Gate!GateNext]_(Gate!gateVars)
  BY <1>3, <1>4 DEF gateOf
<1>5. ASSUME NEW code \in {400, 401, 403, 500}, Fail(r, code),
             pc[r] \in {"handler", "consent", "answered", "repo", "find", "balance"}
      PROVE  [Gate!GateNext]_(Gate!gateVars)
  <2>1. pc'[r] = "done" /\ resp'[r].code = code /\ call'[r] = call[r]
    BY <1>0, <1>5 DEF Fail, Answer, TypeOK
  <2>2. CASE call[r].ep \in PublicEndpoints
    <3>1. gateOf[r] \in {"asked", "granted"} /\ gateOf'[r] = "refused"
      BY <1>5, <2>1, <2>2 DEF gateOf
    <3> QED
      BY <1>1, <2>1, <3>1, StepOfGate
  <2>3. CASE call[r].ep \notin PublicEndpoints
    BY <1>4, <2>1, <2>3
  <2> QED
    BY <2>2, <2>3
<1>6. CASE HeaderMissing(r)
  BY <1>5, <1>6 DEF HeaderMissing
<1>7. CASE CallConsent(r)
  <2>1. /\ pc[r] = "handler" /\ pc'[r] = "consent" /\ call'[r] = call[r]
        /\ call[r].ep \in PublicEndpoints
    BY <1>0, <1>7 DEF CallConsent, Goto, TypeOK
  <2> QED
    BY <1>3, <2>1 DEF gateOf
<1>8. CASE ConsentAnswers(r)
  <2>1. /\ pc[r] = "consent" /\ pc'[r] = "answered" /\ call'[r] = call[r]
        /\ view'[r] = consent[call[r].cid]
    BY <1>0, <1>8 DEF ConsentAnswers, ConsentSnapshot, Goto, TypeOK
  <2>2. call[r].ep \in PublicEndpoints /\ call[r].cid \in ConsentIds
    BY <1>0, <2>1 DEF RequestOK, Guarded
  <2>3. gateOf[r] = "asked"
    BY <2>1, <2>2 DEF gateOf
  <2>4. /\ wantOf[r].cid = call[r].cid
        /\ wantOf[r].perms = WantPerms(call[r].ep)
    BY DEF wantOf
  <2>5. CASE Authorises(consent[call[r].cid], WantPerms(call[r].ep))
    <3>1. gateOf'[r] = "granted"
      BY <2>1, <2>2, <2>5 DEF gateOf
    <3> QED
      BY <1>1, <2>1, <2>2, <2>3, <2>4, <2>5, <3>1, StepOfGate
  <2>6. CASE ~Authorises(consent[call[r].cid], WantPerms(call[r].ep))
    <3>1. gateOf'[r] = "asked"
      BY <2>1, <2>2, <2>6 DEF gateOf
    <3> QED
      BY <1>3, <2>1, <2>3, <3>1
  <2> QED
    BY <2>5, <2>6
<1>9. CASE Resend(r)
  <2>1. pc[r] = "answered" /\ pc'[r] = "consent" /\ call'[r] = call[r]
    BY <1>0, <1>9 DEF Resend, Goto, TypeOK
  <2>2. call[r].ep \in PublicEndpoints
    BY <1>0, <2>1 DEF RequestOK, Guarded
  <2>3. gateOf[r] \in {"asked", "granted"} /\ gateOf'[r] = "asked"
    BY <2>1, <2>2 DEF gateOf
  <2> QED
    BY <1>1, <2>1, <2>3, StepOfGate
<1>10. CASE ConsentGetFails(r)
  BY <1>5, <1>10 DEF ConsentGetFails, MayFail
<1>11. CASE Authorise(r)
  <2>1. CASE pc[r] = "answered" /\ Fail(r, 403)
    BY <1>5, <2>1
  <2>2. CASE /\ Acceptable(view[r], call[r].ep)
             /\ CallRepository(r, "answered", "repo", QueryOf(call[r]))
    <3>1. /\ pc[r] = "answered" /\ pc'[r] = "repo" /\ call'[r] = call[r]
          /\ view'[r] = view[r]
      BY <1>0, <2>2 DEF CallRepository, Goto, TypeOK
    <3>2. Authorises(view[r], WantPerms(call[r].ep))
      BY <2>2 DEF Acceptable, Authorises, HasAnyPermission
    <3>3. call[r].ep \in PublicEndpoints
      BY <1>0, <3>1 DEF RequestOK, Guarded
    <3> QED
      BY <1>3, <3>1, <3>2, <3>3 DEF gateOf
  <2> QED
    BY <1>11, <2>1, <2>2 DEF Authorise
<1>12. CASE RepositoryStep(r)
  <2>1. /\ InRepository(r) /\ UNCHANGED <<pc, call, view, resp>>
    BY <1>12 DEF RepositoryStep, ownVars
  <2> QED
    BY <1>3, <2>1 DEF gateOf
<1>13. CASE ReadReturns(r)
  <2>1. pc[r] = "repo" /\ call[r].ep \in PublicEndpoints
    BY <1>0, <1>13 DEF ReadReturns, RequestOK, Guarded
  <2>2. pc'[r] = "done" /\ call'[r] = call[r] /\ resp'[r].code \in {200, 404, 500}
    <3>1. CASE Answer(r, 200, Body(query[r].op, value[r].rows), FALSE)
      BY <1>0, <3>1 DEF Answer, TypeOK
    <3>2. CASE Fail(r, IF call[r].ep \in BulkEndpoints THEN 500 ELSE mapNotFound(r))
      BY <1>0, <3>2 DEF Fail, Answer, TypeOK, mapNotFound
    <3> QED
      BY <1>13, <3>1, <3>2 DEF ReadReturns
  <2>3. gateOf[r] = "granted" /\ gateOf'[r] \in {"disclosed", "refused"}
    BY <2>1, <2>2 DEF gateOf
  <2> QED
    BY <1>1, <2>2, <2>3, StepOfGate
<1>14. ASSUME Validate(r) \/ FindReturns(r) \/ CompareFunds(r)
       PROVE  [Gate!GateNext]_(Gate!gateVars)
  <2>1. call[r].ep = Funds
    <3>1. CASE Validate(r)
      BY <3>1 DEF Validate
    <3>2. CASE FindReturns(r) \/ CompareFunds(r)
      <4>1. pc[r] \in {"find", "balance"}
        BY <3>2 DEF FindReturns, CompareFunds, CallRepository, Goto
      <4> QED
        BY <1>0, <4>1 DEF RequestOK
    <3> QED
      BY <1>14, <3>1, <3>2
  <2>2. call' = call
    <3>1. ASSUME NEW code, NEW body, NEW funds, Answer(r, code, body, funds)
          PROVE  call' = call
      BY <3>1 DEF Answer
    <3>2. CASE Validate(r) \/ FindReturns(r)
      BY <3>1, <3>2 DEF Validate, FindReturns, CallRepository, Fail
    <3>3. CASE CompareFunds(r)
      BY <3>1, <3>3, Zenon DEF CompareFunds, Fail
    <3> QED
      BY <1>14, <3>2, <3>3
  <2> QED
    BY <1>4, <2>1, <2>2, EndpointKinds
<1> QED
  BY <1>2, <1>6, <1>7, <1>8, <1>9, <1>10, <1>11, <1>12, <1>13, <1>14
     DEF OwnStep, HandlerStep

\* The service discloses only what ConsentGate lets it disclose, for any
\* number of requests and consents: authorise and the exchange with the consent
\* service, with its losses, resends and races, act as one atomic check.
THEOREM ServiceImplementsGate == Spec => GateSpec
<1>1. Init => Gate!GateInit
  BY GateInit
<1>2. IInv /\ IInv' /\ [Next]_vars => [Gate!GateNext]_(Gate!gateVars)
  <2> SUFFICES ASSUME IInv, IInv', [Next]_vars
               PROVE  [Gate!GateNext]_(Gate!gateVars)
    OBVIOUS
  <2>1. CASE GrowEstate
    BY <2>1 DEF GrowEstate, ownVars, gateOf, wantOf, Gate!gateVars
  <2>2. CASE ConsentMoves
    <3>1. gateOf' = gateOf /\ wantOf' = wantOf
      BY <2>2 DEF ConsentMoves, gateOf, wantOf
    <3> QED
      BY <2>2, <3>1, SameConsents DEF ConsentMoves, Gate!GateNext, Gate!ConsentStep
  <2>3. CASE UNCHANGED vars
    BY <2>3 DEF vars, ownVars, gateOf, wantOf, Gate!gateVars
  <2> QED
    BY <2>1, <2>2, <2>3, RequestStepOfGate DEF Next, OwnStep
<1> QED
  BY <1>1, <1>2, Invariance, PTL DEF Spec, GateSpec, Gate!GateSpec

=============================================================================
