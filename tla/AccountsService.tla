-------------------------- MODULE AccountsService --------------------------
(***************************************************************************)
(* The accounts service as its callers see it: the handlers of             *)
(* internal/accounts/handler.go over Service (service.go), between the     *)
(* consent service, which they ask through consentcli, and the persistence *)
(* port, which they call through repository.go.  Requests run concurrently *)
(* and share nothing but the consents and the estate, which others change  *)
(* while a request is between two steps.                                   *)
(*                                                                         *)
(* A request is the goroutine that serves it, a member of Callers: it is a *)
(* caller of the port (module Repository) and has a pc:                    *)
(*   "idle"      to come                   "handler"  arrived, not checked *)
(*   "consent"   GET sent                  "answered" its answer is there  *)
(*   "repo"      in its repository call    "find"     funds: first call    *)
(*   "balance"   funds: second call        "done"     answered             *)
(***************************************************************************)
EXTENDS Consents, Repository

CONSTANTS
    NoConsent,   \* the x-consent-id header is absent
    Seed,        \* the rows the migrations this replica ran have inserted
    Currencies,  \* the currency codes currencyPattern accepts
    BadCurrency, \* stands for any amount or currency NewAmount rejects
    Entry,       \* [indicator, amount] of each balance and transaction row
    Calls        \* the calls the clients make

VARIABLES
    pc, call,
    view,   \* what consentcli.Get returned; status Unknown is ErrNotFound
    resp,   \* the answer of a request that is "done"
    arrival \* history: what held when the request arrived

ownVars == <<consent, pc, call, view, resp, arrival>>
vars == <<portVars, ownVars>>

-----------------------------------------------------------------------------
(* Endpoints, named by their handlers.                                     *)

BulkEndpoints   == {"listAccounts", "allBalances", "allTransactions"}
ScopedEndpoints == {"getAccount", "accountBalances", "accountTransactions"}
PublicEndpoints == BulkEndpoints \cup ScopedEndpoints
Funds           == "fundsConfirmation"

WantPerms(ep) ==
    CASE ep \in {"listAccounts", "getAccount"}           -> AccountPerms
      [] ep \in {"accountBalances", "allBalances"}       -> BalancePerms
      [] ep \in {"accountTransactions", "allTransactions"} -> TransactionPerms
      [] OTHER                                           -> {}

OpOf(ep) ==
    CASE ep = "listAccounts"         -> "ListAccounts"
      [] ep = "getAccount"           -> "GetAccount"
      [] ep = "accountBalances"      -> "ListBalances"
      [] ep = "accountTransactions"  -> "ListTransactions"
      [] ep = "allBalances"          -> "ListAllBalances"
      [] ep = "allTransactions"      -> "ListAllTransactions"
      [] OTHER                       -> "FindByIdentification"

\* Faulty: the balances of one account from the statement for all of them.
QueryOfAllBalances(c) ==
    IF c.ep = "accountBalances" THEN [op |-> "ListAllBalances", key |-> NoKey]
    ELSE [op |-> OpOf(c.ep), key |-> c.key]

\* The repository call of an endpoint; of the funds confirmation, the first.
QueryOf(c) == [op |-> OpOf(c.ep), key |-> c.key]

\* Amounts count the smallest unit OBIE can write, 10^-5 of the currency.
NoCurrency == "" \* the currency of the zero Amount, in no Currencies
Amount == [value : Int, currency : Currencies \cup {NoCurrency, BadCurrency}]
ZeroAmount == [value |-> 0, currency |-> NoCurrency]

Credit == "Credit"
Debit  == "Debit"

Call == [ep : PublicEndpoints \cup {Funds}, cid : ConsentIds \cup {NoConsent},
         key : Accounts \cup Idents \cup {NoKey}, amount : Amount]

NoCall == [ep |-> "health", cid |-> NoConsent, key |-> NoKey, amount |-> ZeroAmount]

WellFormed(c) ==
    CASE c.ep \in BulkEndpoints   -> c.key = NoKey
      [] c.ep \in ScopedEndpoints -> c.key \in Accounts
      [] OTHER                    -> c.cid = NoConsent /\ c.key \in Idents \cup {NoKey}

ASSUME EntryAssumption ==
    /\ BadCurrency \notin Currencies /\ NoCurrency \notin Currencies
    /\ Entry \in [Balances \cup Transactions ->
                     [indicator : {Credit, Debit}, amount : Amount]]
    /\ \A b \in (Balances \cup Transactions) \ Bad : Entry[b].amount.currency \in Currencies

ASSUME CallsAssumption ==
    /\ NoConsent \notin ConsentIds
    /\ Calls \subseteq Call
    /\ \A c \in Calls : WellFormed(c)

-----------------------------------------------------------------------------
(* The wire shapes of api.go, as far as they tell rows and money apart: the *)
(* row stands for the key the resource shows, AccountId, AccountId and      *)
(* Type, or TransactionId.                                                  *)

accountToDTO(a) == [row |-> a, ident |-> Identification[a]]

\* Faulty: the sign of availableBalance, on the wire with the indicator.
balanceToDTOSigned(b) ==
    LET e == Entry[b] IN
    [row |-> b, account |-> Owner[b], indicator |-> e.indicator,
     amount |-> IF e.indicator = Debit
                THEN [e.amount EXCEPT !.value = -e.amount.value] ELSE e.amount]

balanceToDTO(b) ==
    [row |-> b, account |-> Owner[b],
     indicator |-> Entry[b].indicator, amount |-> Entry[b].amount]

transactionToDTO(t) ==
    [row |-> t, account |-> Owner[t],
     indicator |-> Entry[t].indicator, amount |-> Entry[t].amount]

Resource(op, row) ==
    CASE Table(op) = "accounts" -> accountToDTO(row)
      [] Table(op) = "balances" -> balanceToDTO(row)
      [] OTHER                  -> transactionToDTO(row)

Body(op, rows) == [i \in 1..Len(rows) |-> Resource(op, rows[i])]

-----------------------------------------------------------------------------
(* What the code computes.                                                 *)

\* Faulty: a debt counts as funds.
AvailableBalanceUnsigned(rows) ==
    IF rows = << >> THEN ZeroAmount ELSE Entry[rows[1]].amount

\* availableBalance of the InterimAvailable row of an account, if it has one.
AvailableBalance(rows) ==
    IF rows = << >> THEN ZeroAmount
    ELSE LET e == Entry[rows[1]] IN
         IF e.indicator = Debit THEN [e.amount EXCEPT !.value = -e.amount.value]
                                ELSE e.amount

\* Faulty: the comparison the wrong way round.
SufficientSwapped(available, amount) ==
    available.currency = amount.currency /\ amount.value >= available.value

\* FundsAvailable after both reads: a currency mismatch is an answer, "no".
Sufficient(available, amount) ==
    available.currency = amount.currency /\ available.value >= amount.value

HasAnyPermission(v, P) == \E p \in P : HasPermission(v, p)

\* Faulty: authorise without its status check, and without its type check.
AcceptableAnyStatus(v, ep) ==
    /\ v.type = TypeAccountAccess
    /\ WantPerms(ep) # {} => HasAnyPermission(v, WantPerms(ep))
AcceptableAnyType(v, ep) ==
    /\ v.status = StatusAuthorised
    /\ WantPerms(ep) # {} => HasAnyPermission(v, WantPerms(ep))

\* authorise, once the view is there.
Acceptable(v, ep) ==
    /\ v.status # Unknown
    /\ v.type = TypeAccountAccess
    /\ v.status = StatusAuthorised
    /\ WantPerms(ep) # {} => HasAnyPermission(v, WantPerms(ep))

NoView   == [type |-> TypeAccountAccess, perms |-> {}, status |-> Unknown]
NoAnswer == [code |-> 0, body |-> << >>, funds |-> FALSE]
Codes    == {0, 200, 400, 401, 403, 404, 500}

\* The status of the consent a call names, as of now.
StatusNow(c) ==
    IF c.cid = NoConsent THEN Unknown ELSE consent[c.cid].status

-----------------------------------------------------------------------------
Holds(d, e) == \A t \in DOMAIN e : e[t] \subseteq d[t]

\* main listens after newRepository, which runs the migrations.
Init ==
    /\ ConsentInit
    /\ PortInit /\ Holds(db, Seed)
    /\ pc = [r \in Callers |-> "idle"]
    /\ call = [r \in Callers |-> NoCall]
    /\ view = [r \in Callers |-> NoView]
    /\ resp = [r \in Callers |-> NoAnswer]
    /\ arrival = [r \in Callers |-> [status |-> Unknown, db |-> db]]

Goto(r, from, to) ==
    /\ pc[r] = from
    /\ pc' = [pc EXCEPT ![r] = to]

Answer(r, code, body, funds) ==
    /\ pc' = [pc EXCEPT ![r] = "done"]
    /\ resp' = [resp EXCEPT ![r] = [code |-> code, body |-> body, funds |-> funds]]
    /\ UNCHANGED <<portVars, consent, call, view, arrival>>

Fail(r, code) == Answer(r, code, << >>, FALSE)

\* The goroutine of r calls the repository.
CallRepository(r, from, to, q) ==
    /\ Goto(r, from, to)
    /\ Ask(r, q)
    /\ UNCHANGED <<consent, call, view, resp, arrival>>

Arrive(r, c) ==
    /\ Goto(r, "idle", "handler")
    /\ call' = [call EXCEPT ![r] = c]
    /\ arrival' = [arrival EXCEPT ![r] = [status |-> StatusNow(c), db |-> db]]
    /\ UNCHANGED <<portVars, consent, view, resp>>

-----------------------------------------------------------------------------
(* Authorisation.                                                          *)

HeaderMissing(r) ==
    /\ pc[r] = "handler"
    /\ call[r].ep \in PublicEndpoints
    /\ call[r].cid = NoConsent
    /\ Fail(r, 401)

CallConsent(r) ==
    /\ call[r].ep \in PublicEndpoints
    /\ call[r].cid # NoConsent
    /\ Goto(r, "handler", "consent")
    /\ UNCHANGED <<portVars, consent, call, view, resp, arrival>>

\* Faulty: a client that keeps the authorised views it has seen.
ConsentSnapshotCached(r) ==
    LET kept == {q \in Callers : /\ pc[q] = "done" /\ call[q].cid = call[r].cid
                                 /\ view[q].status = StatusAuthorised}
    IN IF kept = {} THEN consent[call[r].cid] ELSE view[CHOOSE q \in kept : TRUE]

\* What a GET of this consent, handled now, answers.
ConsentSnapshot(r) == consent[call[r].cid]

\* The consent service handles the GET: the view is what the consent is at
\* that instant, and the consent may move on before the view is looked at.
ConsentAnswers(r) ==
    /\ Goto(r, "consent", "answered")
    /\ view' = [view EXCEPT ![r] = ConsentSnapshot(r)]
    /\ UNCHANGED <<portVars, consent, call, resp, arrival>>

\* The connection broke before the answer came; net/http sends an idempotent
\* GET again on a new one.
Resend(r) ==
    /\ Goto(r, "answered", "consent")
    /\ view' = [view EXCEPT ![r] = NoView]
    /\ UNCHANGED <<portVars, consent, call, resp, arrival>>

\* Faulty: no timer, so nothing ends a GET that is not answered.
MayFailOnlyAnswered(r) == pc[r] = "answered"

\* Where Get can give up: the 5 s timer of the client covers the whole
\* exchange, and so do a refused connection, another status, an undecodable
\* body and the cancelled context of a caller who left.
MayFail(r) == pc[r] \in {"consent", "answered"}

ConsentGetFails(r) ==
    /\ MayFail(r)
    /\ Fail(r, 500)

Authorise(r) ==
    \/ /\ Acceptable(view[r], call[r].ep)
       /\ CallRepository(r, "answered", "repo", QueryOf(call[r]))
    \/ /\ pc[r] = "answered"
       /\ ~Acceptable(view[r], call[r].ep)
       /\ Fail(r, 403)

-----------------------------------------------------------------------------
(* Returns of the repository.                                              *)

Succeeded(r) == state[r] = "answered" /\ value[r].found
Erred(r)     == state[r] = "failed" \/ (state[r] = "answered" /\ ~value[r].found)

\* Faulty: every error is taken for ErrNotFound.
mapNotFoundAny(r) == 404

mapNotFound(r) == IF state[r] = "failed" THEN 500 ELSE 404

ReadReturns(r) ==
    /\ pc[r] = "repo"
    /\ \/ Succeeded(r) /\ Answer(r, 200, Body(query[r].op, value[r].rows), FALSE)
       \/ Erred(r) /\ Fail(r, IF call[r].ep \in BulkEndpoints THEN 500 ELSE mapNotFound(r))

-----------------------------------------------------------------------------
(* The internal funds confirmation: no consent.                            *)

ValidFunds(c) == c.key # NoKey /\ c.amount.currency \in Currencies

Validate(r) ==
    /\ call[r].ep = Funds
    /\ \/ /\ ValidFunds(call[r])
          /\ CallRepository(r, "handler", "find", QueryOf(call[r]))
       \/ /\ pc[r] = "handler"
          /\ ~ValidFunds(call[r])
          /\ Fail(r, 400)

\* Faulty: the identification is taken for the account id.
FindReturnsKey(r) ==
    CallRepository(r, "find", "balance", [op |-> "AvailableBalance", key |-> call[r].key])

FindReturns(r) ==
    \/ /\ Succeeded(r)
       /\ CallRepository(r, "find", "balance",
                         [op |-> "AvailableBalance", key |-> value[r].rows[1]])
    \/ /\ pc[r] = "find"
       /\ Erred(r)
       /\ Fail(r, mapNotFound(r))

CompareFunds(r) ==
    /\ pc[r] = "balance"
    /\ \/ /\ Succeeded(r)
          /\ Answer(r, 200, << >>,
                    Sufficient(AvailableBalance(value[r].rows), call[r].amount))
       \/ Erred(r) /\ Fail(r, 500)

-----------------------------------------------------------------------------
(* What goes on around the handlers.                                       *)

InRepository(r) == pc[r] \in {"repo", "find", "balance"}

\* The call of r is answered, or fails: a statement fails, a stored amount does
\* not parse, or the context of a caller who left is cancelled.
RepositoryStep(r) ==
    /\ InRepository(r)
    /\ Look(r) \/ GiveUp(r)
    /\ UNCHANGED ownVars

\* A newer replica commits a migration file.
GrowEstate == Grow /\ UNCHANGED ownVars

ConsentMoves ==
    /\ \E c \in ConsentIds : MoveConsent(c)
    /\ UNCHANGED <<portVars, pc, call, view, resp, arrival>>

\* The steps of r's own goroutine that wait for nobody.
HandlerStep(r) ==
    \/ HeaderMissing(r) \/ CallConsent(r) \/ Authorise(r) \/ ReadReturns(r)
    \/ Validate(r) \/ FindReturns(r) \/ CompareFunds(r)

Next ==
    \/ \E r \in Callers :
          \/ \E c \in Calls : Arrive(r, c)
          \/ HandlerStep(r)
          \/ ConsentAnswers(r)
          \/ Resend(r)
          \/ ConsentGetFails(r)
          \/ RepositoryStep(r)
    \/ GrowEstate
    \/ ConsentMoves

\* The goroutine runs, the client's timer fires, and the repository returns
\* (CallReturns of PgRepository).  The consent service owes nothing.
Fairness ==
    \A r \in Callers :
        /\ WF_vars(HandlerStep(r))
        /\ WF_vars(ConsentGetFails(r))
        /\ WF_vars(RepositoryStep(r))

Spec == Init /\ [][Next]_vars /\ Fairness

-----------------------------------------------------------------------------
(* Properties.                                                             *)

Resources ==
    [row : Accounts, ident : Idents]
    \cup [row : Balances \cup Transactions, account : Accounts,
          indicator : {Credit, Debit}, amount : Amount]
Arrivals == [status : Statuses, db : Estates]
Answers  == [code : Codes, body : Seq(Resources), funds : BOOLEAN]

\* Every variable keeps its type, and what is asked of the repository is one
\* of its calls.
TypeOK ==
    /\ consent \in [ConsentIds -> View]
    /\ db \in Estates /\ ForeignKeys(db)
    /\ state \in [Callers -> {"idle", "asked", "answered", "failed"}]
    /\ query \in [Callers -> Queries]
    /\ value \in [Callers -> Values]
    /\ pc \in [Callers -> {"idle", "handler", "consent", "answered", "repo",
                           "find", "balance", "done"}]
    /\ call \in [Callers -> Calls \cup {NoCall}]
    /\ view \in [Callers -> View]
    /\ resp \in [Callers -> Answers]
    /\ arrival \in [Callers -> Arrivals]

\* The call was for a public endpoint and its answer tells something of the
\* estate: the data, or that an account is not there.
Disclosed(r) ==
    /\ pc[r] = "done"
    /\ call[r].ep \in PublicEndpoints
    /\ resp[r].code \in {200, 404}

\* A funds confirmation was answered, yes or no.
Confirmed(r) == pc[r] = "done" /\ call[r].ep = Funds /\ resp[r].code = 200

\* While a request holds a view of its consent, the view is one the consent
\* had between the arrival and now: its status is reachable from the one at
\* arrival, and the present one from it.  consentcli.Get asks every time; no
\* view outlives its request.
ViewFresh ==
    \A r \in Callers :
        pc[r] \in {"answered", "repo"} =>
            LET now == consent[call[r].cid] IN
            /\ view[r].type = now.type /\ view[r].perms = now.perms
            /\ Reaches(arrival[r].status, view[r].status)
            /\ Reaches(view[r].status, now.status)

\* A consent that was revoked, rejected or consumed before the request arrived
\* unlocks nothing for it, whatever races with the consent GET and its resends.
RevocationHolds ==
    \A r \in Callers : Disclosed(r) => arrival[r].status \notin Ended

\* The rows of d a public read is about.
About(c, d) ==
    CASE c.ep = "listAccounts"        -> d.accounts
      [] c.ep = "getAccount"          -> d.accounts \cap {c.key}
      [] c.ep = "allBalances"         -> d.balances
      [] c.ep = "accountBalances"     -> {b \in d.balances : Owner[b] = c.key}
      [] c.ep = "allTransactions"     -> d.transactions
      [] OTHER                        -> {t \in d.transactions : Owner[t] = c.key}

Shown(r) == [i \in 1..Len(resp[r].body) |-> resp[r].body[i].row]

\* The body of a read lists, once and in order, every row the call is about
\* that was there when it came, and none that is not there now, while other
\* replicas insert rows; and a bulk read is never answered 404.
ListComplete ==
    \A r \in Callers :
        Disclosed(r) =>
            IF resp[r].code = 200
            THEN \E S \in SUBSET About(call[r], db) :
                    About(call[r], arrival[r].db) \subseteq S /\ IsListing(Shown(r), S)
            ELSE call[r].ep \notin BulkEndpoints

\* 404 is the truth about the estate the request found: mapNotFound never turns
\* another failure, or a row that was already there, into "no such account".
NotFoundHonest ==
    \A r \in Callers :
        (pc[r] = "done" /\ resp[r].code = 404) =>
            \A a \in arrival[r].db.accounts :
                IF call[r].ep = Funds THEN Identification[a] # call[r].key
                                      ELSE a # call[r].key

\* What an entry is worth to its account: a Debit is a debt.
Worth(e) == IF e.indicator = Credit THEN e.amount.value ELSE 0 - e.amount.value

Covers(e, amount) == e.amount.currency = amount.currency /\ Worth(e) >= amount.value

CoveredIn(a, amount, d) ==
    \E b \in d.balances \cap Interim : Owner[b] = a /\ Covers(Entry[b], amount)

\* The account a funds confirmation is about.
Confirms(r) == query[r].key

\* A yes is covered by an InterimAvailable row, in this currency, of an account
\* with this identification; a no is said only of such an account that was not
\* covered when the request came: never for a debt, a missing row or another
\* currency, although two calls, and rows committed between them, are involved.
FundsAnswerExact ==
    \A r \in Callers :
        Confirmed(r) =>
            /\ Confirms(r) \in db.accounts
            /\ Identification[Confirms(r)] = call[r].key
            /\ IF resp[r].funds
               THEN CoveredIn(Confirms(r), call[r].amount, db)
               ELSE ~CoveredIn(Confirms(r), call[r].amount, arrival[r].db)

HadInterim(r, a) == \E b \in arrival[r].db.balances \cap Interim : Owner[b] = a

\* Two answers about one account do not contradict each other: if one amount was
\* confirmed, and another one of the same currency refused by a request that
\* found the balance stored, the refused one is the larger, whichever was asked
\* first.
FundsConsistent ==
    \A r, q \in Callers :
        (/\ Confirmed(r) /\ Confirmed(q) /\ Confirms(r) = Confirms(q)
         /\ HadInterim(q, Confirms(q))
         /\ call[r].amount.currency = call[q].amount.currency
         /\ resp[r].funds /\ ~resp[q].funds) =>
            call[r].amount.value < call[q].amount.value

\* Whoever reads the balances of an account and whoever asks for its funds are
\* told of the same money: the InterimAvailable entry on the wire, a Debit read
\* as a debt, covers exactly the amounts that are confirmed.
BalancesAgreeWithFunds ==
    \A r, q \in Callers :
        (/\ Disclosed(r) /\ call[r].ep \in {"accountBalances", "allBalances"}
         /\ Confirmed(q)) =>
            \A i \in 1..Len(resp[r].body) :
                LET e == resp[r].body[i] IN
                (/\ e.row \in Interim \cap arrival[q].db.balances
                 /\ e.account = Confirms(q)) =>
                    (resp[q].funds <=> Covers(e, call[q].amount))

\* Every request is answered, even if the consent service never answers.
Answered ==
    \A r \in Callers : pc[r] = "handler" ~> pc[r] = "done"

\* What service.go says of authorise: an error of it is one "mapping to
\* 401/403".
AuthoriseRefuses ==
    [][\A r \in Callers :
          (/\ call[r].ep \in PublicEndpoints
           /\ pc[r] \in {"handler", "consent", "answered"} /\ pc'[r] = "done")
          => resp'[r].code \in {401, 403}]_vars

-----------------------------------------------------------------------------
(* The service implements ConsentGate.                                     *)

gateOf ==
    [r \in Callers |->
        IF pc[r] = "idle" \/ call[r].ep \notin PublicEndpoints THEN "idle"
        ELSE IF pc[r] = "done"
             THEN IF resp[r].code \in {200, 404} THEN "disclosed" ELSE "refused"
        ELSE IF \/ pc[r] = "repo"
                \/ /\ pc[r] = "answered"
                   /\ Authorises(view[r], WantPerms(call[r].ep))
             THEN "granted"
        ELSE "asked"]

wantOf ==
    [r \in Callers |->
        [cid |-> call[r].cid, perms |-> WantPerms(call[r].ep)]]

\* The estate is told of only after an instant, between arrival and answer, at
\* which the consent named was an authorised account-access consent with one of
\* the permissions of the endpoint: the check of authorise and the consent meet
\* as if the exchange with the consent service were one atomic step.
Gate == INSTANCE ConsentGate WITH gate <- gateOf, want <- wantOf, Requests <- Callers

GateSpec == Gate!GateSpec

=============================================================================
