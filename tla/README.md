# Verification of openbank-accounts

TLA+ models, model-checking runs and machine-checked proofs for the Accounts
(AIS) microservice: a Go program that answers OBIE account, balance and
transaction reads after validating the caller's consent with another service,
and answers one internal question ("does this account hold this amount?").

Paths below are relative to the repository's root (`src/` in `PROJECT.json`).

## 1. Inventory

### Components

| Component | Code | State it keeps | Operations |
|---|---|---|---|
| Service and handlers | `internal/accounts/service.go`, `handler.go`, `account.go` | none but each request's own progress | six consent-guarded reads, the funds confirmation |
| Consent client | `pkg/consentcli` | a 5 s timer per call | `Get`; `Consume` (called by the payments service, not here) |
| Accounts client | `pkg/accountscli` | a 5 s timer per call | `FundsAvailable`, used by the funds service |
| Amount | `pkg/obie/amount.go` | none (pure) | parse, validate, print, compare, subtract |
| Postgres repository | `internal/accounts/pgrepo.go` | a pool of 10 connections | eight reads, one or two statements each |
| Memory repository | `internal/accounts/memrepo.go` | fixed seed | the same eight reads |
| Migrations | `pkg/pg/pg.go`, `migrations/` | the bookkeeping table and the schema | `Connect`, `RunMigrations` at every start of every replica |
| Process | `main.go`, `pkg/httpx/middleware.go`, `json.go` | running / draining, requests in flight | start, serve, recover from panics, drain, exit |
| Wire shapes | `internal/accounts/api.go`, `pkg/obie/response.go`, `errors.go`, `pkg/httpx/json.go`, `errors.go` | none (pure) | from rows to resources, envelopes, status codes |
| Test support | `pkg/testutil` | - | a Postgres container for the integration tests |

### How they interact

A request runs in a goroutine of its own: the middlewares, then a handler, then
`Service`. A public read calls the consent service over HTTP (`consentcli.Get`),
decides on the view that comes back, and then calls the repository. The funds
confirmation asks for no consent and makes two repository calls. Requests share
the connection pool and nothing else; what they read is changed by others: the
consents by their owner, the estate by migrations of other replicas. All
replicas of all versions run `RunMigrations` against the same database when they
start. The funds service reaches this one through `accountscli`, which prints an
amount that the handler here parses again.

### What is hard, and what has to hold

* **The consent is somewhere else.** It may be revoked between the GET and the
  read; the GET may be lost, be late, or be sent twice by `net/http`. Whatever
  is disclosed must have been allowed at one instant of the request; a consent
  that ended before the request unlocks nothing; a silent consent service must
  not silence this one.
* **A consent is used once.** `Consume` is a POST; it or its answer may be lost,
  it may land after its caller has given up, and a caller may try again. One
  call at most may be told that it spent the consent.
* **The estate grows under the readers.** A call of two statements reads two
  snapshots, rows come one by one off a connection that may break, and a stored
  amount may not parse. What is returned must be the estate of one instant, and
  "no such account" must be true.
* **A bounded pool.** Calls of two statements must not hold one connection while
  they wait for another, and no error path may lose one.
* **Money.** A number has many decimals; the limit on places is on the exponent.
  What one side prints the other must accept, comparisons must be exact across
  exponents, and refuse to cross currencies. A balance is kept as an unsigned
  amount and an indicator; one path turns the two into a sign and another
  writes them to the wire, and both must tell of the same money.
* **Migrations race.** Two replicas may find the same file missing; replicas of
  two versions disagree about what is missing; one may die with its `COMMIT` on
  the way. Each file must take effect once and in order.
* **The end of the process.** Signals at any time, a listener that fails, a
  drain with a deadline, panics.

`PROJECT.json` lists each hazard at its line with the properties that cover it.

## 2. Modules

```
Consents ──┬─► ConsentGate                       what a public read promises
           ├─► ConsumeCall ──► MCConsume, ConsumeProofs
           │      └ implements SingleUse          what Consume promises
           │
Estate ────┼─► Repository ─┐                      the port, as a specification
           └───────────────┴► AccountsService ──► MCAccounts
                                 └► AccountsServiceProofs        it implements the gate
Estate ────► PgRepository ──► MCPgRepository
       │         └► Backends ──► MCBackends       the memory repository beside it
       │               └► BackendsProofs          PgRepository implements Repository,
       │                                          the memory repository agrees with it
       └───► EstateProofs                         lemmas for both proof stacks
Amount ────► FundsCall ──► MCFundsCall, FundsCallProofs
Inductions ─► EstateProofs, FundsCallProofs       induction about sets and functions
Migrations ─► MCMigrations, MigrationsProofs
Server ────► MCServer, ServerProofs
```

**`AccountsService`** composes the handlers with the consents and with the port:
it EXTENDS `Consents` and `Repository`, and their actions are steps of its own.
A request is a member of `Callers`, a goroutine that serves one request and is
a caller of the port. There is one action per step that something else can come
between: `Arrive`, `HeaderMissing`, `CallConsent`, `ConsentAnswers`, `Resend`,
`ConsentGetFails`, `Authorise`, `ReadReturns`; for the funds confirmation
`Validate`, `FindReturns`, `CompareFunds`. A repository call is two steps at
least: `Ask`, made by the handler's step, and the port's `Look` or `GiveUp`
(`RepositoryStep`), after which the handler returns. That the port's calls may
be seen so is what `PgRepository` and `Backends` establish. The six public
endpoints differ only in the permissions they want (`WantPerms`) and the call
they make (`OpOf`), so one request is parameterised by its endpoint. A body is
the sequence of its resources, each with the row it is of, its account,
indicator and amount (`accountToDTO`, `balanceToDTO`, `transactionToDTO`).
`ConsentMoves` and `GrowEstate` are the environment. A panic, a caller that
leaves and a database error all end in `GiveUp` or `ConsentGetFails`.

**`ConsentGate`** is the promise: something of the estate (200 or 404) is told
only after an atomic `Grant`, at which the consent itself, not a view of it,
authorises the wanted permissions. `AccountsService` implements it under
`gateOf`: a request is "granted" from the moment the consent service handles the
GET.

**`ConsumeCall`** is `consentcli.Consume` with several callers, the consent
service and the wire. Nothing sends a POST again, but a request whose caller has
given up may still land (`strays`), and the caller may call again. **`SingleUse`**
is what that leaves of the promise: one call spends the consent and is told so;
a call that ended in an error tells nothing, and may have spent it (`Refuse`
after `Spend`) or may yet do so (`Waste`).

**`Estate`** has the tables, calls and statements as operators; **`Repository`**
is the port of `repository.go` as a specification: a call is answered with what
the estate is at one instant (`Look`), or fails. **`PgRepository`** takes each
call apart: wait for a connection, `assertAccountExists`, give it back, wait
again, the call's own statement (a snapshot), its rows one by one. **`Backends`**
puts `MemRepository`, a function of its arguments since nothing is written after
construction, beside it.

**`Amount`** is the decimal as `shopspring/decimal` holds it, coefficient and
exponent, since `Validate` and the printing depend on which of a number's many
decimals is held. **`FundsCall`** runs one through the client's print, the query,
the handler's parse, the stored text's parse, the comparison, and the client's
reading of the status; an account without a row has the zero `Amount`, in no
currency.

**`Migrations`** runs `RunMigrations` statement by statement in several replicas
of several versions. Postgres is external: an `INSERT` of a key waits for an
uncommitted one and fails on a committed one; a transaction whose client died
stays (`orphans`) until the server ends it, and may still commit if its `COMMIT`
was on the way. Two first starts may both find no bookkeeping table and both
create it; the loser of that race fails and is started again.

**`Server`** is `main.go` and the middleware chain: main, the listening
goroutine and the requests, any of which may end the process for all.
`ListenAndServe` is taken apart where a shutdown can come between: it looks for
one, binds, accepts, and returns; what it returned is logged before `os.Exit`. So
main may begin to drain, or finish, beside a goroutine that is about to exit
with 1. A connection that was accepted before the drain may bring its request
during it. What Logger's recorder holds and what is on the wire are two
variables: `net/http` sends the first header, the recorder keeps the last, and
`Recoverer` writes one after a panic that came before the handler's header or
after it.

An operator introduced by a comment `Faulty:` is no part of the model. It is the
definition that follows with a plausible bug, and stands there so that each
property can be shown to notice it.

## 3. Runs

| Run | Question | Instance | Distinct states |
|---|---|---|---|
| `service_one` | is every answer true, row by row, and disclosed only through the gate, and is there one though the consent service may be silent? | 1 request, every endpoint, 1 consent of any of 4 kinds, accounts in credit, overdrawn and unreadable (two with one identification), 5 rows of money | 239 500 |
| `service_pair` | do concurrent requests keep to their own views, respect revocations, and tell of the same money? | 2 requests, 2 accounts with a balance each, 6 calls that can be set against each other | 746 000 |
| `pg_reads` | is every repository answer one instant's estate? | 2 callers, 1 connection, all 8 calls, 2 accounts with one identification, an unreadable row, migrations at any time, 15 initial estates | 95 000 |
| `pg_pool` | is a connection ever lost, does every call return? | 3 callers, 2 connections, a two-statement call and a bulk read, a row that may be unreadable | 11 000 |
| `backends` | do the two repositories answer alike on the seed? | the seed's 2 accounts, 2 balances, 3 transactions; an unknown account and identification | 550 |
| `funds_call` | do client, handler and row agree about money? | 12 texts around the limits, their differences, 2 currencies, 12 stored rows and none | 24 600 |
| `migrations` | once, in order, complete before serving; do all replicas come up? | 3 replicas, 2 versions, 2 files, 2 faults anywhere | 136 000 |
| `consume` | is a consent used once, whatever is lost, late or tried again; is an error ever called "unknown"; does every call return? | 3 callers that call again and again, 1 consent of 2 kinds | 95 800 |
| `server` | what is cut, logged, and does the process end? | 2 requests, 1 caller's id | 85 500 |
| `funds_nonnegative`, `server_pool`, `authorise_codes` | violations, section 6 | as above | - |

*Why these bounds are enough.* Requests meet only in the consents and the
estate: no action of one reads what another has written. One request sees every
order of its steps with the environment's, and a property about two answers
needs two. In `consume` two callers race for the consent and the third is the
new try of one that is over, its old request still on the way. In
`pg_reads` the second caller is there to take the only connection between the
two statements of the first; in `pg_pool` there is one caller more than
connections, the smallest case in which callers that keep one can block each
other. For migrations, two files are needed for order, two replicas for a race,
a third of another version for a gap. Two faults let a replica die with its
commit on the way and another fail while the orphan lives. The texts of
`funds_call` straddle each boundary: five and six places, equal numbers with
different exponents, one step above and below, zero and below.

*Deadlock* is checked except where everything really may stop: `migrations`
(everyone serves, no fault is left) and `server` (the process has ended).

*Symmetry* is used in `pg_reads` alone (the callers), which checks safety only.

### Fairness

* `AccountsService`: a handler's own steps are taken (`HandlerStep`); the 5 s
  client timer fires (`ConsentGetFails`); the repository returns
  (`RepositoryStep`), which is `CallReturns` of `PgRepository`. Nothing is
  assumed of the consent service.
* `ConsumeCall`: the client's timer, nothing else.
* `PgRepository`: the database answers a statement or fails it (the code has no
  statement timeout, so this is an assumption about Postgres); the pool's waiters
  are served in turn (strong fairness of `Acquire`; pgxpool's semaphore is first-in first-out).
  Callers are not assumed to give up.
* `FundsCall`: the client's timer, nothing else.
* `Migrations`: a replica that exits is started again, statements end, and the
  server ends the transactions of dead clients; faults are finitely many.
* `Server`: main runs, the drain's timer fires, and the accept loop sees that its
  listener was closed (`Shutdown` waits for it without the deadline). Handlers
  may hang, a bind may take forever.

## 4. What the runs check

* `GateSpec` - the service implements `ConsentGate`. `RevocationHolds`,
  `ViewFresh` - what is left of it for the arrival: a consent that had ended
  unlocks nothing, and no view is older than its request.
* `ListComplete`, `NotFoundHonest` - a read lists, once and in order, everything
  it is about that was there when the request came, and nothing that is not
  there; 404 is the truth about the estate it found.
* `FundsAnswerExact`, `FundsConsistent` - yes exactly when a row covers the
  amount; two answers never contradict each other.
* `BalancesAgreeWithFunds` - the balance on the wire, read with its indicator,
  covers exactly the amounts that are confirmed: two requests, two code paths
  from one row.
* `Answered` - every request is answered.
* `AcceptedOnce`, `NotFoundTrue`, `ImplementsSingleUse`, `ConsumeReturns` - one
  call at most about a consent returns nil, and only the one whose POST consumed
  it; `ErrNotFound` is never said of a consent that existed; a consent is used
  up for nobody only after a call about it has returned an error.
* `ImplementsPort`, `NoLeak`, `CallReturns`, `BackendsAgree` - section 2.
* `OutcomeExact`, `ClientUnderstood`, `NotFoundIsNotNo`, `CallReturns` - the
  client's yes or no is true of the amount it was called with; the handler never
  rejects what the client prints of a legal amount; an unknown account is never
  a lack of funds.
* `ExactlyOnce`, `NoGap`, `ServesComplete`, `AllServe`.
* `CutOnlyWhen`, `ReadyFirst`, `SignalEnds` - a request that was read is cut only
  for the reasons listed.
* `DrainEndsWell` - from any moment of a drain at which nothing is being bound and
  `ListenAndServe` has not failed, the process can only end with status 0:
  `ErrServerClosed` is told apart. The exception is in the code: a bind that
  fails during the drain, or an error returned just before it, reaches
  `os.Exit(1)`, and what main was draining is cut.
* `LogTruthful` - an answered request has its line, with the id its caller was
  told and, unless the log tells of a panic, the status. After a panic the line
  says 500, and that is all it says: if the header was out, the caller was sent
  another status.

Each has at least one mutant of the modelled code that TLC must find it to
refute.

## 5. Proofs

All are proved by TLAPS for every value of the constants that satisfies the
modules' named assumptions: `RowsAssumption` (the schema's primary and foreign
keys), `EntryAssumption`, `CallsAssumption`, `GrantsAssumption` (the shape of
entries, calls and consents), `PoolAssumption`, `FilesAssumption` (versions only
append files), `CallAssumption` (what the funds service may ask: numbers with at
most -`MinExp` places, which nothing it computes leaves, as `SubIsExact` shows;
what is stored is a numeral; the zero `Amount` has no currency code), `SeedAssumption` (`seedAccounts` lists accounts,
balances and transactions in the order of their tables, each under its own
account, and gives no two accounts one identification) and `IdsAssumption` (a
minted id is no caller's). TLC evaluates each on the instances of section 3.

The proofs stack as the modules do: every call `PgRepository` answers is one the
port allows; `AccountsService` is proved over the port, for any estate and any
number of requests; and it implements `ConsentGate`.

**`Inductions`.** Least and greatest elements, induction and definition by
recursion over the naturals, stated about a set or a function the proof defines,
where the library's theorems take an operator the provers cannot instantiate.
They rest on the well-foundedness of the naturals.

**`EstateProofs`.** What both stacks need of the tables: the selected rows only
grow with the estate, a listing has exactly the rows it is of, `InterimOf` finds
the one InterimAvailable row of an account. A set of rows has one listing
(`ListingUnique`), and the listings of two sets, one before the other, make the
listing of both (`ListingConcat`).

**`AccountsServiceProofs`.** The invariant is `TypeOK` and `RequestOK(r)` for each
request: where a request is in its handler says what its view, its repository
call and its answer can be. The properties speak of answers only; they are not
inductive because an answer's truth rests on what was read steps earlier, while
the consent and the estate moved on. `RequestOK` carries it: consents only move
forward (`Reaches` is transitive), and what the repository returned is what a
call makes of some estate of the past, between the request's arrival and now
(`ValueOK`). Such an estate is never lost, since the tables only grow. From it:
`TypeCorrect`, `ViewsAreFresh`, `RevocationBinds`, `ListsAreComplete`,
`NotFoundIsTrue`, `FundsAnswersAreExact`, `FundsAnswersAgree`, `BalancesAgree`.
The module ends with the refinement, `ServiceImplementsGate`: initial states map to initial
states and each step to a gate step or a stutter. `ConsentAnswers` is the step
that grants, `Resend` the one that retracts.

**`BackendsProofs`.** `NoLeak` is inductive only with the type of `free`, and
the other way round; both rest on the cardinality of the set of callers that
hold a connection. `CallerOK` adds that an account seen by `assertAccountExists`
is still there at the second statement (no row goes), and that what was scanned
was readable. `RepositoryImplementsPort`: the last statement of a call is the
instant of its read.

The second half is about the memory repository, for any seed that satisfies
`SeedAssumption`. `BackendsAgreeOnSeed` says that every answer of `PgRepository`
on the seeded tables is the one `MemRepository` gives. Its invariant `SeedIInv`
carries that the tables contain the seed, and that while they are the seed every
row in hand was selected from it and every answer is `MemRead`'s; once they have
grown they are never the seed again. The loop of `memrepo.go` over the accounts,
which joins their rows, gives the listing `SELECT ... ORDER BY` gives
(`OfAllIsListing`, an induction over the accounts), and a set of rows has only
one. `MemoryAnswersAsPort` puts `MemRepository` under the port: what it returns
is a result the port makes of the seed, or `NotFound` where the port does.

**`ConsumeProofs`.** `AcceptedOnce` counts returns and is not inductive: a call
that holds a 200 has not returned yet. `OneSpender` says that one call at
most holds the 200 of a consent, that the consent is then consumed, and that no
call about it has returned nil yet; `CallOK` says what a code on the wire tells of the consent.
From them `AcceptedAtMostOnce`, `NotFoundIsTrue`, `ConsumeImplementsSingleUse`,
`TypeCorrect`.

**`MigrationsProofs`.** `ExactlyOnce` needs `Locks`: at most one transaction, with
a live replica or an orphan, has an uncommitted record of a file, and none once
it is recorded. `NoGap` needs `Progress`: what a replica has put behind it is
recorded; with files only appended, the first file it misses has all earlier
ones recorded. From them `MigratesExactlyOnce`, `MigratesInOrder`,
`ServesOnCompleteSchema`, `MigrationsTypeCorrect`.

**`ServerProofs`.** `StartOrder` (main's place tells what has been started),
`CutLast` (nothing is cut while the process lives) and `RequestOK` make
`CutOnlyWhen`, `LogTruthful` and `ReadyFirst` inductive, for any number of
requests. `RequestOK` follows the recorder and the wire apart: no header is
on the wire before the handler answers, they are equal after it, and may part when a panic is
recovered, from where the recorder holds 500. `DrainEndsWell` has a part of its
own: draining with a listener neither binding nor failed, or ended with 0, is
left by no step. From them `CutForAReason`, `LogIsTruthful`, `DrainExitsClean`,
`ServedWhenReady`, `ServerTypeCorrect`.

**`FundsCallProofs`.** First the arithmetic, for numbers of any size. `Ten` is
defined by recursion, and `Ten[m + n] = Ten[m] * Ten[n]` is an induction; from it
a decimal rescaled to a smaller exponent is the same number, so that `Gte` at a
common exponent compares the numbers (`GteIsExact`), `Sub` subtracts them
(`SubIsExact`), and what `String` prints parses to the number printed
(`RenderedIsExact`, whose division by a power of ten is exact). Then the call.
`OutcomeExact` speaks of what the client concluded and is not inductive: the
answer on the wire must already be true of what was asked (`Truthful`), and what
was asked must be a number all of this applies to (`Placed`). From `IInv`:
`OutcomeIsExact`, `NotFoundApart`, `CallTypeCorrect`. `ClientIsUnderstood`: the
printed amount has at most the places of the number, and a number that passed
`Validate` has at most five, so the handler accepts it.

**Only model-checked.** Liveness (`Answered`, `CallReturns`, `ConsumeReturns`,
`AllServe`, `SignalEnds`): the prover has no fairness. Every invariant and every
action property and refinement of the passing runs is proved.

## 6. Where the code and its documentation disagree

* `pkg/obie/amount.go:55` says `Validate` enforces "a non-negative amount"; it
  never looks at the sign (`funds_nonnegative`).
* `pkg/pg/pg.go:18` says the pool "should be closed on shutdown"; nothing closes
  it (`server_pool`).
* `internal/accounts/service.go:51` says the errors of `authorise` map to
  401/403; it also answers 500 when the consent service fails
  (`authorise_codes`).

## 7. Not modelled

* `View.ExpirationDateTime` is decoded and never read; that an expired consent
  stops being `Authorised` is left to the consent service, whose life cycle of a
  consent is inferred from the status names and is external.
* The DTO fields other than keys, owner, identification, indicator and amount,
  dates, links, meta, error details: pure mappings without control, and no
  property is about them.
* `DecodeJSON` and `drainAndClose` are called by no code but tests;
  `MustAmount` and `pkg/testutil` only by seeds and tests.
* `Get` and `Consume` put the consent id into the URL as it is; an id that is no
  path segment is outside the model.
* Identifications are not unique in the schema; `FindByIdentification` may then
  return any match, and is modelled so.
* No statement updates or deletes a row of the estate; an operator who does so
  by hand is outside the model.
* Redelivery inside TCP, DNS, TLS; the text of logs; environment variables.
* The repository's HTML documentation and CI files.

## 8. Plan

Done: the service over the repository port and its gate, the port and both
repositories, migrations, the funds call, `Consume`, the process; proofs for each,
down to the arithmetic of amounts and the agreement of the two repositories.

Left, in this order:

1. `Deployment`: `Migrations` and `GrowEstate` joined, so that the growth the
   readers see is what the migrations of other replicas commit.
2. The process and the service joined: a drain that cuts a request is today a
   `GiveUp` or a `ConsentGetFails` to `AccountsService`.
