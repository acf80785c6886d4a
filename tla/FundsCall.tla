----------------------------- MODULE FundsCall -----------------------------
(***************************************************************************)
(* The funds confirmation end to end: accountscli.Client.FundsAvailable of *)
(* the funds service, the query on the wire, the handler that parses it    *)
(* and compares, and the answer on its way back.  The exchange may be      *)
(* lost, delayed past the client's timer, or sent again by the transport.  *)
(*                                                                         *)
(* Three pieces of code have to agree about money: the client prints an    *)
(* amount, the handler parses the print, and the repository parses what    *)
(* the database stores.                                                    *)
(***************************************************************************)
EXTENDS Amount

CONSTANTS
    Asks,     \* the amounts the funds service may hold: built by NewAmount or Sub
    Stored,   \* the InterimAvailable rows: [indicator, amount], amount as stored text
    NoRow,    \* the account has none
    Idents,   \* the identifications asked for
    NoIdent,  \* the empty one
    Known     \* those an account has

VARIABLES
    row,      \* the row of the account asked about
    pc,       \* "idle", "sent", "served", "done": where the client's call stands
    ask,      \* [ident, amount] the client was called with
    request,  \* the query on the wire
    reply,    \* the handler's answer on the wire
    outcome   \* what FundsAvailable returned

callVars == <<row, pc, ask, request, reply, outcome>>

NoAmount == [value |-> [coef |-> 0, exp |-> 0], currency |-> ""]
NoReply == [code |-> 0, funds |-> FALSE]

\* NewAmount refuses what has more places than MinExp, and Sub adds none; the
\* zero Amount has a currency that currencyPattern does not match.
ASSUME CallAssumption ==
    /\ NoIdent \notin Known /\ Known \subseteq Idents
    /\ \A a \in Asks : a.value \in Decimal /\ a.value.exp >= MinExp
    /\ \A s \in Stored : s.amount.value \in Numeral
    /\ NoRow \notin Stored /\ NoAmount.currency \notin Currencies

\* The rows scanBalances parses; one it cannot parse is an error of the read.
Parsed(s) == NewAmount(s.amount.value, s.amount.currency)

\* A Debit row is a negative balance.
Signed(s, a) ==
    IF s.indicator = "Debit" THEN [a EXCEPT !.value = Neg(a.value)] ELSE a

\* Faulty: without a row an account has zero in every currency: enough for zero.
AvailableInAny(s) ==
    IF s = NoRow THEN {[NoAmount EXCEPT !.currency = c] : c \in Currencies}
    ELSE {Signed(s, a) : a \in Parsed(s)}

\* AvailableBalance, if the read has no error; the zero Amount without a row.
Available(s) == IF s = NoRow THEN {NoAmount} ELSE {Signed(s, a) : a \in Parsed(s)}

\* The comparison; one that fails, for the currencies differ, is a no.
Enough(b, a) == TRUE \in GreaterThanOrEqual(b, a)

\* fundsConfirmation and FundsAvailable: the answers to a query.
Answers(q) ==
    IF q.ident = NoIdent \/ FromWire(q.amount) = {} THEN {[code |-> 400, funds |-> FALSE]}
    ELSE {[code |-> 500, funds |-> FALSE]}
         \cup IF q.ident \notin Known THEN {[code |-> 404, funds |-> FALSE]}
              ELSE {[code |-> 200, funds |-> Enough(b, a)] :
                        a \in FromWire(q.amount), b \in Available(row)}

Init ==
    /\ row \in Stored \cup {NoRow}
    /\ pc = "idle"
    /\ ask = [ident |-> NoIdent, amount |-> NoAmount]
    /\ request = [ident |-> NoIdent, amount |-> Wire(NoAmount)]
    /\ reply = NoReply
    /\ outcome = "none"

Call(i, a) ==
    /\ pc \in {"idle", "done"}
    /\ pc' = "sent"
    /\ ask' = [ident |-> i, amount |-> a]
    /\ request' = [ident |-> i, amount |-> Wire(a)]
    /\ reply' = NoReply /\ outcome' = "none"
    /\ UNCHANGED row

\* The accounts service handles the request.
Serve ==
    /\ pc = "sent"
    /\ pc' = "served"
    /\ reply' \in Answers(request)
    /\ UNCHANGED <<row, ask, request, outcome>>

\* The answer is lost with its connection and the transport sends the GET again.
Resend ==
    /\ pc = "served"
    /\ pc' = "sent"
    /\ reply' = NoReply
    /\ UNCHANGED <<row, ask, request, outcome>>

\* Faulty: any answer but yes is a no.
ReadingCollapsed(r) == IF r.code = 200 /\ r.funds THEN "yes" ELSE "no"

\* The switch over the status code.
Reading(r) ==
    CASE r.code = 200 -> IF r.funds THEN "yes" ELSE "no"
      [] r.code = 404 -> "ErrAccountNotFound"
      [] OTHER        -> "error"

Receive ==
    /\ pc = "served"
    /\ pc' = "done"
    /\ outcome' = Reading(reply)
    /\ UNCHANGED <<row, ask, request, reply>>

\* Faulty: the timer does not cover the wait for the answer.
TimeOutServed == /\ pc = "served" /\ pc' = "done" /\ outcome' = "error"
                 /\ UNCHANGED <<row, ask, request, reply>>

\* The client's 5 s timer, a refused connection, an undecodable body.
TimeOut ==
    /\ pc \in {"sent", "served"}
    /\ pc' = "done"
    /\ outcome' = "error"
    /\ UNCHANGED <<row, ask, request, reply>>

Next ==
    \/ \E i \in Idents, a \in Asks : Call(i, a)
    \/ Serve \/ Resend \/ Receive \/ TimeOut

\* The timer fires; nothing is asked of the network or the accounts service.
Spec == Init /\ [][Next]_callVars /\ WF_callVars(TimeOut)

-----------------------------------------------------------------------------
(* Properties, in units of 10^MinExp, of which every amount is a whole     *)
(* number, as in module AccountsService.                                   *)

Whole(d) == d.coef * Ten[d.exp - MinExp]

\* Every variable keeps its type: what is sent is a numeral, with no exponent
\* and no negative count of decimals.
TypeOK ==
    /\ row \in Stored \cup {NoRow}
    /\ pc \in {"idle", "sent", "served", "done"}
    /\ ask.ident \in Idents \cup {NoIdent} /\ ask.amount \in Asks \cup {NoAmount}
    /\ request.amount.value \in Numeral
    /\ reply.code \in {0, 200, 400, 404, 500} /\ reply.funds \in BOOLEAN
    /\ outcome \in {"none", "yes", "no", "ErrAccountNotFound", "error"}

\* The row's worth, from its text.
Worth(s) ==
    (IF s.indicator = "Debit" THEN -1 ELSE 1) * Whole(NewFromString(s.amount.value))

\* A yes or a no at the client is the truth about the amount the client was
\* called with, although it went through a print, a parse, a comparison of
\* decimals of different exponents, and any number of resends.
OutcomeExact ==
    (pc = "done" /\ outcome \in {"yes", "no"}) =>
        (outcome = "yes" <=>
            /\ ask.ident \in Known
            /\ row # NoRow
            /\ row.amount.currency = ask.amount.currency
            /\ Worth(row) >= Whole(ask.amount.value))

\* The handler never rejects as malformed what the client sends for a legal
\* amount and a non-empty identification: Rendered keeps within what Validate allows.
ClientUnderstood ==
    (reply.code = 400) => (ask.ident = NoIdent \/ ~Validate(ask.amount))

\* "No such account" reaches the client only for an identification that no
\* account has, and an unknown one is never taken for a lack of funds.
NotFoundIsNotNo ==
    /\ outcome = "ErrAccountNotFound" => ask.ident \notin Known
    /\ outcome \in {"yes", "no"} => ask.ident \in Known

\* Every call returns, even if no answer ever comes.
CallReturns == pc = "sent" ~> pc = "done"

\* What amount.go says of Validate: it enforces "a non-negative amount".
ValidatedNonNegative ==
    \A a \in FromWire(request.amount) : a.value.coef >= 0

=============================================================================
