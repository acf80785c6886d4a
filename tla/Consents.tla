------------------------------ MODULE Consents ------------------------------
(***************************************************************************)
(* The consents a functional service validates its callers against.  The   *)
(* consent service that owns them is another program: its side (variable   *)
(* consent, Unknown and MoveConsent) is inferred from the status names and *)
(* the remarks of pkg/consentcli, and is external.  What a caller reads of *)
(* a consent is the View of pkg/consentcli/client.go.                      *)
(*                                                                         *)
(* View.ExpirationDateTime, DebtorAccountId, InstructedAmount and          *)
(* CreditorName are left out: the accounts service decodes them and reads  *)
(* none of them.                                                           *)
(***************************************************************************)
CONSTANTS
    ConsentIds,  \* the ids the consent service may issue
    Grants       \* the (type, permissions) pairs consents are created with

VARIABLE consent \* consent[c]: what GET /internal/consents/c would answer now

TypeAccountAccess     == "account-access"
TypeDomesticPayment   == "domestic-payment"
TypeFundsConfirmation == "funds-confirmation"

ConsentTypes ==
    {TypeAccountAccess, TypeDomesticPayment, TypeFundsConfirmation}

StatusAwaitingAuthorisation == "AwaitingAuthorisation"
StatusAuthorised            == "Authorised"
StatusRejected              == "Rejected"
StatusRevoked               == "Revoked"
StatusConsumed              == "Consumed"

\* No consent has this id yet: the GET answers 404 and the client returns
\* ErrNotFound.
Unknown == "unknown"

\* A consent in one of these will never be authorised again.
Ended == {StatusRejected, StatusRevoked, StatusConsumed}

Statuses == {Unknown, StatusAwaitingAuthorisation, StatusAuthorised} \cup Ended

TransactionPerms ==
    {"ReadTransactionsBasic", "ReadTransactionsCredits",
     "ReadTransactionsDebits", "ReadTransactionsDetail"}

AccountPerms == {"ReadAccountsBasic", "ReadAccountsDetail"}

BalancePerms == {"ReadBalances"}

Permissions == AccountPerms \cup BalancePerms \cup TransactionPerms

View == [type : ConsentTypes, perms : SUBSET Permissions, status : Statuses]

ASSUME GrantsAssumption ==
    Grants \subseteq [type : ConsentTypes, perms : SUBSET Permissions]

HasPermission(view, p) == p \in view.perms

\* The consent authorises a read that any permission of P unlocks; an empty P
\* asks for an account-access consent only.
Authorises(view, P) ==
    /\ view.type = TypeAccountAccess
    /\ view.status = StatusAuthorised
    /\ P = {} \/ \E p \in P : HasPermission(view, p)

-----------------------------------------------------------------------------
(* The life of a consent, external.                                        *)

ConsentInit ==
    \E g \in [ConsentIds -> Grants] :
        consent = [c \in ConsentIds |->
                      [type |-> g[c].type, perms |-> g[c].perms, status |-> Unknown]]

MayBecome(view) ==
    {s \in Statuses :
        \/ view.status = Unknown /\ s = StatusAwaitingAuthorisation
        \/ /\ view.status = StatusAwaitingAuthorisation
           /\ s \in {StatusAuthorised, StatusRejected, StatusRevoked}
        \/ view.status = StatusAuthorised /\ s = StatusRevoked
        \* only a payment consent is ever consumed
        \/ /\ view.status = StatusAuthorised /\ s = StatusConsumed
           /\ view.type = TypeDomesticPayment}

MoveConsent(c) ==
    \E s \in MayBecome(consent[c]) :
        consent' = [consent EXCEPT ![c].status = s]

-----------------------------------------------------------------------------
(* A consent with status s may have, now or later, status t.               *)
Reaches(s, t) ==
    \/ s = t
    \/ s = Unknown
    \/ s = StatusAwaitingAuthorisation /\ t # Unknown
    \/ s = StatusAuthorised /\ t \in {StatusRevoked, StatusConsumed}

=============================================================================
