---------------------------- MODULE ConsumeCall -----------------------------
(***************************************************************************)
(* consentcli.Client.Consume, which the payments service calls "once it    *)
(* accepts a payment".  It is a POST: the transport does not send it       *)
(* again, but a request or an answer may be lost, the client's 5 s timer   *)
(* may fire while the request is on its way or being handled, and the      *)
(* request of a caller that has given up may land later.  Several calls    *)
(* may be about one consent, of different callers or of one that tries     *)
(* again.                                                                  *)
(*                                                                         *)
(* The consent service is external: it consumes an authorised payment      *)
(* consent and answers 200, answers 404 for an unknown one and another     *)
(* status otherwise (the comment of Consume).                              *)
(***************************************************************************)
EXTENDS Consents, Naturals

CONSTANT Callers \* goroutines of the payments service

VARIABLES
    pc,       \* "idle", "sent", "answered" (the answer is on its way), "done"
    cid,      \* the consent of the caller's last call
    code,     \* the status on the wire
    outcome,  \* what Consume returned: "nil", "ErrNotFound", "error"
    strays,   \* consents with a request on its way whose caller has given up
    accepted, \* history: how many calls about a consent returned nil
    failed,   \* history: the consents a call returned an error about
    known     \* history: whether the consent existed when the call was made

callerVars == <<pc, cid, code, outcome>>
history == <<accepted, failed, known>>
vars == <<consent, callerVars, strays, history>>

Init ==
    /\ ConsentInit
    /\ pc = [r \in Callers |-> "idle"]
    /\ cid \in [Callers -> ConsentIds]
    /\ code = [r \in Callers |-> 0]
    /\ outcome = [r \in Callers |-> "none"]
    /\ strays = {}
    /\ accepted = [c \in ConsentIds |-> 0]
    /\ failed = {}
    /\ known = [r \in Callers |-> FALSE]

-----------------------------------------------------------------------------
(* The client.                                                             *)

Call(r, c) ==
    /\ pc[r] \in {"idle", "done"}
    /\ pc' = [pc EXCEPT ![r] = "sent"]
    /\ cid' = [cid EXCEPT ![r] = c]
    /\ code' = [code EXCEPT ![r] = 0]
    /\ outcome' = [outcome EXCEPT ![r] = "none"]
    /\ known' = [known EXCEPT ![r] = consent[c].status # Unknown]
    /\ UNCHANGED <<consent, strays, accepted, failed>>

\* What a call that returns leaves behind.
Returned(r, o) ==
    /\ pc' = [pc EXCEPT ![r] = "done"]
    /\ outcome' = [outcome EXCEPT ![r] = o]
    /\ accepted' = IF o = "nil" THEN [accepted EXCEPT ![cid[r]] = @ + 1] ELSE accepted
    /\ failed' = IF o = "nil" THEN failed ELSE failed \cup {cid[r]}
    /\ UNCHANGED <<consent, cid, code, known>>

\* Faulty: "already consumed" is taken for success.
ReadingIdempotent(s) ==
    CASE s \in {200, 409} -> "nil"
      [] s = 404          -> "ErrNotFound"
      [] OTHER            -> "error"

\* Faulty: whatever the service refuses is called unknown.
ReadingRefused(s) ==
    CASE s = 200          -> "nil"
      [] s \in {404, 409} -> "ErrNotFound"
      [] OTHER            -> "error"

\* Faulty: other statuses are no outcome of their own.
ReadingPartial(s) ==
    CASE s = 200 -> "nil"
      [] s = 404 -> "ErrNotFound"
      [] OTHER   -> "status"

\* The switch over the status code.
Reading(s) ==
    CASE s = 200 -> "nil"
      [] s = 404 -> "ErrNotFound"
      [] OTHER   -> "error"

Receive(r) ==
    /\ pc[r] = "answered"
    /\ Returned(r, Reading(code[r]))
    /\ UNCHANGED strays

\* Faulty: the timer runs only while an answer is read; and a lost answer is
\* made good by sending the POST again.
GiveUpAnswered(r) ==
    /\ pc[r] = "answered"
    /\ Returned(r, "error")
    /\ UNCHANGED strays
GiveUpRetried(r) ==
    \/ /\ pc[r] = "answered"
       /\ pc' = [pc EXCEPT ![r] = "sent"]
       /\ UNCHANGED <<consent, cid, code, outcome, strays, history>>
    \/ /\ pc[r] = "sent"
       /\ Returned(r, "error")
       /\ UNCHANGED strays

\* The timer fires, the context is cancelled or the connection breaks; the
\* request is lost, or still on its way.
GiveUp(r) ==
    /\ pc[r] \in {"sent", "answered"}
    /\ Returned(r, "error")
    /\ \/ UNCHANGED strays
       \/ pc[r] = "sent" /\ strays' = strays \cup {cid[r]}

-----------------------------------------------------------------------------
(* The consent service, external.                                          *)

Consumable(view) ==
    view.type = TypeDomesticPayment /\ view.status = StatusAuthorised

Consumed(c) == consent' = [consent EXCEPT ![c].status = StatusConsumed]

\* Its answer to a POST, handled now; a failure of its own consumes nothing.
Handle(r) ==
    LET view == consent[cid[r]] IN
    /\ pc[r] = "sent"
    /\ pc' = [pc EXCEPT ![r] = "answered"]
    /\ \/ /\ Consumable(view)
          /\ Consumed(cid[r])
          /\ code' = [code EXCEPT ![r] = 200]
       \/ /\ \/ ~Consumable(view) /\ view.status # Unknown
                /\ code' = [code EXCEPT ![r] = 409]
             \/ view.status = Unknown /\ code' = [code EXCEPT ![r] = 404]
             \/ code' = [code EXCEPT ![r] = 500]
          /\ UNCHANGED consent
    /\ UNCHANGED <<cid, outcome, strays, history>>

\* A request whose caller is gone lands, with or without effect.
StrayLands(c) ==
    /\ c \in strays
    /\ strays' = strays \ {c}
    /\ \/ Consumable(consent[c]) /\ Consumed(c)
       \/ UNCHANGED consent
    /\ UNCHANGED <<callerVars, history>>

\* The owner of the consent authorises, rejects or revokes it; nothing but a
\* POST consumes it.
OwnerMoves ==
    /\ \E c \in ConsentIds : MoveConsent(c) /\ consent'[c].status # StatusConsumed
    /\ UNCHANGED <<callerVars, strays, history>>

-----------------------------------------------------------------------------
Next ==
    \/ \E r \in Callers :
          (\E c \in ConsentIds : Call(r, c)) \/ Receive(r) \/ GiveUp(r) \/ Handle(r)
    \/ \E c \in ConsentIds : StrayLands(c)
    \/ OwnerMoves

\* The timer of http.Client fires; neither network nor service owes an answer.
Spec == Init /\ [][Next]_vars /\ \A r \in Callers : WF_vars(GiveUp(r))

-----------------------------------------------------------------------------
(* Properties.                                                             *)

\* Every variable keeps its type.
TypeOK ==
    /\ consent \in [ConsentIds -> View]
    /\ pc \in [Callers -> {"idle", "sent", "answered", "done"}]
    /\ cid \in [Callers -> ConsentIds]
    /\ code \in [Callers -> {0, 200, 404, 409, 500}]
    /\ outcome \in [Callers -> {"none", "nil", "ErrNotFound", "error"}]
    /\ strays \in SUBSET ConsentIds
    /\ accepted \in [ConsentIds -> Nat]
    /\ failed \in SUBSET ConsentIds
    /\ known \in [Callers -> BOOLEAN]

\* "Single-use payment consents": whatever is lost, late or tried again, one
\* call at most about a consent returns nil, and then the consent is consumed.
AcceptedOnce ==
    \A c \in ConsentIds :
        /\ accepted[c] <= 1
        /\ accepted[c] = 1 => consent[c].status = StatusConsumed

\* ErrNotFound is said only of a consent that did not exist when the call was
\* made, never of one that was refused or consumed.
NotFoundTrue ==
    \A r \in Callers : outcome[r] = "ErrNotFound" => ~known[r]

\* Every call returns, even if no answer ever comes.
ConsumeReturns == \A r \in Callers : pc[r] = "sent" ~> pc[r] = "done"

\* A call whose POST consumed its consent holds, or has returned, the 200.
stateOf ==
    [r \in Callers |->
        CASE pc[r] = "idle" -> "idle"
          [] pc[r] = "done" -> IF outcome[r] = "nil" THEN "yes" ELSE "no"
          [] pc[r] = "answered" /\ code[r] = 200 -> "spender"
          [] OTHER -> "asked"]

spentNow == {c \in ConsentIds : consent[c].status = StatusConsumed}

\* Consume implements SingleUse: only the call that consumed the consent may
\* return nil, and a consent is consumed for nobody only if some call about it
\* returned an error.
Use == INSTANCE SingleUse
       WITH spent <- spentNow, doubt <- failed, state <- stateOf, about <- cid

ImplementsSingleUse == Use!UseSpec

=============================================================================
