---------------------------- MODULE ConsentGate -----------------------------
(***************************************************************************)
(* What the accounts service promises of a public read: it says something  *)
(* about the estate (the data, or that an account does not exist) only     *)
(* after one instant, between the arrival of the request and its answer,   *)
(* at which the consent it names was an authorised account-access consent  *)
(* with one of the wanted permissions.  The check and the consent meet in  *)
(* one atomic step, Grant; the program spreads it over an HTTP exchange.   *)
(*                                                                         *)
(* gate[r] is "idle" (nothing asked of the gate), "asked", "granted",      *)
(* "disclosed" (the answer tells the estate) or "refused" (it does not).   *)
(***************************************************************************)
EXTENDS Consents

CONSTANTS Requests, NoConsent

VARIABLES gate, want

gateVars == <<consent, gate, want>>

Wants == [cid : ConsentIds \cup {NoConsent}, perms : SUBSET Permissions]

GateInit ==
    /\ ConsentInit
    /\ gate = [r \in Requests |-> "idle"]
    /\ want \in [Requests -> Wants]

Step(r, from, to) ==
    /\ gate[r] \in from
    /\ gate' = [gate EXCEPT ![r] = to]

Over == {"idle", "disclosed", "refused"}

\* A request arrives, for the gate ("asked") or for a call it does not guard.
Ask(r) ==
    /\ Step(r, Over, "asked") \/ Step(r, Over, "idle")
    /\ want' \in [Requests -> Wants]
    /\ \A q \in Requests \ {r} : want'[q] = want[q]
    /\ UNCHANGED consent

Grant(r) ==
    /\ want[r].cid \in ConsentIds
    /\ Authorises(consent[want[r].cid], want[r].perms)
    /\ Step(r, {"asked"}, "granted")
    /\ UNCHANGED <<consent, want>>

\* The answer of the consent service is lost and the question asked again.
Retract(r) ==
    /\ Step(r, {"granted"}, "asked")
    /\ UNCHANGED <<consent, want>>

Disclose(r) ==
    /\ Step(r, {"granted"}, "disclosed")
    /\ UNCHANGED <<consent, want>>

Refuse(r) ==
    /\ Step(r, {"asked", "granted"}, "refused")
    /\ UNCHANGED <<consent, want>>

ConsentStep ==
    /\ \E c \in ConsentIds : MoveConsent(c)
    /\ UNCHANGED <<gate, want>>

GateNext ==
    \/ \E r \in Requests :
          Ask(r) \/ Grant(r) \/ Retract(r) \/ Disclose(r) \/ Refuse(r)
    \/ ConsentStep

GateSpec == GateInit /\ [][GateNext]_gateVars

=============================================================================
