----------------------------- MODULE MCConsume ------------------------------
(***************************************************************************)
(* Three calls at a time about one consent, of either kind: two race, and  *)
(* the third, a new try of a call that is over, has its own stray request. *)
(* Calls about different consents share nothing.                           *)
(***************************************************************************)
EXTENDS ConsumeCall

CONSTANTS c1, r1, r2, r3

MCConsentIds == {c1}
MCCallers == {r1, r2, r3}

MCGrants == {[type |-> TypeDomesticPayment, perms |-> {}],
             [type |-> TypeAccountAccess, perms |-> {}]}

=============================================================================
