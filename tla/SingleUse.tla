----------------------------- MODULE SingleUse ------------------------------
(***************************************************************************)
(* What consentcli.Consume promises the payments service: "single-use      *)
(* payment consents".  Of all the calls ever made about a consent, one at  *)
(* most spends it and is told so.  A call that ended in an error promises  *)
(* nothing: it may have spent the consent (Refuse after Spend), and may    *)
(* yet spend it after it has returned (Waste).                             *)
(***************************************************************************)
CONSTANTS Callers, ConsentIds

VARIABLES
    spent, \* the consents that can be used no more
    doubt, \* those a call was made about that ended in an error
    state, \* "idle", "asked", "spender" (its call spent it), "yes", "no"
    about  \* the consent of a caller's last call

useVars == <<spent, doubt, state, about>>

UseInit ==
    /\ spent = {} /\ doubt = {}
    /\ state = [r \in Callers |-> "idle"]
    /\ about \in [Callers -> ConsentIds]

Ask(r, c) ==
    /\ state[r] \in {"idle", "yes", "no"}
    /\ state' = [state EXCEPT ![r] = "asked"]
    /\ about' = [about EXCEPT ![r] = c]
    /\ UNCHANGED <<spent, doubt>>

Spend(r) ==
    /\ state[r] = "asked" /\ about[r] \notin spent
    /\ state' = [state EXCEPT ![r] = "spender"]
    /\ spent' = spent \cup {about[r]}
    /\ UNCHANGED <<doubt, about>>

Confirm(r) ==
    /\ state[r] = "spender"
    /\ state' = [state EXCEPT ![r] = "yes"]
    /\ UNCHANGED <<spent, doubt, about>>

Refuse(r) ==
    /\ state[r] \in {"asked", "spender"}
    /\ state' = [state EXCEPT ![r] = "no"]
    /\ doubt' = doubt \cup {about[r]}
    /\ UNCHANGED <<spent, about>>

Waste(c) ==
    /\ c \in doubt \ spent
    /\ spent' = spent \cup {c}
    /\ UNCHANGED <<doubt, state, about>>

UseNext ==
    \/ \E r \in Callers : (\E c \in ConsentIds : Ask(r, c)) \/ Spend(r)
                             \/ Confirm(r) \/ Refuse(r)
    \/ \E c \in ConsentIds : Waste(c)

UseSpec == UseInit /\ [][UseNext]_useVars

=============================================================================
