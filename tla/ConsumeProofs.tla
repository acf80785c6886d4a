--------------------------- MODULE ConsumeProofs ----------------------------
(***************************************************************************)
(* Consume returns nil once per consent, says ErrNotFound only of unknown  *)
(* consents, and implements SingleUse.  The properties speak of calls that *)
(* have returned.  What makes them inductive is the answer on its way: a   *)
(* 200 belongs to one call only, and a 404 to one whose consent did not    *)
(* exist when it was made.                                                 *)
(***************************************************************************)
EXTENDS ConsumeCall, TLAPS

\* r's POST consumed its consent and r has not returned.
Spender(r) == pc[r] = "answered" /\ code[r] = 200

OneSpender ==
    /\ \A r, q \in Callers : (Spender(r) /\ Spender(q) /\ cid[r] = cid[q]) => r = q
    /\ \A r \in Callers :
          Spender(r) => /\ accepted[cid[r]] = 0
                        /\ consent[cid[r]].status = StatusConsumed

CallOK(r) ==
    /\ pc[r] = "sent" /\ known[r] => consent[cid[r]].status # Unknown
    /\ pc[r] = "answered" /\ code[r] = 404 => ~known[r]
    /\ outcome[r] = "none" <=> pc[r] # "done"

IInv ==
    /\ TypeOK /\ AcceptedOnce /\ NotFoundTrue
    /\ OneSpender
    /\ \A r \in Callers : CallOK(r)
    /\ strays \subseteq failed

-----------------------------------------------------------------------------
(* The consent.                                                            *)

\* No move of the owner brings a consent to Unknown or out of Consumed.
LEMMA OwnerKeeps ==
    ASSUME TypeOK, OwnerMoves
    PROVE  /\ consent' \in [ConsentIds -> View]
           /\ \A c \in ConsentIds :
                 /\ consent[c].status # Unknown => consent'[c].status # Unknown
                 /\ consent'[c].status = StatusConsumed
                        <=> consent[c].status = StatusConsumed
<1>0. PICK c \in ConsentIds : MoveConsent(c) /\ consent'[c].status # StatusConsumed
  BY DEF OwnerMoves
<1>1. PICK s \in MayBecome(consent[c]) : consent' = [consent EXCEPT ![c].status = s]
  BY <1>0 DEF MoveConsent
<1>2. /\ s \in Statuses /\ s # Unknown
      /\ consent[c].status # StatusConsumed
  BY DEF MayBecome, Statuses, Ended, Unknown, StatusAwaitingAuthorisation,
         StatusAuthorised, StatusRejected, StatusRevoked, StatusConsumed
<1>3. consent[c] \in View /\ consent' = [consent EXCEPT ![c] = [consent[c] EXCEPT !.status = s]]
  BY <1>1 DEF TypeOK
<1>4. [consent[c] EXCEPT !.status = s] \in View /\ [consent[c] EXCEPT !.status = s].status = s
  BY <1>2, <1>3 DEF View
<1> QED
  BY <1>0, <1>1, <1>2, <1>3, <1>4 DEF TypeOK

\* Consuming a consent changes that consent alone, and only its status.
LEMMA ConsumedIs ==
    ASSUME TypeOK, NEW c \in ConsentIds, Consumed(c)
    PROVE  /\ consent' \in [ConsentIds -> View]
           /\ consent'[c].status = StatusConsumed
           /\ \A d \in ConsentIds \ {c} : consent'[d] = consent[d]
<1>1. consent[c] \in View
      /\ consent' = [consent EXCEPT ![c] = [consent[c] EXCEPT !.status = StatusConsumed]]
  BY DEF TypeOK, Consumed
<1>2. [consent[c] EXCEPT !.status = StatusConsumed] \in View
  BY <1>1 DEF View, Statuses, Ended
<1>3. [consent[c] EXCEPT !.status = StatusConsumed].status = StatusConsumed
  BY <1>1 DEF View
<1> QED
  BY <1>1, <1>2, <1>3 DEF TypeOK

\* The names of the statuses are different.
LEMMA StatusesDiffer ==
    StatusConsumed # Unknown /\ StatusAuthorised # Unknown /\ StatusAuthorised # StatusConsumed
  BY DEF StatusConsumed, Unknown, StatusAuthorised

-----------------------------------------------------------------------------
(* Invariance.                                                             *)

\* Nothing is promised before the first call.
LEMMA InitIInv == Init => IInv
<1> SUFFICES ASSUME Init PROVE IInv
  OBVIOUS
<1>1. PICK g \in [ConsentIds -> Grants] :
          consent = [c \in ConsentIds |->
                       [type |-> g[c].type, perms |-> g[c].perms, status |-> Unknown]]
  BY DEF Init, ConsentInit
<1>2. \A c \in ConsentIds : g[c].type \in ConsentTypes /\ g[c].perms \in SUBSET Permissions
  BY GrantsAssumption
<1>3. consent \in [ConsentIds -> View]
  BY <1>1, <1>2 DEF View, Statuses
<1>4. TypeOK
  BY <1>3 DEF Init, TypeOK
<1>5. AcceptedOnce /\ NotFoundTrue /\ OneSpender
  BY DEF Init, AcceptedOnce, NotFoundTrue, OneSpender, Spender
<1> QED
  BY <1>4, <1>5 DEF Init, IInv, CallOK

\* A call that returns keeps the invariant, if a nil is that of the spender and
\* an ErrNotFound that of a 404.
LEMMA ReturnedKeeps ==
    ASSUME IInv, NEW r \in Callers, NEW o \in {"nil", "ErrNotFound", "error"},
           Returned(r, o), pc[r] \in {"sent", "answered"},
           o = "nil" => Spender(r),
           o = "ErrNotFound" => pc[r] = "answered" /\ code[r] = 404,
           strays' \subseteq failed'
    PROVE  IInv'
<1>0. /\ TypeOK /\ AcceptedOnce /\ NotFoundTrue /\ OneSpender
      /\ \A q \in Callers : CallOK(q)
  BY DEF IInv
<1>1. /\ consent' = consent /\ cid' = cid /\ code' = code /\ known' = known
      /\ pc'[r] = "done" /\ outcome'[r] = o
      /\ \A q \in Callers \ {r} : pc'[q] = pc[q] /\ outcome'[q] = outcome[q]
      /\ cid[r] \in ConsentIds
  BY <1>0 DEF Returned, TypeOK
<1>2. /\ accepted' \in [ConsentIds -> Nat]
      /\ o = "nil" => accepted'[cid[r]] = accepted[cid[r]] + 1
      /\ \A c \in ConsentIds : c # cid[r] \/ o # "nil" => accepted'[c] = accepted[c]
  BY <1>0, <1>1 DEF Returned, TypeOK
<1>3. TypeOK'
  BY <1>0, <1>1, <1>2 DEF Returned, TypeOK, IInv
<1>4. \A q \in Callers : Spender(q)' <=> Spender(q) /\ q # r
  BY <1>1 DEF Spender
<1>5. AcceptedOnce'
  <2>1. ASSUME NEW c \in ConsentIds
        PROVE  accepted'[c] <= 1 /\ (accepted'[c] = 1 => consent'[c].status = StatusConsumed)
    <3>1. CASE o = "nil" /\ c = cid[r]
      BY <1>0, <1>1, <1>2, <3>1 DEF OneSpender
    <3>2. CASE ~(o = "nil" /\ c = cid[r])
      BY <1>0, <1>1, <1>2, <3>2 DEF AcceptedOnce
    <3> QED
      BY <3>1, <3>2
  <2> QED
    BY <2>1 DEF AcceptedOnce
<1>6. OneSpender'
  <2>1. ASSUME NEW q \in Callers, Spender(q)'
        PROVE  accepted'[cid[q]] = 0
    <3>1. Spender(q) /\ q # r /\ cid[q] \in ConsentIds /\ accepted[cid[q]] = 0
      BY <1>0, <1>4, <2>1 DEF OneSpender, TypeOK
    <3>2. o = "nil" => cid[q] # cid[r]
      BY <1>0, <3>1 DEF OneSpender
    <3> QED
      BY <1>2, <3>1, <3>2
  <2> QED
    BY <1>0, <1>1, <1>4, <2>1 DEF OneSpender
<1>7. NotFoundTrue'
  BY <1>0, <1>1 DEF NotFoundTrue, CallOK
<1>8. ASSUME NEW q \in Callers PROVE CallOK(q)'
  BY <1>0, <1>1 DEF CallOK
<1> QED
  BY <1>3, <1>5, <1>6, <1>7, <1>8 DEF IInv

\* A move of the owner is not seen by any call.
LEMMA OwnerMovesKeeps ==
    ASSUME IInv, OwnerMoves PROVE IInv'
<1>0. TypeOK /\ IInv
  BY DEF IInv
<1>1. /\ consent' \in [ConsentIds -> View]
      /\ \A c \in ConsentIds :
            /\ consent[c].status # Unknown => consent'[c].status # Unknown
            /\ consent'[c].status = StatusConsumed <=> consent[c].status = StatusConsumed
  BY <1>0, OwnerKeeps
<1>2. UNCHANGED <<pc, cid, code, outcome, strays, accepted, failed, known>>
  BY DEF OwnerMoves, callerVars, history
<1>3. TypeOK'
  BY <1>0, <1>1, <1>2 DEF TypeOK
<1>4. AcceptedOnce' /\ NotFoundTrue'
  BY <1>0, <1>1, <1>2 DEF IInv, AcceptedOnce, NotFoundTrue
<1>5. OneSpender'
  BY <1>0, <1>1, <1>2 DEF IInv, OneSpender, Spender, TypeOK
<1>6. ASSUME NEW q \in Callers PROVE CallOK(q)'
  BY <1>0, <1>1, <1>2 DEF IInv, CallOK, TypeOK
<1> QED
  BY <1>0, <1>2, <1>3, <1>4, <1>5, <1>6 DEF IInv

\* A request that lands consumes a consent no call was told of.
LEMMA StrayLandsKeeps ==
    ASSUME IInv, NEW c \in ConsentIds, StrayLands(c) PROVE IInv'
<1>0. TypeOK /\ IInv
  BY DEF IInv
<1>1. /\ UNCHANGED <<pc, cid, code, outcome, accepted, failed, known>>
      /\ strays' = strays \ {c}
  BY DEF StrayLands, callerVars, history
<1>2. CASE UNCHANGED consent
  <2>1. TypeOK' /\ AcceptedOnce' /\ NotFoundTrue' /\ OneSpender'
    BY <1>0, <1>1, <1>2 DEF IInv, TypeOK, AcceptedOnce, NotFoundTrue, OneSpender, Spender
  <2> QED
    BY <1>0, <1>1, <1>2, <2>1 DEF IInv, CallOK
<1>3. CASE Consumed(c)
  <2>1. /\ consent' \in [ConsentIds -> View]
        /\ consent'[c].status = StatusConsumed
        /\ \A d \in ConsentIds \ {c} : consent'[d] = consent[d]
    BY <1>0, <1>3, ConsumedIs
  <2>2. TypeOK'
    BY <1>0, <1>1, <2>1 DEF TypeOK
  <2>3. AcceptedOnce' /\ NotFoundTrue'
    BY <1>0, <1>1, <2>1 DEF IInv, AcceptedOnce, NotFoundTrue
  <2>4. OneSpender'
    BY <1>0, <1>1, <2>1 DEF IInv, OneSpender, Spender, TypeOK
  <2>5. ASSUME NEW q \in Callers PROVE CallOK(q)'
    BY <1>0, <1>1, <2>1, StatusesDiffer DEF IInv, CallOK, TypeOK
  <2> QED
    BY <1>0, <1>1, <2>2, <2>3, <2>4, <2>5 DEF IInv
<1> QED
  BY <1>2, <1>3 DEF StrayLands

\* The service consumes at most once, and says 404 of an unknown consent only.
LEMMA HandleKeeps ==
    ASSUME IInv, NEW r \in Callers, Handle(r) PROVE IInv'
<1> DEFINE c == cid[r]
<1>0. TypeOK /\ IInv /\ c \in ConsentIds
  BY DEF IInv, TypeOK
<1>1. /\ UNCHANGED <<cid, outcome, strays, accepted, failed, known>>
      /\ pc[r] = "sent" /\ pc' = [pc EXCEPT ![r] = "answered"]
  BY DEF Handle, history
<1>2. PICK s \in {200, 404, 409, 500} :
          /\ code' = [code EXCEPT ![r] = s]
          /\ s = 200 => Consumable(consent[c]) /\ Consumed(c)
          /\ s # 200 => UNCHANGED consent
          /\ s = 404 => consent[c].status = Unknown
  BY <1>0 DEF Handle
<1>3. /\ pc'[r] = "answered" /\ code'[r] = s
      /\ \A q \in Callers \ {r} : pc'[q] = pc[q] /\ code'[q] = code[q]
  BY <1>0, <1>1, <1>2 DEF TypeOK
<1>4. CASE s # 200
  <2>1. TypeOK' /\ AcceptedOnce' /\ NotFoundTrue'
    BY <1>0, <1>1, <1>2, <1>4 DEF IInv, TypeOK, AcceptedOnce, NotFoundTrue
  <2>2. \A q \in Callers : Spender(q)' <=> Spender(q)
    BY <1>1, <1>3, <1>4 DEF Spender
  <2>3. OneSpender'
    BY <1>0, <1>1, <1>2, <1>4, <2>2 DEF IInv, OneSpender
  <2>4. ASSUME NEW q \in Callers PROVE CallOK(q)'
    BY <1>0, <1>1, <1>2, <1>3, <1>4 DEF IInv, CallOK
  <2> QED
    BY <1>0, <1>1, <2>1, <2>3, <2>4 DEF IInv
<1>5. CASE s = 200
  <2>1. /\ consent' \in [ConsentIds -> View]
        /\ consent'[c].status = StatusConsumed
        /\ \A d \in ConsentIds \ {c} : consent'[d] = consent[d]
    BY <1>0, <1>2, <1>5, ConsumedIs
  <2>2. TypeOK'
    BY <1>0, <1>1, <1>2, <2>1 DEF TypeOK
  <2>3. consent[c].status # StatusConsumed
    BY <1>2, <1>5, StatusesDiffer DEF Consumable
  <2>4. accepted[c] = 0
    BY <1>0, <2>3 DEF IInv, AcceptedOnce, TypeOK
  <2>5. AcceptedOnce' /\ NotFoundTrue'
    BY <1>0, <1>1, <2>1 DEF IInv, AcceptedOnce, NotFoundTrue
  <2>6. /\ Spender(r)'
        /\ \A q \in Callers \ {r} : Spender(q)' <=> Spender(q)
    BY <1>3, <1>5 DEF Spender
  <2>7. \A q \in Callers \ {r} : Spender(q) => cid[q] # c
    BY <1>0, <2>3 DEF IInv, OneSpender
  <2>8. OneSpender'
    BY <1>0, <1>1, <2>1, <2>4, <2>6, <2>7 DEF IInv, OneSpender, TypeOK
  <2>9. ASSUME NEW q \in Callers PROVE CallOK(q)'
    BY <1>0, <1>1, <1>3, <1>5, <2>1, StatusesDiffer DEF IInv, CallOK, TypeOK
  <2> QED
    BY <1>0, <1>1, <2>2, <2>5, <2>8, <2>9 DEF IInv
<1> QED
  BY <1>4, <1>5

\* A new call knows no more than the consent says.
LEMMA CallKeeps ==
    ASSUME IInv, NEW r \in Callers, NEW c \in ConsentIds, Call(r, c) PROVE IInv'
<1>0. TypeOK /\ IInv
  BY DEF IInv
<1>1. /\ UNCHANGED <<consent, strays, accepted, failed>>
      /\ pc' = [pc EXCEPT ![r] = "sent"] /\ cid' = [cid EXCEPT ![r] = c]
      /\ code' = [code EXCEPT ![r] = 0] /\ outcome' = [outcome EXCEPT ![r] = "none"]
      /\ known' = [known EXCEPT ![r] = consent[c].status # Unknown]
  BY DEF Call
<1>2. TypeOK'
  BY <1>0, <1>1 DEF TypeOK
<1>3. known'[r] => consent[c].status # Unknown
  <2> DEFINE b == consent[c].status # Unknown
  <2>1. known' = [known EXCEPT ![r] = b] /\ known \in [Callers -> BOOLEAN]
    BY <1>0, <1>1 DEF TypeOK
  <2>2. b => consent[c].status # Unknown
    OBVIOUS
  <2> HIDE DEF b
  <2>3. known'[r] = b
    BY <2>1
  <2> QED
    BY <2>2, <2>3
<1>4. /\ pc'[r] = "sent" /\ cid'[r] = c /\ outcome'[r] = "none"
      /\ \A q \in Callers \ {r} :
            /\ pc'[q] = pc[q] /\ cid'[q] = cid[q] /\ code'[q] = code[q]
            /\ outcome'[q] = outcome[q] /\ known'[q] = known[q]
  BY <1>0, <1>1 DEF TypeOK
<1>5. AcceptedOnce'
  BY <1>0, <1>1 DEF IInv, AcceptedOnce
<1>6. NotFoundTrue'
  <2>1. ASSUME NEW q \in Callers, outcome'[q] = "ErrNotFound" PROVE ~known'[q]
    <3>1. q # r /\ outcome[q] = "ErrNotFound"
      BY <1>4, <2>1
    <3>2. ~known[q]
      BY <1>0, <3>1 DEF IInv, NotFoundTrue
    <3> QED
      BY <1>4, <3>1, <3>2
  <2> QED
    BY <2>1 DEF NotFoundTrue
<1>7. \A q \in Callers : Spender(q)' <=> Spender(q) /\ q # r
  BY <1>4 DEF Spender
<1>8. OneSpender'
  BY <1>0, <1>1, <1>4, <1>7 DEF IInv, OneSpender
<1>9. ASSUME NEW q \in Callers PROVE CallOK(q)'
  <2>1. CASE q = r
    BY <1>1, <1>3, <1>4, <2>1 DEF CallOK
  <2>2. CASE q # r
    BY <1>0, <1>1, <1>4, <2>2 DEF IInv, CallOK
  <2> QED
    BY <2>1, <2>2
<1> QED
  BY <1>0, <1>1, <1>2, <1>5, <1>8, <1>9, <1>6 DEF IInv

\* Every step keeps the invariant.
LEMMA StepIInv == IInv /\ [Next]_vars => IInv'
<1> SUFFICES ASSUME IInv, [Next]_vars PROVE IInv'
  OBVIOUS
<1>1. ASSUME NEW r \in Callers, NEW c \in ConsentIds, Call(r, c) PROVE IInv'
  BY <1>1, CallKeeps
<1>2. ASSUME NEW r \in Callers, Receive(r) PROVE IInv'
  <2>1. /\ pc[r] = "answered" /\ strays' = strays
        /\ Returned(r, Reading(code[r]))
    BY <1>2 DEF Receive
  <2>2. /\ Reading(code[r]) \in {"nil", "ErrNotFound", "error"}
        /\ Reading(code[r]) = "nil" => code[r] = 200
        /\ Reading(code[r]) = "ErrNotFound" => code[r] = 404
    BY DEF Reading
  <2>3. strays' \subseteq failed'
    BY <2>1 DEF IInv, Returned
  <2> HIDE DEF Reading
  <2> QED
    BY <2>1, <2>2, <2>3, ReturnedKeeps DEF Spender
<1>3. ASSUME NEW r \in Callers, GiveUp(r) PROVE IInv'
  <2>1. strays' \subseteq failed'
    BY <1>3 DEF IInv, GiveUp, Returned
  <2> QED
    BY <1>3, <2>1, ReturnedKeeps DEF GiveUp
<1>4. ASSUME NEW r \in Callers, Handle(r) PROVE IInv'
  BY <1>4, HandleKeeps
<1>5. ASSUME NEW c \in ConsentIds, StrayLands(c) PROVE IInv'
  BY <1>5, StrayLandsKeeps
<1>6. CASE OwnerMoves
  BY <1>6, OwnerMovesKeeps
<1>7. CASE UNCHANGED vars
  BY <1>7 DEF vars, callerVars, history, IInv, TypeOK, AcceptedOnce, NotFoundTrue,
              OneSpender, Spender, CallOK
<1> QED
  BY <1>1, <1>2, <1>3, <1>4, <1>5, <1>6, <1>7 DEF Next

\* The invariant holds of every behaviour.
LEMMA Invariance == Spec => []IInv
  BY InitIInv, StepIInv, PTL DEF Spec

\* Every variable keeps its type.
THEOREM TypeCorrect == Spec => []TypeOK
<1>1. IInv => TypeOK
  BY DEF IInv
<1> QED
  BY <1>1, Invariance, PTL

\* Whatever the number of callers, of tries and of late requests, one call at
\* most about a consent returns nil.
THEOREM AcceptedAtMostOnce == Spec => []AcceptedOnce
<1>1. IInv => AcceptedOnce
  BY DEF IInv
<1> QED
  BY <1>1, Invariance, PTL

\* ErrNotFound is never said of a consent that existed when the call was made.
THEOREM NotFoundIsTrue == Spec => []NotFoundTrue
<1>1. IInv => NotFoundTrue
  BY DEF IInv
<1> QED
  BY <1>1, Invariance, PTL

-----------------------------------------------------------------------------
(* Consume implements SingleUse.  The step of the service that consumes is *)
(* the step that spends; a lost answer is a Refuse after the Spend, and a  *)
(* late request a Waste, which only a caller that has failed leaves.       *)

\* The mapped state is a function of the calls.
LEMMA StateOf ==
    ASSUME NEW r \in Callers
    PROVE  /\ pc[r] = "idle" => stateOf[r] = "idle"
           /\ pc[r] = "done" => stateOf[r] = IF outcome[r] = "nil" THEN "yes" ELSE "no"
           /\ pc[r] = "answered" /\ code[r] = 200 => stateOf[r] = "spender"
           /\ pc[r] = "sent" \/ (pc[r] = "answered" /\ code[r] # 200)
                => stateOf[r] = "asked"
  BY DEF stateOf

\* A step of one caller changes the mapped state of that caller.
LEMMA StateOfStep ==
    ASSUME NEW r \in Callers, NEW x, stateOf'[r] = x,
           \A q \in Callers \ {r} :
              pc'[q] = pc[q] /\ code'[q] = code[q] /\ outcome'[q] = outcome[q]
    PROVE  stateOf' = [stateOf EXCEPT ![r] = x]
<1>1. stateOf' = [q \in Callers |-> stateOf'[q]] /\ stateOf = [q \in Callers |-> stateOf[q]]
  BY DEF stateOf
<1>2. ASSUME NEW q \in Callers \ {r} PROVE stateOf'[q] = stateOf[q]
  BY <1>2 DEF stateOf
<1> HIDE DEF stateOf
<1> QED
  BY <1>1, <1>2

\* Nothing is spent before the first call.
LEMMA InitMaps == Init => Use!UseInit
<1> SUFFICES ASSUME Init PROVE Use!UseInit
  OBVIOUS
<1>1. PICK g \in [ConsentIds -> Grants] :
          consent = [c \in ConsentIds |->
                       [type |-> g[c].type, perms |-> g[c].perms, status |-> Unknown]]
  BY DEF Init, ConsentInit
<1>2. spentNow = {}
  BY <1>1, StatusesDiffer DEF spentNow
<1>3. stateOf = [r \in Callers |-> "idle"]
  BY DEF stateOf, Init
<1> HIDE DEF stateOf, spentNow
<1> QED
  BY <1>2, <1>3 DEF Init, Use!UseInit

\* Every step of Consume, of the service and of the owner is a step of SingleUse,
\* or none.
LEMMA StepMaps == IInv /\ [Next]_vars => [Use!UseNext]_(Use!useVars)
<1> SUFFICES ASSUME IInv, [Next]_vars
             PROVE  Use!UseNext \/ UNCHANGED <<spentNow, failed, stateOf, cid>>
  BY DEF Use!useVars
<1> USE DEF Use!UseNext
<1>0. TypeOK
  BY DEF IInv
<1>1. ASSUME NEW r \in Callers, NEW c \in ConsentIds, Call(r, c)
      PROVE  Use!Ask(r, c)
  <2>1. stateOf[r] \in {"idle", "yes", "no"}
    BY <1>1, StateOf DEF Call
  <2>2. stateOf'[r] = "asked"
    BY <1>0, <1>1 DEF Call, TypeOK, stateOf
  <2>3. stateOf' = [stateOf EXCEPT ![r] = "asked"]
    BY <1>0, <1>1, <2>2, StateOfStep DEF Call, TypeOK
  <2>4. spentNow' = spentNow
    BY <1>1 DEF Call, spentNow
  <2> HIDE DEF stateOf, spentNow
  <2> QED
    BY <1>1, <2>1, <2>3, <2>4 DEF Call, Use!Ask
<1>2. ASSUME NEW r \in Callers, NEW o, Returned(r, o),
             pc[r] \in {"sent", "answered"}, o = "nil" <=> Spender(r) /\ o # "error"
      PROVE  Use!Confirm(r) \/ Use!Refuse(r)
  <2>1. stateOf[r] = IF Spender(r) THEN "spender" ELSE "asked"
    BY <1>0, <1>2, StateOf DEF Spender, TypeOK
  <2>2. stateOf'[r] = IF o = "nil" THEN "yes" ELSE "no"
    BY <1>0, <1>2 DEF Returned, TypeOK, stateOf
  <2>3. stateOf' = [stateOf EXCEPT ![r] = IF o = "nil" THEN "yes" ELSE "no"]
    BY <1>0, <1>2, <2>2, StateOfStep DEF Returned, TypeOK
  <2>4. spentNow' = spentNow /\ cid' = cid
        /\ failed' = IF o = "nil" THEN failed ELSE failed \cup {cid[r]}
    BY <1>2 DEF Returned, spentNow
  <2> HIDE DEF stateOf, spentNow
  <2>5. CASE o = "nil"
    BY <1>2, <2>1, <2>3, <2>4, <2>5 DEF Use!Confirm
  <2>6. CASE o # "nil"
    BY <1>2, <2>1, <2>3, <2>4, <2>6 DEF Use!Refuse
  <2> QED
    BY <2>5, <2>6
<1>3. ASSUME NEW r \in Callers, Receive(r) PROVE Use!UseNext
  <2>1. /\ Returned(r, Reading(code[r])) /\ pc[r] = "answered"
        /\ Reading(code[r]) = "nil" <=> Spender(r) /\ Reading(code[r]) # "error"
    BY <1>3 DEF Receive, Reading, Spender
  <2> HIDE DEF Reading
  <2> QED
    BY <1>2, <2>1
<1>4. ASSUME NEW r \in Callers, GiveUp(r) PROVE Use!UseNext
  BY <1>2, <1>4 DEF GiveUp
<1>5. ASSUME NEW r \in Callers, Handle(r)
      PROVE  Use!Spend(r) \/ UNCHANGED <<spentNow, failed, stateOf, cid>>
  <2>1. /\ cid' = cid /\ failed' = failed /\ outcome' = outcome /\ cid[r] \in ConsentIds
        /\ pc[r] = "sent" /\ pc' = [pc EXCEPT ![r] = "answered"]
    BY <1>0, <1>5 DEF Handle, history, TypeOK
  <2>2. stateOf[r] = "asked"
    BY <2>1, StateOf
  <2>3. PICK s \in {200, 404, 409, 500} :
            /\ code' = [code EXCEPT ![r] = s]
            /\ s = 200 => Consumable(consent[cid[r]]) /\ Consumed(cid[r])
            /\ s # 200 => UNCHANGED consent
    BY <1>5 DEF Handle
  <2>4. /\ stateOf'[r] = IF s = 200 THEN "spender" ELSE "asked"
        /\ \A q \in Callers \ {r} :
              pc'[q] = pc[q] /\ code'[q] = code[q] /\ outcome'[q] = outcome[q]
    BY <1>0, <2>1, <2>3 DEF TypeOK, stateOf
  <2>5. stateOf' = [stateOf EXCEPT ![r] = IF s = 200 THEN "spender" ELSE "asked"]
    BY <2>4, StateOfStep
  <2>6. CASE s = 200
    <3>1. consent[cid[r]].status # StatusConsumed
      BY <2>3, <2>6, StatusesDiffer DEF Consumable
    <3>2. cid[r] \notin spentNow
      BY <3>1 DEF spentNow
    <3>3. spentNow' = spentNow \cup {cid[r]}
      BY <1>0, <2>1, <2>3, <2>6, ConsumedIs DEF spentNow
    <3> HIDE DEF stateOf, spentNow
    <3> QED
      BY <2>1, <2>2, <2>5, <2>6, <3>2, <3>3 DEF Use!Spend
  <2>7. CASE s # 200
    <3>1. stateOf' = [stateOf EXCEPT ![r] = stateOf[r]]
      BY <2>2, <2>5, <2>7
    <3>2. stateOf' = stateOf
      <4>1. stateOf = [q \in Callers |-> stateOf[q]]
        BY DEF stateOf
      <4> HIDE DEF stateOf
      <4> QED
        BY <3>1, <4>1
    <3>3. spentNow' = spentNow
      BY <2>3, <2>7 DEF spentNow
    <3> QED
      BY <2>1, <3>2, <3>3
  <2> QED
    BY <2>6, <2>7
<1>6. ASSUME NEW c \in ConsentIds, StrayLands(c)
      PROVE  Use!Waste(c) \/ UNCHANGED <<spentNow, failed, stateOf, cid>>
  <2>1. stateOf' = stateOf /\ failed' = failed /\ cid' = cid /\ c \in failed
    BY <1>6 DEF StrayLands, callerVars, history, stateOf, IInv
  <2>2. CASE UNCHANGED consent
    BY <2>1, <2>2 DEF spentNow
  <2>3. CASE Consumable(consent[c]) /\ Consumed(c)
    <3>1. c \notin spentNow
      BY <2>3, StatusesDiffer DEF Consumable, spentNow
    <3>2. spentNow' = spentNow \cup {c}
      BY <1>0, <2>3, ConsumedIs DEF spentNow
    <3> HIDE DEF stateOf, spentNow
    <3> QED
      BY <2>1, <3>1, <3>2 DEF Use!Waste
  <2> QED
    BY <1>6, <2>2, <2>3 DEF StrayLands
<1>7. CASE OwnerMoves
  <2>1. \A c \in ConsentIds :
            consent'[c].status = StatusConsumed <=> consent[c].status = StatusConsumed
    BY <1>0, <1>7, OwnerKeeps
  <2> QED
    BY <1>7, <2>1 DEF OwnerMoves, callerVars, history, stateOf, spentNow
<1>8. CASE UNCHANGED vars
  BY <1>8 DEF vars, callerVars, history, stateOf, spentNow
<1> QED
  BY <1>1, <1>3, <1>4, <1>5, <1>6, <1>7, <1>8 DEF Next

\* Only the call that consumed a consent may return nil, for any number of
\* consents, callers and late requests.
THEOREM ConsumeImplementsSingleUse == Spec => ImplementsSingleUse
<1>1. Spec => Use!UseInit /\ [][Use!UseNext]_(Use!useVars)
  BY InitMaps, StepMaps, Invariance, PTL DEF Spec
<1> QED
  BY <1>1 DEF ImplementsSingleUse, Use!UseSpec

=============================================================================
