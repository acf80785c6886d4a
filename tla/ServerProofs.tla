---------------------------- MODULE ServerProofs ----------------------------
(***************************************************************************)
(* The safety of the process, for any number of requests: what is served   *)
(* is served by a ready process, what is cut is cut for a reason, and the  *)
(* log says what the caller was told.                                      *)
(*                                                                         *)
(* Inductive are two orders.  The process's: the listener exists only once *)
(* the repository does, a status of 1 is the listener's doing once it      *)
(* exists, and nothing is cut while the process lives.  A request's: from  *)
(* Identify on its id is settled; no header is on the wire before the      *)
(* handler answers; then the recorder holds what is on the wire, until a   *)
(* panic is recovered; and from Log on the log line is settled.            *)
(***************************************************************************)
EXTENDS Server, TLAPS

IdsOnWire == Ids \cup {NoId} \cup {Minted[r] : r \in Requests}
Line == [status : {0} \cup Statuses, id : IdsOnWire]

\* The id a request has to be known by.
Identity(r) == IF sent[r] = NoId THEN Minted[r] ELSE sent[r]

LineTypeOK ==
    /\ wire \in [Requests -> Line]
    /\ logged \in [Requests -> Line]

StartOrder ==
    /\ main = "init" => listener = "none"
    /\ main = "started" => listener # "none"
    /\ listener # "none" => repo # "none"
    /\ exit # "no" => main = "end"
    /\ main = "end" => exit # "no"

CutLast == exit = "no" => \A r \in Requests : stage[r] # "cut"

\* The status of a request that has been answered.
StatusOK(r) == recorded[r] = IF r \in recovered THEN 500 ELSE wire[r].status

RequestOK(r) ==
    /\ stage[r] # "none" => repo # "none"
    /\ stage[r] \in {"named", "panicked", "written", "logged", "done"}
         => wire[r].id = Identity(r)
    /\ stage[r] \in {"none", "connected", "arrived", "named"} => wire[r].status = 0
    /\ stage[r] \in {"none", "connected", "arrived", "named", "panicked"}
         => r \notin recovered
    /\ stage[r] \in {"written", "logged", "done"} => StatusOK(r)
    /\ stage[r] \in {"logged", "done"}
         => logged[r] = [status |-> recorded[r], id |-> wire[r].id]

IInv ==
    /\ TypeOK /\ LineTypeOK /\ StartOrder /\ CutLast /\ CutOnlyWhen
    /\ \A r \in Requests : RequestOK(r)

-----------------------------------------------------------------------------
\* The invariant holds of a process that has just been started.
LEMMA InitIInv == Init => IInv
<1> SUFFICES ASSUME Init PROVE IInv
  OBVIOUS
<1>1. Nothing \in Line
  BY DEF Nothing, Line, IdsOnWire
<1>2. TypeOK /\ StartOrder /\ CutLast /\ CutOnlyWhen
  BY DEF Init, Statuses, TypeOK, StartOrder, CutLast, CutOnlyWhen
<1>3. LineTypeOK
  BY <1>1 DEF Init, LineTypeOK
<1> QED
  BY <1>2, <1>3 DEF Init, IInv, RequestOK, StatusOK, Nothing

\* The end of the process keeps the invariant, if it is no ordinary end or
\* nothing is under way.
LEMMA EndKeeps ==
    ASSUME IInv, NEW how \in {"0", "1", "killed"}, End(how), Alive,
           how = "0" => late \/ \A r \in Requests : ~InFlight(r),
           how = "1" => listener = "failed" \/ repo = "none"
    PROVE  IInv'
<1>0. IInv /\ TypeOK /\ CutLast
  BY DEF IInv
<1>1. /\ exit' = how /\ main' = "end"
      /\ UNCHANGED <<stop, listener, late, repo, sent, wire, recorded, recovered, logged>>
  BY DEF End
<1>2. ASSUME NEW r \in Requests
      PROVE  stage'[r] = IF InFlight(r) THEN "cut" ELSE stage[r]
  BY DEF End
<1>3. stage' \in [Requests -> {"none", "connected", "arrived", "named", "written",
                               "panicked", "logged", "done", "cut"}]
  BY <1>0 DEF End, TypeOK
<1>4. TypeOK' /\ LineTypeOK'
  BY <1>0, <1>1, <1>3 DEF IInv, TypeOK, LineTypeOK
<1>5. StartOrder' /\ CutLast'
  BY <1>0, <1>1 DEF IInv, StartOrder, CutLast
<1>6. CutOnlyWhen'
  BY <1>0, <1>1, <1>2 DEF IInv, CutLast, CutOnlyWhen, RequestOK, InFlight, Alive
<1>7. ASSUME NEW r \in Requests PROVE RequestOK(r)'
  BY <1>0, <1>1, <1>2 DEF IInv, RequestOK, StatusOK, Identity, InFlight
<1> QED
  BY <1>4, <1>5, <1>6, <1>7 DEF IInv

\* A step of the process that leaves the requests alone keeps the invariant, if
\* it keeps the order of the start.
LEMMA ProcessKeeps ==
    ASSUME IInv, Alive, exit' = exit, UNCHANGED requestVars,
           TypeOK', StartOrder', repo # "none" => repo' # "none"
    PROVE  IInv'
<1>1. LineTypeOK' /\ CutLast' /\ CutOnlyWhen'
  BY DEF IInv, requestVars, LineTypeOK, CutLast, CutOnlyWhen, Alive
<1>2. ASSUME NEW r \in Requests PROVE RequestOK(r)'
  BY DEF IInv, requestVars, RequestOK, StatusOK, Identity
<1> QED
  BY <1>1, <1>2 DEF IInv

\* A step of one request keeps the invariant, if it keeps the request's own part.
LEMMA RequestKeeps ==
    ASSUME IInv, Alive, UNCHANGED processVars, NEW r \in Requests,
           NEW s \in {"connected", "arrived", "named", "panicked", "written",
                      "logged", "done"},
           stage' = [stage EXCEPT ![r] = s],
           sent' \in [Requests -> Ids \cup {NoId}], LineTypeOK',
           recorded' \in [Requests -> Statuses], recovered' \subseteq Requests,
           \A q \in Requests \ {r} :
               /\ sent'[q] = sent[q] /\ wire'[q] = wire[q] /\ logged'[q] = logged[q]
               /\ recorded'[q] = recorded[q] /\ (q \in recovered' <=> q \in recovered),
           RequestOK(r)'
    PROVE  IInv'
<1>0. IInv /\ TypeOK
  BY DEF IInv
<1>1. UNCHANGED <<main, stop, listener, exit, late, repo>>
  BY DEF processVars
<1>2. stage'[r] = s /\ \A q \in Requests \ {r} : stage'[q] = stage[q]
  BY <1>0 DEF TypeOK
<1>3. TypeOK'
  BY <1>0, <1>1 DEF TypeOK
<1>4. StartOrder' /\ CutLast' /\ CutOnlyWhen'
  BY <1>0, <1>1, <1>2 DEF IInv, StartOrder, CutLast, CutOnlyWhen
<1>5. ASSUME NEW q \in Requests PROVE RequestOK(q)'
  <2>1. CASE q = r
    BY <2>1
  <2>2. CASE q # r
    BY <1>0, <1>1, <1>2, <2>2 DEF IInv, RequestOK, StatusOK, Identity
  <2> QED
    BY <2>1, <2>2
<1> QED
  BY <1>3, <1>4, <1>5 DEF IInv

-----------------------------------------------------------------------------
(* The steps.                                                              *)

\* main, its timer and the signals keep the invariant.
LEMMA MainKeeps ==
    ASSUME IInv, MainStep \/ Signal \/ Deadline
    PROVE  IInv'
<1>0. TypeOK /\ StartOrder
  BY DEF IInv
<1> USE DEF Alive, requestVars
<1>1. CASE NewRepository
  BY <1>0, <1>1, ProcessKeeps DEF NewRepository, TypeOK, StartOrder
<1>2. CASE NewRepositoryFails
  BY <1>2, EndKeeps DEF NewRepositoryFails
<1>3. CASE GoListen
  BY <1>0, <1>3, ProcessKeeps DEF GoListen, TypeOK, StartOrder
<1>4. CASE Notify
  <2>1. listener # "none"
    BY <1>0, <1>4 DEF Notify, StartOrder
  <2> QED
    BY <1>0, <1>4, <2>1, ProcessKeeps DEF Notify, TypeOK, StartOrder
<1>5. CASE Shutdown
  BY <1>0, <1>5, ProcessKeeps DEF Shutdown, TypeOK, StartOrder
<1>6. CASE Drained
  BY <1>6, EndKeeps DEF Drained
<1>7. CASE Signal
  <2>1. CASE main \in {"init", "started"}
    BY <1>7, <2>1, EndKeeps DEF Signal
  <2>2. CASE main \notin {"init", "started"}
    BY <1>0, <1>7, <2>2, ProcessKeeps DEF Signal, TypeOK, StartOrder
  <2> QED
    BY <2>1, <2>2
<1>8. CASE Deadline
  BY <1>0, <1>8, ProcessKeeps DEF Deadline, TypeOK, StartOrder
<1> QED
  BY <1>1, <1>2, <1>3, <1>4, <1>5, <1>6, <1>7, <1>8 DEF MainStep

\* The listening goroutine keeps the invariant.
LEMMA ListenerKeeps ==
    ASSUME IInv, ListenerStep
    PROVE  IInv'
<1>0. TypeOK /\ StartOrder
  BY DEF IInv
<1>1. ASSUME NEW l \in {"binding", "accepting", "closed", "failed"}, ListenerGoes(l),
             Alive, listener # "none"
      PROVE  IInv'
  <2>1. TypeOK' /\ StartOrder'
    BY <1>0, <1>1 DEF ListenerGoes, TypeOK, StartOrder, requestVars, Alive
  <2> QED
    BY <1>1, <2>1, ProcessKeeps DEF ListenerGoes
<1>2. CASE Listen \/ Serve \/ ServerClosed \/ ServeError
  BY <1>1, <1>2 DEF Listen, Serve, ServerClosed, ServeError
<1>3. CASE ExitOnError
  BY <1>3, EndKeeps DEF ExitOnError
<1> QED
  BY <1>2, <1>3 DEF ListenerStep

\* A header that is written is typed, and of the one request.
LEMMA HeaderWritten ==
    ASSUME TypeOK, LineTypeOK, NEW r \in Requests, NEW status \in Statuses,
           WriteHeader(r, status)
    PROVE  /\ wire' \in [Requests -> Line] /\ recorded' \in [Requests -> Statuses]
           /\ \A q \in Requests \ {r} : wire'[q] = wire[q] /\ recorded'[q] = recorded[q]
           /\ recorded'[r] = status
           /\ wire'[r].id = wire[r].id
           /\ wire'[r].status = IF wire[r].status = 0 THEN status ELSE wire[r].status
<1> DEFINE line == [wire[r] EXCEPT !.status = IF wire[r].status = 0 THEN status
                                              ELSE wire[r].status]
<1>1. wire' = [wire EXCEPT ![r] = line] /\ recorded' = [recorded EXCEPT ![r] = status]
  BY DEF WriteHeader, LineTypeOK
<1>2. /\ wire[r] \in Line /\ wire \in [Requests -> Line]
      /\ recorded \in [Requests -> Statuses]
  BY DEF TypeOK, LineTypeOK
<1>3. /\ line \in Line /\ line.id = wire[r].id
      /\ line.status = IF wire[r].status = 0 THEN status ELSE wire[r].status
  BY <1>2 DEF Line
<1> HIDE DEF line
<1> QED
  BY <1>1, <1>2, <1>3

\* Every step of a request keeps the invariant.
LEMMA RequestsKeep ==
    ASSUME IInv, NEW r \in Requests,
           (\E i \in Ids \cup {NoId} : Arrive(r, i)) \/ RequestStep(r)
    PROVE  IInv'
<1>0. TypeOK /\ LineTypeOK /\ StartOrder /\ RequestOK(r) /\ wire[r] \in Line
  BY DEF IInv, LineTypeOK
<1>1. ASSUME NEW i \in Ids \cup {NoId}, Arrive(r, i) PROVE IInv'
  <2>1. /\ sent' \in [Requests -> Ids \cup {NoId}]
        /\ \A q \in Requests \ {r} : sent'[q] = sent[q]
    BY <1>0, <1>1 DEF Arrive, TypeOK
  <2>2. RequestOK(r)'
    BY <1>0, <1>1 DEF Arrive, RequestOK, TypeOK, processVars
  <2> QED
    BY <1>0, <1>1, <2>1, <2>2, RequestKeeps DEF Arrive, TypeOK, LineTypeOK
<1>2. CASE Accept(r)
  <2>1. RequestOK(r)'
    BY <1>0, <1>2 DEF Accept, RequestOK, StartOrder, TypeOK, processVars
  <2> QED
    BY <1>0, <1>2, <2>1, RequestKeeps DEF Accept, TypeOK, LineTypeOK
<1>3. CASE Identify(r)
  <2>1. wire' = [wire EXCEPT ![r] = [wire[r] EXCEPT !.id = Identity(r)]]
    BY <1>0, <1>3 DEF Identify, Identity, LineTypeOK
  <2>2. Identity(r) \in IdsOnWire
    BY <1>0 DEF Identity, IdsOnWire, TypeOK
  <2>3. /\ [wire[r] EXCEPT !.id = Identity(r)] \in Line
        /\ [wire[r] EXCEPT !.id = Identity(r)].id = Identity(r)
        /\ [wire[r] EXCEPT !.id = Identity(r)].status = wire[r].status
    BY <1>0, <2>2 DEF Line
  <2>4. /\ LineTypeOK' /\ wire'[r].id = Identity(r) /\ wire'[r].status = wire[r].status
        /\ \A q \in Requests \ {r} : wire'[q] = wire[q]
    BY <1>0, <1>3, <2>1, <2>3 DEF Identify, LineTypeOK
  <2>5. RequestOK(r)'
    BY <1>0, <1>3, <2>4 DEF Identify, RequestOK, Identity, TypeOK, processVars
  <2> QED
    BY <1>0, <1>3, <2>4, <2>5, RequestKeeps DEF Identify, TypeOK
<1>4. CASE Handle(r)
  <2>1. PICK status \in Statuses : WriteHeader(r, status)
    BY <1>4 DEF Handle
  <2>2. /\ stage[r] = "named" /\ stage'[r] = "written"
        /\ r \notin recovered' /\ wire[r].status = 0
    BY <1>0, <1>4 DEF Handle, RequestOK, TypeOK
  <2>3. StatusOK(r)' /\ (wire[r].id = Identity(r) => wire'[r].id = Identity(r)')
    BY <1>0, <1>4, <2>1, <2>2, HeaderWritten DEF Handle, StatusOK, Identity
  <2>4. RequestOK(r)'
    BY <1>0, <1>4, <2>2, <2>3 DEF Handle, RequestOK, processVars
  <2>5. LineTypeOK' /\ recorded' \in [Requests -> Statuses]
    BY <1>0, <1>4, <2>1, HeaderWritten DEF Handle, LineTypeOK
  <2> QED
    BY <1>0, <1>4, <2>1, <2>4, <2>5, HeaderWritten, RequestKeeps DEF Handle, TypeOK
<1>5. CASE Panic(r)
  <2>1. RequestOK(r)'
    BY <1>0, <1>5 DEF Panic, RequestOK, Identity, TypeOK, processVars
  <2> QED
    BY <1>0, <1>5, <2>1, RequestKeeps DEF Panic, TypeOK, LineTypeOK
<1>6. CASE Recover(r)
  <2>1. WriteHeader(r, 500) /\ 500 \in Statuses
    BY <1>6 DEF Recover, Statuses
  <2>2. stage'[r] = "written" /\ stage[r] = "panicked" /\ r \in recovered'
    BY <1>0, <1>6 DEF Recover, TypeOK
  <2>3. StatusOK(r)' /\ (wire[r].id = Identity(r) => wire'[r].id = Identity(r)')
    BY <1>0, <1>6, <2>1, <2>2, HeaderWritten DEF Recover, StatusOK, Identity
  <2>4. RequestOK(r)'
    BY <1>0, <1>6, <2>2, <2>3 DEF Recover, RequestOK, processVars
  <2>5. LineTypeOK' /\ recorded' \in [Requests -> Statuses]
    BY <1>0, <1>6, <2>1, HeaderWritten DEF Recover, LineTypeOK
  <2>6. /\ recovered' \subseteq Requests
        /\ \A q \in Requests \ {r} : q \in recovered' <=> q \in recovered
    BY <1>0, <1>6 DEF Recover, TypeOK
  <2> QED
    BY <1>0, <1>6, <2>1, <2>4, <2>5, <2>6, HeaderWritten, RequestKeeps DEF Recover, TypeOK
<1>7. CASE Log(r)
  <2>1. [status |-> recorded[r], id |-> wire[r].id] \in Line
    BY <1>0 DEF Line, TypeOK
  <2>2. /\ LineTypeOK' /\ logged'[r] = [status |-> recorded[r], id |-> wire[r].id]
        /\ \A q \in Requests \ {r} : logged'[q] = logged[q]
    BY <1>0, <1>7, <2>1 DEF Log, LineTypeOK
  <2>3. RequestOK(r)'
    BY <1>0, <1>7, <2>2 DEF Log, RequestOK, StatusOK, Identity, TypeOK, processVars
  <2> QED
    BY <1>0, <1>7, <2>2, <2>3, RequestKeeps DEF Log, TypeOK
<1>8. CASE Flush(r)
  <2>1. RequestOK(r)'
    BY <1>0, <1>8 DEF Flush, RequestOK, StatusOK, Identity, TypeOK, processVars
  <2> QED
    BY <1>0, <1>8, <2>1, RequestKeeps DEF Flush, TypeOK, LineTypeOK
<1> QED
  BY <1>1, <1>2, <1>3, <1>4, <1>5, <1>6, <1>7, <1>8 DEF RequestStep

\* Every step keeps the invariant.
LEMMA StepIInv == IInv /\ [Next]_vars => IInv'
<1> SUFFICES ASSUME IInv, [Next]_vars PROVE IInv'
  OBVIOUS
<1>1. CASE Next
  BY <1>1, MainKeeps, ListenerKeeps, RequestsKeep DEF Next
<1>2. CASE UNCHANGED vars
  BY <1>2 DEF vars, processVars, requestVars, IInv, TypeOK, LineTypeOK, StartOrder,
              CutLast, CutOnlyWhen, RequestOK, StatusOK, Identity
<1> QED
  BY <1>1, <1>2

\* The invariant holds of every behaviour.
LEMMA Invariance == Spec => []IInv
  BY InitIInv, StepIInv, PTL DEF Spec

-----------------------------------------------------------------------------
(* The theorems.                                                           *)

\* Every variable keeps its type, and main waits only for a process that listens.
THEOREM ServerTypeCorrect == Spec => []TypeOK
<1>1. IInv => TypeOK
  BY DEF IInv
<1> QED
  BY <1>1, Invariance, PTL

\* A signal under load cuts no accepted request, but for the reasons listed.
THEOREM CutForAReason == Spec => []CutOnlyWhen
<1>1. IInv => CutOnlyWhen
  BY DEF IInv
<1> QED
  BY <1>1, Invariance, PTL

\* No request is accepted before the repository is ready.
THEOREM ServedWhenReady == Spec => []ReadyFirst
<1>1. IInv => ReadyFirst
  BY DEF IInv, RequestOK, ReadyFirst
<1> QED
  BY <1>1, Invariance, PTL

\* Every answered request has its log line, with the id its caller was told, and
\* the status it was told unless a panic was recovered; then the line says 500.
THEOREM LogIsTruthful == Spec => []LogTruthful
<1>1. IInv => LogTruthful
  <2> SUFFICES ASSUME IInv, NEW r \in Requests, stage[r] \in {"logged", "done"}
               PROVE  /\ wire[r].id = Identity(r)
                      /\ logged[r].id = wire[r].id
                      /\ logged[r].status = IF r \in recovered THEN 500 ELSE wire[r].status
    BY DEF LogTruthful, Identity
  <2>1. /\ wire[r].id = Identity(r) /\ StatusOK(r)
        /\ logged[r] = [status |-> recorded[r], id |-> wire[r].id]
    BY DEF IInv, RequestOK
  <2> QED
    BY <2>1 DEF StatusOK
<1> QED
  BY <1>1, Invariance, PTL

\* A drain in which nothing is being bound and ListenAndServe has not failed can
\* only end with status 0: from there on the listener can but be closed.
THEOREM DrainExitsClean == Spec => DrainEndsWell
<1> DEFINE P == main = "drain" /\ listener \notin {"binding", "failed"}
           K == exit = "0" \/ (exit = "no" /\ P)
           Q == exit \in {"no", "0"}
<1>1. IInv /\ P => K
  BY DEF IInv, StartOrder, TypeOK
<1>2. K => Q
  OBVIOUS
<1>3. ASSUME K, [Next]_vars PROVE K'
  <2>1. CASE UNCHANGED vars
    BY <1>3, <2>1 DEF vars, processVars
  <2>2. CASE exit = "0"
    BY <1>3, <2>2 DEF Next, MainStep, NewRepository, NewRepositoryFails, GoListen,
                      Notify, Shutdown, Drained, Signal, Deadline, ListenerStep, Listen,
                      Serve, ServerClosed, ServeError, ExitOnError, Arrive, RequestStep,
                      Accept, Identify, Handle, Panic, Recover, Log, Flush, Alive,
                      vars, processVars
  <2>3. CASE exit = "no" /\ P /\ Next
    <3>1. CASE MainStep
      BY <2>3, <3>1 DEF MainStep, NewRepository, NewRepositoryFails, GoListen, Notify,
                        Shutdown, Drained, End
    <3>2. CASE Signal \/ Deadline
      BY <2>3, <3>2 DEF Signal, Deadline
    <3>3. CASE ListenerStep
      BY <2>3, <3>3 DEF ListenerStep, Listen, Serve, ServerClosed, ServeError,
                        ExitOnError, ListenerGoes
    <3>4. CASE \E r \in Requests : (\E i \in Ids \cup {NoId} : Arrive(r, i)) \/ RequestStep(r)
      BY <2>3, <3>4 DEF Arrive, RequestStep, Accept, Identify, Handle, Panic, Recover,
                        Log, Flush, processVars
    <3> QED
      BY <2>3, <3>1, <3>2, <3>3, <3>4 DEF Next
  <2> QED
    BY <1>3, <2>1, <2>2, <2>3
<1>4. K /\ [Next]_vars => K'
  BY <1>3
<1> HIDE DEF P, K, Q
<1>5. Spec => [](P => []Q)
  BY <1>1, <1>2, <1>4, Invariance, PTL DEF Spec
<1> QED
  BY <1>5 DEF DrainEndsWell, P, Q

=============================================================================
