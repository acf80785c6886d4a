------------------------------- MODULE Server -------------------------------
(***************************************************************************)
(* The process: main.go, and the middlewares of pkg/httpx around every     *)
(* request.  Three kinds of goroutine meet here: main, which initialises,  *)
(* waits for a signal and drains; the one that listens, which may end the  *)
(* process on its own; and one per request.  The process ends when main    *)
(* returns or anyone calls os.Exit, and with it every other goroutine.     *)
(*                                                                         *)
(* main is at  "init"     newRepository       "wait"  <-stop               *)
(*             "started"  the listener's goroutine exists, Notify is not   *)
(*                        called: a signal still kills the process         *)
(*             "drain"    in srv.Shutdown     "end"                        *)
(* listener:   "none", "starting", "binding" (ListenAndServe has seen no   *)
(*             shutdown and binds the address), "accepting"; and, when it  *)
(*             has returned, "closed" (ErrServerClosed) or "failed" (any   *)
(*             other error: the goroutine logs it and is about to exit)    *)
(* stage[r]:   "none", "connected" (accepted, no request read yet),        *)
(*             "arrived", "named" (has its interaction id), "written" (the *)
(*             header is, the body is being encoded), "panicked",          *)
(*             "logged", "done" (sent), "cut" (the process ended first)    *)
(*                                                                         *)
(* net/http is external.  Shutdown first marks the server, which           *)
(* ListenAndServe looks at before it binds, before it accepts and when an  *)
(* Accept fails; then it closes the listener, waits for the accept loop to *)
(* be left, however long, and for the requests, until the deadline.  A     *)
(* connection that has brought no request is waited for, for 5 s at most.  *)
(***************************************************************************)
EXTENDS Integers

CONSTANTS
    Requests,
    Ids,      \* the interaction ids callers send
    NoId,     \* the header is absent
    Minted    \* Minted[r]: the UUID drawn for r if need be

VARIABLES
    main, stop, \* stop: a signal is in the channel
    listener,
    exit,       \* "no", "0", "1", "killed"
    late,       \* the 10 s of the shutdown context have passed
    repo,       \* "none", "memory", "pool", "closed"
    stage, sent,
    wire,       \* wire[r]: [status, id] of the response; status 0: no header yet
    recorded,   \* recorded[r]: the status the recorder of Logger holds
    recovered,  \* the requests of which the log has a line "panic recovered"
    logged      \* logged[r]: [status, id] of the access log line

processVars == <<main, stop, listener, exit, late, repo>>
requestVars == <<stage, sent, wire, recorded, recovered, logged>>
vars == <<processVars, requestVars>>

Nothing == [status |-> 0, id |-> NoId]
Statuses == {200, 403, 500}

ASSUME IdsAssumption ==
    /\ NoId \notin Ids
    /\ \A r \in Requests : Minted[r] \notin Ids \cup {NoId}

Init ==
    /\ main = "init" /\ stop = FALSE /\ listener = "none"
    /\ exit = "no" /\ late = FALSE /\ repo = "none"
    /\ stage = [r \in Requests |-> "none"]
    /\ sent = [r \in Requests |-> NoId]
    /\ wire = [r \in Requests |-> Nothing]
    /\ recorded = [r \in Requests |-> 200]
    /\ recovered = {}
    /\ logged = [r \in Requests |-> Nothing]

Alive == exit = "no"
InFlight(r) == stage[r] \notin {"none", "connected", "done", "cut"}

\* The process ends; what is under way is cut.
End(how) ==
    /\ exit' = how
    /\ main' = "end"
    /\ stage' = [r \in Requests |-> IF InFlight(r) THEN "cut" ELSE stage[r]]
    /\ UNCHANGED <<stop, listener, late, repo, sent, wire, recorded, recovered, logged>>

-----------------------------------------------------------------------------
(* main.                                                                   *)

NewRepository ==
    /\ Alive /\ main = "init" /\ repo = "none"
    /\ repo' \in {"memory", "pool"}
    /\ UNCHANGED <<main, stop, listener, exit, late, requestVars>>

\* Connect or RunMigrations fails: os.Exit(1).
NewRepositoryFails == Alive /\ main = "init" /\ repo = "none" /\ End("1")

\* Faulty: the server listens while the repository is prepared.
GoListenEarly ==
    /\ Alive /\ main = "init" /\ listener = "none"
    /\ listener' = "starting"
    /\ main' = IF repo = "none" THEN "init" ELSE "started"
    /\ UNCHANGED <<stop, exit, late, repo, requestVars>>

GoListen ==
    /\ Alive /\ main = "init" /\ repo # "none"
    /\ listener' = "starting"
    /\ main' = "started"
    /\ UNCHANGED <<stop, exit, late, repo, requestVars>>

\* Faulty: main waits for signals and never starts the listener.
NotifyFirst ==
    /\ Alive /\ main = "init" /\ repo # "none"
    /\ main' = "wait"
    /\ UNCHANGED <<stop, listener, exit, late, repo, requestVars>>

Notify ==
    /\ Alive /\ main = "started"
    /\ main' = "wait"
    /\ UNCHANGED <<stop, listener, exit, late, repo, requestVars>>

\* SIGINT or SIGTERM.  The channel holds one; more are dropped.
Signal ==
    /\ Alive
    /\ IF main \in {"init", "started"} THEN End("killed")
       ELSE /\ stop' = TRUE
            /\ UNCHANGED <<main, listener, exit, late, repo, requestVars>>

\* Faulty: the connections are closed instead of drained.
ShutdownCloses ==
    /\ Alive /\ main = "wait" /\ stop
    /\ End("0")

Shutdown ==
    /\ Alive /\ main = "wait" /\ stop
    /\ main' = "drain"
    /\ UNCHANGED <<stop, listener, exit, late, repo, requestVars>>

\* Faulty: the drain waits for the requests, however long they take.
DeadlineNever == FALSE /\ UNCHANGED vars

Deadline ==
    /\ Alive /\ main = "drain" /\ ~late
    /\ late' = TRUE
    /\ UNCHANGED <<main, stop, listener, exit, repo, requestVars>>

\* Shutdown returns, nil or the context's error; so does main.
Drained ==
    /\ Alive /\ main = "drain" /\ listener # "accepting"
    /\ late \/ \A r \in Requests : ~InFlight(r)
    /\ End("0")

MainStep ==
    \/ NewRepository \/ NewRepositoryFails \/ GoListen \/ Notify \/ Shutdown
    \/ Drained

-----------------------------------------------------------------------------
(* The listening goroutine.                                                *)

ListenerGoes(l) ==
    /\ listener' = l
    /\ UNCHANGED <<main, stop, exit, late, repo, requestVars>>

\* ListenAndServe returns ErrServerClosed at once if Shutdown was called.
Listen ==
    /\ Alive /\ listener = "starting"
    /\ ListenerGoes(IF main = "drain" THEN "closed" ELSE "binding")

\* The address is bound; Serve does not take it up after Shutdown.
Serve ==
    /\ Alive /\ listener = "binding"
    /\ ListenerGoes(IF main = "drain" THEN "closed" ELSE "accepting")

\* The accept loop ends because Shutdown has closed the listener.
ServerClosed ==
    /\ Alive /\ listener = "accepting" /\ main = "drain"
    /\ ListenerGoes("closed")

\* ListenAndServe returns an error of its own: the address is taken, Shutdown
\* or no Shutdown, or Accept fails for good on a server that is not shut down.
ServeError ==
    /\ Alive
    /\ \/ listener = "binding"
       \/ listener = "accepting" /\ main # "drain"
    /\ ListenerGoes("failed")

\* Faulty: any error of ListenAndServe ends the process, ErrServerClosed too.
ExitOnAnyError == Alive /\ listener \in {"failed", "closed"} /\ End("1")

\* The error is logged, then os.Exit(1).
ExitOnError == Alive /\ listener = "failed" /\ End("1")

ListenerStep == Listen \/ Serve \/ ServerClosed \/ ServeError \/ ExitOnError

-----------------------------------------------------------------------------
(* A request, from the outermost middleware inwards and back.              *)

Accept(r) ==
    /\ Alive /\ listener = "accepting" /\ stage[r] = "none"
    /\ stage' = [stage EXCEPT ![r] = "connected"]
    /\ UNCHANGED <<processVars, sent, wire, recorded, recovered, logged>>

\* A request is read, perhaps while main drains already.
Arrive(r, i) ==
    /\ Alive /\ stage[r] = "connected"
    /\ stage' = [stage EXCEPT ![r] = "arrived"]
    /\ sent' = [sent EXCEPT ![r] = i]
    /\ UNCHANGED <<processVars, wire, recorded, recovered, logged>>

\* FAPIInteractionID.
Identify(r) ==
    /\ Alive /\ stage[r] = "arrived"
    /\ stage' = [stage EXCEPT ![r] = "named"]
    /\ wire' = [wire EXCEPT ![r].id = IF sent[r] = NoId THEN Minted[r] ELSE sent[r]]
    /\ UNCHANGED <<processVars, sent, recorded, recovered, logged>>

\* Faulty: without a WriteHeader of its own, the recorder has the embedded one.
WriteHeaderUnrecorded(r, status) ==
    /\ wire' = [wire EXCEPT ![r].status = IF @ = 0 THEN status ELSE @]
    /\ recorded' = recorded

\* statusRecorder keeps the last status; net/http sends the first.
WriteHeader(r, status) ==
    /\ recorded' = [recorded EXCEPT ![r] = status]
    /\ wire' = [wire EXCEPT ![r].status = IF @ = 0 THEN status ELSE @]

\* The handler answers: WriteJSON writes the header.
Handle(r) ==
    /\ Alive /\ stage[r] = "named"
    /\ \E status \in Statuses : WriteHeader(r, status)
    /\ stage' = [stage EXCEPT ![r] = "written"]
    /\ UNCHANGED <<processVars, sent, recovered, logged>>

\* The handler panics, before it answers or while the body is encoded.
Panic(r) ==
    /\ Alive
    /\ \/ stage[r] = "named"
       \/ stage[r] = "written" /\ r \notin recovered
    /\ stage' = [stage EXCEPT ![r] = "panicked"]
    /\ UNCHANGED <<processVars, sent, wire, recorded, recovered, logged>>

\* Faulty: without Recoverer net/http ends the panicking request's connection.
RecoverMissing(r) ==
    /\ Alive /\ stage[r] = "panicked"
    /\ stage' = [stage EXCEPT ![r] = "cut"]
    /\ UNCHANGED <<processVars, sent, wire, recorded, recovered, logged>>

\* Faulty: Recoverer outside Logger, whose line a panic then passes by.
RecoverOutermost(r) ==
    /\ Alive /\ stage[r] = "panicked"
    /\ recovered' = recovered \cup {r}
    /\ wire' = [wire EXCEPT ![r].status = IF @ = 0 THEN 500 ELSE @]
    /\ stage' = [stage EXCEPT ![r] = "logged"]
    /\ UNCHANGED <<processVars, sent, recorded, logged>>

\* Recoverer, inside Logger.
Recover(r) ==
    /\ Alive /\ stage[r] = "panicked"
    /\ recovered' = recovered \cup {r}
    /\ WriteHeader(r, 500)
    /\ stage' = [stage EXCEPT ![r] = "written"]
    /\ UNCHANGED <<processVars, sent, logged>>

\* Faulty: Logger outside FAPIInteractionID, whose context it does not see.
LogOutermost(r) ==
    /\ Alive /\ stage[r] = "written"
    /\ stage' = [stage EXCEPT ![r] = "logged"]
    /\ logged' = [logged EXCEPT ![r] = [status |-> recorded[r], id |-> sent[r]]]
    /\ UNCHANGED <<processVars, sent, wire, recorded, recovered>>

\* Logger: the recorded status, and the id of the context.
Log(r) ==
    /\ Alive /\ stage[r] = "written"
    /\ stage' = [stage EXCEPT ![r] = "logged"]
    /\ logged' = [logged EXCEPT ![r] = [status |-> recorded[r], id |-> wire[r].id]]
    /\ UNCHANGED <<processVars, sent, wire, recorded, recovered>>

Flush(r) ==
    /\ Alive /\ stage[r] = "logged"
    /\ stage' = [stage EXCEPT ![r] = "done"]
    /\ UNCHANGED <<processVars, sent, wire, recorded, recovered, logged>>

RequestStep(r) ==
    Accept(r) \/ Identify(r) \/ Handle(r) \/ Panic(r) \/ Recover(r) \/ Log(r) \/ Flush(r)

Next ==
    \/ MainStep \/ Signal \/ Deadline \/ ListenerStep
    \/ \E r \in Requests : (\E i \in Ids \cup {NoId} : Arrive(r, i)) \/ RequestStep(r)

\* main runs, its timer fires, and the accept loop sees the listener closed.
\* Nothing is asked of the handlers, or of the bind.
Spec ==
    /\ Init /\ [][Next]_vars
    /\ WF_vars(MainStep) /\ WF_vars(Deadline) /\ WF_vars(ServerClosed)

-----------------------------------------------------------------------------
(* Properties.                                                             *)

\* Every variable keeps its type, and main waits only once it has started the
\* listener's goroutine.
TypeOK ==
    /\ main \in {"init", "started", "wait", "drain", "end"}
    /\ listener \in {"none", "starting", "binding", "accepting", "closed", "failed"}
    /\ exit \in {"no", "0", "1", "killed"}
    /\ stop \in BOOLEAN /\ late \in BOOLEAN
    /\ repo \in {"none", "memory", "pool", "closed"}
    /\ stage \in [Requests -> {"none", "connected", "arrived", "named", "written",
                               "panicked", "logged", "done", "cut"}]
    /\ sent \in [Requests -> Ids \cup {NoId}]
    /\ recorded \in [Requests -> Statuses]
    /\ recovered \subseteq Requests
    /\ main \in {"drain", "wait"} => listener # "none"

\* A request that was read is cut only if its handler outlived the drain, the
\* signal came before main listened for signals, or ListenAndServe had failed:
\* a signal under load loses nothing, and neither does a panic.
CutOnlyWhen ==
    \A r \in Requests :
        stage[r] = "cut" => late \/ exit = "killed" \/ listener = "failed"

\* If, at any moment of a drain, the listener is neither being bound nor failed
\* already, the process ends with status 0, if it ends: whatever Accept and
\* ListenAndServe then return is ErrServerClosed, which main.go tells apart.
\* (A bind that fails during the drain, or an error that was returned just
\* before it, still reaches os.Exit(1).)
DrainEndsWell ==
    []((main = "drain" /\ listener \notin {"binding", "failed"})
           => [](exit \in {"no", "0"}))

\* Nobody is served before the repository is ready, migrations included.
ReadyFirst == \A r \in Requests : stage[r] # "none" => repo # "none"

\* The access log can be trusted.  Every request that is answered has its line,
\* with the interaction id its caller was told: the caller's own if there was
\* one, else the one minted.  Its status is the one on the wire, unless the log
\* also tells of a panic; then it is 500, even if a panic in the middle of the
\* answer came too late to change what the caller was sent.
LogTruthful ==
    \A r \in Requests :
        stage[r] \in {"logged", "done"} =>
            /\ wire[r].id = IF sent[r] = NoId THEN Minted[r] ELSE sent[r]
            /\ logged[r].id = wire[r].id
            /\ logged[r].status = IF r \in recovered THEN 500 ELSE wire[r].status

\* A signal ends the process, even if a handler never returns.
SignalEnds == stop ~> exit # "no"

\* What pkg/pg says of Connect: the pool "should be closed on shutdown".
PoolClosedOnShutdown == exit = "0" => repo # "pool"

=============================================================================
