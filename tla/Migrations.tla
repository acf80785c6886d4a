----------------------------- MODULE Migrations -----------------------------
(***************************************************************************)
(* RunMigrations of pkg/pg/pg.go, as the replicas of the accounts service  *)
(* run it at their start (newRepository of main.go) against one database,  *)
(* all at once, of different versions, failing and crashing at any point.  *)
(*                                                                         *)
(* A file is its place in the lexical order.  pc[r] is the statement       *)
(* replica r is about to run:                                              *)
(*   "down"    not running      "connect"  pg.Connect                      *)
(*   "table"   CREATE TABLE IF NOT EXISTS <service>_schema_migrations      *)
(*   "creating" the same, past the look whether the table exists           *)
(*   "check"   SELECT EXISTS for the first file of todo[r]                 *)
(*   "begin"   ReadFile, Begin  "body"     Exec of the file                *)
(*   "record"  INSERT filename  "commit"   Commit, not sent yet            *)
(*   "sent"    Commit on its way           "landed"  its answer on its way *)
(*   "serving" RunMigrations returned nil                                  *)
(*                                                                         *)
(* The database is Postgres at READ COMMITTED: an INSERT of a filename     *)
(* waits for a transaction that has inserted the same one, and fails on    *)
(* the primary key if that one commits.  A transaction whose replica is    *)
(* gone is an orphan until the server notices; if its COMMIT was on the    *)
(* way it may still land.                                                  *)
(***************************************************************************)
EXTENDS Integers, FiniteSets

CONSTANTS
    Replicas,
    Files,     \* the *.sql files of the newest version, as places in the order
    Embedded,  \* Embedded[r]: the files in r's binary
    MaxFaults  \* bound on failures and crashes, all replicas together

VARIABLES
    table,    \* the bookkeeping table exists
    recorded, \* the filenames committed to it
    applied,  \* applied[f]: how often the effects of f have been committed
    orphans,  \* transactions with an uncommitted INSERT and no replica
    pc, todo, file, faults

vars == <<table, recorded, applied, orphans, pc, todo, file, faults>>

NoFile == -1

ASSUME FilesAssumption ==
    /\ Files \subseteq Nat
    /\ Embedded \in [Replicas -> SUBSET Files]
    \* versions only append files to the order
    /\ \A r \in Replicas : \A f \in Embedded[r], g \in Files :
          g < f => g \in Embedded[r]
    /\ MaxFaults \in Nat

PCs == {"down", "connect", "table", "creating", "check", "begin", "body", "record",
        "commit", "sent", "landed", "serving"}

Orphan == [file : Files, committing : BOOLEAN]

\* Faulty: the directory's order is taken as it comes.
AnyOf(f, S) == f \in S

First(f, S) == f \in S /\ \A g \in S : f <= g

\* r's open transaction has inserted its filename.
Inserted(r) == pc[r] \in {"commit", "sent"}

\* Some transaction other than r's has an uncommitted row for f.
Locked(r, f) ==
    \/ \E q \in Replicas \ {r} : Inserted(q) /\ file[q] = f
    \/ \E o \in orphans : o.file = f

-----------------------------------------------------------------------------
Init ==
    /\ table = FALSE
    /\ recorded = {}
    /\ applied = [f \in Files |-> 0]
    /\ orphans = {}
    /\ pc = [r \in Replicas |-> "down"]
    /\ todo = [r \in Replicas |-> {}]
    /\ file = [r \in Replicas |-> NoFile]
    /\ faults = 0

Goto(r, from, to) ==
    /\ pc[r] = from
    /\ pc' = [pc EXCEPT ![r] = to]

db == <<table, recorded, applied, orphans>>

\* The orchestrator starts the replica.
Start(r) ==
    /\ Goto(r, "down", "connect")
    /\ UNCHANGED <<db, todo, file, faults>>

Connect(r) ==
    /\ Goto(r, "connect", "table")
    /\ UNCHANGED <<db, todo, file, faults>>

\* IF NOT EXISTS looks without a lock: several replicas may find no table.
TableMissing(r) ==
    /\ ~table
    /\ Goto(r, "table", "creating")
    /\ UNCHANGED <<db, todo, file, faults>>

\* Another replica was faster: unique violation in the catalogue, os.Exit(1).
CreateTableFails(r) ==
    /\ table
    /\ Goto(r, "creating", "down")
    /\ UNCHANGED <<db, todo, file, faults>>

TableThere(r) ==
    /\ table' = TRUE
    /\ \/ table /\ Goto(r, "table", "check")
       \/ ~table /\ Goto(r, "creating", "check")

\* Faulty: every entry of the directory is taken for a migration.
CreateTableAllEntries(r) ==
    /\ TableThere(r)
    /\ todo' = [todo EXCEPT ![r] = Embedded[r] \cup {NoFile}]
    /\ UNCHANGED <<recorded, applied, orphans, file, faults>>

\* Creates the table if need be, and lists the files.
CreateTable(r) ==
    /\ TableThere(r)
    /\ todo' = [todo EXCEPT ![r] = Embedded[r]]
    /\ UNCHANGED <<recorded, applied, orphans, file, faults>>

Done(r) ==
    /\ todo[r] = {}
    /\ Goto(r, "check", "serving")
    /\ UNCHANGED <<db, todo, file, faults>>

Exists(r) ==
    \E f \in todo[r] :
        /\ First(f, todo[r])
        /\ f \in recorded
        /\ Goto(r, "check", "check")
        /\ todo' = [todo EXCEPT ![r] = @ \ {f}]
        /\ UNCHANGED <<db, file, faults>>

\* Faulty: the file is run again whatever the table says.
NotExistsUnchecked(r) ==
    \E f \in todo[r] :
        /\ First(f, todo[r])
        /\ Goto(r, "check", "begin")
        /\ file' = [file EXCEPT ![r] = f]
        /\ UNCHANGED <<db, todo, faults>>

NotExists(r) ==
    \E f \in todo[r] :
        /\ First(f, todo[r])
        /\ f \notin recorded
        /\ Goto(r, "check", "begin")
        /\ file' = [file EXCEPT ![r] = f]
        /\ UNCHANGED <<db, todo, faults>>

Begin(r) ==
    /\ Goto(r, "begin", "body")
    /\ UNCHANGED <<db, todo, file, faults>>

\* The effects stay in the transaction.
ExecBody(r) ==
    /\ Goto(r, "body", "record")
    /\ UNCHANGED <<db, todo, file, faults>>

\* The file creates what another replica's transaction of the same file has
\* created meanwhile: Rollback, os.Exit(1).
ExecBodyConflicts(r) ==
    /\ file[r] \in recorded
    /\ Goto(r, "body", "down")
    /\ UNCHANGED <<db, todo, file, faults>>

\* Faulty: INSERT ... ON CONFLICT DO NOTHING.
RecordDoNothing(r) ==
    /\ ~Locked(r, file[r])
    /\ Goto(r, "record", "commit")
    /\ UNCHANGED <<db, todo, file, faults>>

Record(r) ==
    /\ ~Locked(r, file[r])
    /\ file[r] \notin recorded
    /\ Goto(r, "record", "commit")
    /\ UNCHANGED <<db, todo, file, faults>>

\* Another replica was faster: primary key violation, Rollback, os.Exit(1).
RecordFails(r) ==
    /\ ~Locked(r, file[r])
    /\ file[r] \in recorded
    /\ Goto(r, "record", "down")
    /\ UNCHANGED <<db, todo, file, faults>>

SendCommit(r) ==
    /\ Goto(r, "commit", "sent")
    /\ UNCHANGED <<db, todo, file, faults>>

\* What a commit of the transaction of f does.
Committed(f) ==
    /\ recorded' = recorded \cup {f}
    /\ applied' = [applied EXCEPT ![f] = @ + 1]

CommitLands(r) ==
    /\ Goto(r, "sent", "landed")
    /\ Committed(file[r])
    /\ UNCHANGED <<table, orphans, todo, file, faults>>

NextFile(r) ==
    /\ Goto(r, "landed", "check")
    /\ todo' = [todo EXCEPT ![r] = @ \ {file[r]}]
    /\ UNCHANGED <<db, file, faults>>

-----------------------------------------------------------------------------
(* Failures.                                                               *)

\* Faulty: newRepository logs the error of RunMigrations and goes on.
FailIgnored(r) ==
    /\ faults < MaxFaults /\ faults' = faults + 1
    /\ pc[r] \in {"table", "creating", "check", "begin", "body", "record", "commit"}
    /\ pc' = [pc EXCEPT ![r] = "serving"]
    /\ UNCHANGED <<db, todo, file>>

\* A statement returns an error; what is open is rolled back, RunMigrations
\* returns, main exits.
Fail(r) ==
    /\ faults < MaxFaults /\ faults' = faults + 1
    /\ pc[r] \in {"connect", "table", "creating", "check", "begin", "body", "record", "commit"}
    /\ pc' = [pc EXCEPT ![r] = "down"]
    /\ UNCHANGED <<db, todo, file>>

\* The replica is killed, or the connection breaks under it, the COMMIT on its
\* way or its answer included.
Crash(r) ==
    /\ faults < MaxFaults /\ faults' = faults + 1
    /\ pc[r] # "down"
    /\ pc' = [pc EXCEPT ![r] = "down"]
    /\ orphans' = orphans \cup
           {o \in Orphan : /\ Inserted(r) /\ o.file = file[r]
                           /\ o.committing = (pc[r] = "sent")}
    /\ UNCHANGED <<table, recorded, applied, todo, file>>

OrphanEnds(o) ==
    /\ orphans' = orphans \ {o}
    /\ \/ UNCHANGED <<recorded, applied>>
       \/ o.committing /\ Committed(o.file)
    /\ UNCHANGED <<table, pc, todo, file, faults>>

-----------------------------------------------------------------------------
ReplicaStep(r) ==
    \/ Start(r) \/ Connect(r) \/ TableMissing(r) \/ CreateTable(r)
    \/ CreateTableFails(r) \/ Done(r) \/ Exists(r) \/ NotExists(r) \/ Begin(r)
    \/ ExecBody(r) \/ ExecBodyConflicts(r) \/ Record(r) \/ RecordFails(r)
    \/ SendCommit(r) \/ CommitLands(r) \/ NextFile(r)

Next ==
    \/ \E r \in Replicas : ReplicaStep(r) \/ Fail(r) \/ Crash(r)
    \/ \E o \in orphans : OrphanEnds(o)

\* Replicas that exit are started again, statements end, and the server
\* notices a dead session.
Fairness ==
    /\ \A r \in Replicas : WF_vars(ReplicaStep(r))
    /\ WF_vars(\E o \in orphans : OrphanEnds(o))

Spec == Init /\ [][Next]_vars /\ Fairness

-----------------------------------------------------------------------------
(* Properties.                                                             *)

\* Every variable keeps its type.
TypeOK ==
    /\ table \in BOOLEAN
    /\ recorded \in SUBSET Files
    /\ applied \in [Files -> Nat]
    /\ orphans \in SUBSET Orphan
    /\ pc \in [Replicas -> PCs]
    /\ todo \in [Replicas -> SUBSET Files]
    /\ file \in [Replicas -> Files \cup {NoFile}]
    /\ faults \in Nat

\* "exactly once": a file's effects are committed together with its record and
\* never again, however many replicas found it missing and ran it.
ExactlyOnce ==
    \A f \in Files : applied[f] = IF f \in recorded THEN 1 ELSE 0

\* "in lexical order": no file is applied before an earlier one, whichever
\* replicas of whichever versions apply them.
NoGap ==
    \A f \in recorded, g \in Files : g < f => g \in recorded

\* A replica serves only on a schema that has every file it was built with.
ServesComplete ==
    \A r \in Replicas : pc[r] = "serving" => Embedded[r] \subseteq recorded

\* Replicas that lose the race for a file, fail or crash come up in the end.
AllServe == \A r \in Replicas : <>[](pc[r] = "serving")

=============================================================================
