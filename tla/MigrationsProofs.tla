-------------------------- MODULE MigrationsProofs --------------------------
(***************************************************************************)
(* Safety of RunMigrations for any number of replicas, versions, files,    *)
(* failures and crashes.                                                   *)
(*                                                                         *)
(* ExactlyOnce is not inductive: that a commit is the first of its file    *)
(* follows from Locks, that at most one transaction, with a replica or     *)
(* without, has an uncommitted record of a file, and none once the file is *)
(* recorded.  NoGap needs Progress: what a replica has put behind it is    *)
(* recorded.                                                               *)
(***************************************************************************)
EXTENDS Migrations, TLAPS

InFile  == {"begin", "body", "record", "commit", "sent", "landed"}
Running == InFile \cup {"check", "serving"}

ProgressOf(r) ==
    /\ pc[r] \in Running => /\ todo[r] \subseteq Embedded[r]
                            /\ Embedded[r] \ todo[r] \subseteq recorded
    /\ pc[r] \in InFile => First(file[r], todo[r])
    /\ pc[r] = "landed" => file[r] \in recorded
    /\ pc[r] = "serving" => todo[r] = {}

Progress == \A r \in Replicas : ProgressOf(r)

Locks ==
    /\ \A r \in Replicas : Inserted(r) =>
          file[r] \notin recorded /\ ~Locked(r, file[r])
    /\ \A o \in orphans :
          /\ o.file \notin recorded
          /\ \A g \in Files : g < o.file => g \in recorded
          /\ \A p \in orphans : p.file = o.file => p = o

IInv == TypeOK /\ ExactlyOnce /\ NoGap /\ Progress /\ Locks


\* The invariant holds of an empty database with no replica running.
THEOREM InitIInv == Init => IInv
<1> SUFFICES ASSUME Init PROVE IInv
  OBVIOUS
<1>1. TypeOK
  BY DEF Init, TypeOK, PCs
<1>2. ExactlyOnce /\ NoGap
  BY <1>1 DEF Init, ExactlyOnce, NoGap
<1>3. Progress /\ Locks
  BY <1>1 DEF Init, Progress, ProgressOf, Locks, Running, InFile, Inserted
<1> QED
  BY <1>1, <1>2, <1>3 DEF IInv

\* The commit of a file keeps the types of what is recorded and applied.
LEMMA CommittedType ==
    ASSUME TypeOK, NEW f \in Files, Committed(f)
    PROVE  recorded' \in SUBSET Files /\ applied' \in [Files -> Nat]
  BY DEF TypeOK, Committed

\* No statement of RunMigrations and nothing that befalls one breaks a type.
LEMMA StepTypeOK ==
    ASSUME IInv, [Next]_vars
    PROVE  TypeOK'
<1>0. TypeOK /\ Progress /\ FilesAssumption
  BY FilesAssumption DEF IInv
<1> USE DEF db, Goto, PCs
<1>1. ASSUME NEW r \in Replicas, Start(r)
      PROVE  TypeOK'
  BY <1>0, <1>1 DEF Start, TypeOK
<1>2. ASSUME NEW r \in Replicas, Connect(r)
      PROVE  TypeOK'
  BY <1>0, <1>2 DEF Connect, TypeOK
<1>3. ASSUME NEW r \in Replicas, CreateTable(r)
      PROVE  TypeOK'
  BY <1>0, <1>3 DEF CreateTable, TableThere, TypeOK, FilesAssumption
<1>4. ASSUME NEW r \in Replicas, Done(r)
      PROVE  TypeOK'
  BY <1>0, <1>4 DEF Done, TypeOK
<1>5. ASSUME NEW r \in Replicas, Exists(r)
      PROVE  TypeOK'
  BY <1>0, <1>5 DEF Exists, TypeOK
<1>6. ASSUME NEW r \in Replicas, NotExists(r)
      PROVE  TypeOK'
  BY <1>0, <1>6 DEF NotExists, TypeOK
<1>7. ASSUME NEW r \in Replicas, Begin(r)
      PROVE  TypeOK'
  BY <1>0, <1>7 DEF Begin, TypeOK
<1>8. ASSUME NEW r \in Replicas, ExecBody(r)
      PROVE  TypeOK'
  BY <1>0, <1>8 DEF ExecBody, TypeOK
<1>9. ASSUME NEW r \in Replicas, Record(r)
      PROVE  TypeOK'
  BY <1>0, <1>9 DEF Record, TypeOK
<1>10. ASSUME NEW r \in Replicas, RecordFails(r)
      PROVE  TypeOK'
  BY <1>0, <1>10 DEF RecordFails, TypeOK
<1>11. ASSUME NEW r \in Replicas, SendCommit(r)
      PROVE  TypeOK'
  BY <1>0, <1>11 DEF SendCommit, TypeOK
<1>12. ASSUME NEW r \in Replicas, CommitLands(r)
      PROVE  TypeOK'
  <2>1. file[r] \in Files
    BY <1>0, <1>12 DEF CommitLands, TypeOK, Progress, ProgressOf, InFile, Running, First
  <2>2. recorded' \in SUBSET Files /\ applied' \in [Files -> Nat]
    BY <1>0, <1>12, <2>1, CommittedType DEF CommitLands
  <2> QED
    BY <1>0, <1>12, <2>2 DEF CommitLands, TypeOK
<1>13. ASSUME NEW r \in Replicas, NextFile(r)
      PROVE  TypeOK'
  BY <1>0, <1>13 DEF NextFile, TypeOK
<1>14. ASSUME NEW r \in Replicas, Fail(r)
      PROVE  TypeOK'
  BY <1>0, <1>14 DEF Fail, TypeOK
<1>15. ASSUME NEW r \in Replicas, Crash(r)
      PROVE  TypeOK'
  BY <1>0, <1>15 DEF Crash, TypeOK, Orphan
<1>16. ASSUME NEW o \in orphans, OrphanEnds(o)
      PROVE  TypeOK'
  <2>1. o.file \in Files
    BY <1>0 DEF TypeOK, Orphan
  <2>2. recorded' \in SUBSET Files /\ applied' \in [Files -> Nat]
    BY <1>0, <1>16, <2>1, CommittedType DEF OrphanEnds, TypeOK
  <2> QED
    BY <1>0, <1>16, <2>2 DEF OrphanEnds, TypeOK
<1>17. ASSUME NEW r \in Replicas, TableMissing(r)
      PROVE  TypeOK'
  BY <1>0, <1>17 DEF TableMissing, TypeOK
<1>18. ASSUME NEW r \in Replicas, CreateTableFails(r)
      PROVE  TypeOK'
  BY <1>0, <1>18 DEF CreateTableFails, TypeOK
<1>19. ASSUME NEW r \in Replicas, ExecBodyConflicts(r)
      PROVE  TypeOK'
  BY <1>0, <1>19 DEF ExecBodyConflicts, TypeOK
<1>20. CASE UNCHANGED vars
  BY <1>0, <1>20 DEF vars, TypeOK
<1> QED
  BY <1>1, <1>2, <1>3, <1>4, <1>5, <1>6, <1>7, <1>8, <1>9, <1>10, <1>11, <1>12,
     <1>13, <1>14, <1>15, <1>16, <1>17, <1>18, <1>19, <1>20
     DEF Next, ReplicaStep

(***************************************************************************)
(* A file whose transaction can still commit is the next one to record.    *)
(***************************************************************************)
IsNext(f) == /\ f \in Files
            /\ f \notin recorded
            /\ \A g \in Files : g < f => g \in recorded

\* The file a replica has inserted its record of is the next that is missing.
LEMMA InsertedIsNext ==
    ASSUME IInv, NEW r \in Replicas, Inserted(r)
    PROVE  IsNext(file[r])
<1>1. pc[r] \in InFile /\ pc[r] \in Running
  BY DEF Inserted, InFile, Running
<1>2. First(file[r], todo[r]) /\ todo[r] \subseteq Embedded[r]
      /\ Embedded[r] \ todo[r] \subseteq recorded
  BY <1>1 DEF IInv, Progress, ProgressOf
<1>3. file[r] \in Embedded[r] /\ Embedded[r] \subseteq Files
  BY <1>2, FilesAssumption DEF First
<1>4. \A g \in Files : g < file[r] => g \in Embedded[r]
  BY <1>3, FilesAssumption
<1>5. \A g \in Files : g < file[r] => g \notin todo[r]
  <2>1. \A g \in todo[r] : file[r] <= g
    BY <1>2 DEF First
  <2>2. \A i, j \in Nat : i < j => ~(j <= i)
    OBVIOUS
  <2>3. file[r] \in Nat /\ Files \subseteq Nat
    BY <1>3, FilesAssumption
  <2> QED
    BY <2>1, <2>2, <2>3
<1>6. file[r] \notin recorded
  BY DEF IInv, Locks
<1>7. file[r] \in Files
  BY <1>3
<1> QED
  BY <1>2, <1>4, <1>5, <1>6, <1>7 DEF IsNext

\* So is the file of a transaction whose client died.
LEMMA OrphanIsNext ==
    ASSUME IInv, NEW o \in orphans
    PROVE  IsNext(o.file)
  BY DEF IInv, Locks, IsNext, TypeOK, Orphan

(***************************************************************************)
(* A step commits nothing, or the next file.                               *)
(***************************************************************************)
LEMMA WhatCommits ==
    ASSUME IInv, [Next]_vars
    PROVE  \/ UNCHANGED <<recorded, applied>>
           \/ \E f \in Files : IsNext(f) /\ Committed(f)
<1> USE DEF db, Goto
<1>1. ASSUME NEW r \in Replicas, Start(r)
      PROVE  UNCHANGED <<recorded, applied>>
  BY <1>1 DEF Start
<1>2. ASSUME NEW r \in Replicas, Connect(r)
      PROVE  UNCHANGED <<recorded, applied>>
  BY <1>2 DEF Connect
<1>3. ASSUME NEW r \in Replicas, CreateTable(r)
      PROVE  UNCHANGED <<recorded, applied>>
  BY <1>3 DEF CreateTable, TableThere
<1>4. ASSUME NEW r \in Replicas, Done(r)
      PROVE  UNCHANGED <<recorded, applied>>
  BY <1>4 DEF Done
<1>5. ASSUME NEW r \in Replicas, Exists(r)
      PROVE  UNCHANGED <<recorded, applied>>
  BY <1>5 DEF Exists
<1>6. ASSUME NEW r \in Replicas, NotExists(r)
      PROVE  UNCHANGED <<recorded, applied>>
  BY <1>6 DEF NotExists
<1>7. ASSUME NEW r \in Replicas, Begin(r)
      PROVE  UNCHANGED <<recorded, applied>>
  BY <1>7 DEF Begin
<1>8. ASSUME NEW r \in Replicas, ExecBody(r)
      PROVE  UNCHANGED <<recorded, applied>>
  BY <1>8 DEF ExecBody
<1>9. ASSUME NEW r \in Replicas, Record(r)
      PROVE  UNCHANGED <<recorded, applied>>
  BY <1>9 DEF Record
<1>10. ASSUME NEW r \in Replicas, RecordFails(r)
      PROVE  UNCHANGED <<recorded, applied>>
  BY <1>10 DEF RecordFails
<1>11. ASSUME NEW r \in Replicas, SendCommit(r)
      PROVE  UNCHANGED <<recorded, applied>>
  BY <1>11 DEF SendCommit
<1>12. ASSUME NEW r \in Replicas, CommitLands(r)
      PROVE  \E f \in Files : IsNext(f) /\ Committed(f)
  <2>1. IsNext(file[r])
    BY <1>12, InsertedIsNext DEF CommitLands, Inserted
  <2> QED
    BY <1>12, <2>1 DEF CommitLands, IsNext
<1>13. ASSUME NEW r \in Replicas, NextFile(r)
      PROVE  UNCHANGED <<recorded, applied>>
  BY <1>13 DEF NextFile
<1>14. ASSUME NEW r \in Replicas, Fail(r)
      PROVE  UNCHANGED <<recorded, applied>>
  BY <1>14 DEF Fail
<1>15. ASSUME NEW r \in Replicas, Crash(r)
      PROVE  UNCHANGED <<recorded, applied>>
  BY <1>15 DEF Crash
<1>16. ASSUME NEW o \in orphans, OrphanEnds(o)
      PROVE  \/ UNCHANGED <<recorded, applied>>
             \/ \E f \in Files : IsNext(f) /\ Committed(f)
  <2>1. IsNext(o.file)
    BY OrphanIsNext
  <2> QED
    BY <1>16, <2>1 DEF OrphanEnds, IsNext
<1>17. ASSUME NEW r \in Replicas, TableMissing(r)
      PROVE  UNCHANGED <<recorded, applied>>
  BY <1>17 DEF TableMissing
<1>18. ASSUME NEW r \in Replicas, CreateTableFails(r)
      PROVE  UNCHANGED <<recorded, applied>>
  BY <1>18 DEF CreateTableFails
<1>19. ASSUME NEW r \in Replicas, ExecBodyConflicts(r)
      PROVE  UNCHANGED <<recorded, applied>>
  BY <1>19 DEF ExecBodyConflicts
<1>20. CASE UNCHANGED vars
  BY <1>20 DEF vars
<1> QED
  BY <1>1, <1>2, <1>3, <1>4, <1>5, <1>6, <1>7, <1>8, <1>9, <1>10, <1>11, <1>12,
     <1>13, <1>14, <1>15, <1>16, <1>17, <1>18, <1>19, <1>20
     DEF Next, ReplicaStep

\* No step makes a file take effect a second time, or without its record.
LEMMA StepExactlyOnce ==
    ASSUME IInv, [Next]_vars
    PROVE  ExactlyOnce'
<1>1. CASE UNCHANGED <<recorded, applied>>
  BY <1>1 DEF IInv, ExactlyOnce
<1>2. ASSUME NEW f \in Files, IsNext(f), Committed(f)
      PROVE  ExactlyOnce'
  <2>1. ASSUME NEW g \in Files
        PROVE  applied'[g] = IF g = f THEN applied[g] + 1 ELSE applied[g]
    BY <1>2 DEF Committed, IInv, TypeOK
  <2>2. recorded' = recorded \cup {f} /\ f \notin recorded
    BY <1>2 DEF Committed, IsNext
  <2> QED
    BY <2>1, <2>2 DEF IInv, ExactlyOnce
<1> QED
  BY <1>1, <1>2, WhatCommits

\* No step records a file before an earlier one.
LEMMA StepNoGap ==
    ASSUME IInv, [Next]_vars
    PROVE  NoGap'
<1>1. CASE UNCHANGED <<recorded, applied>>
  BY <1>1 DEF IInv, NoGap
<1>2. ASSUME NEW f \in Files, IsNext(f), Committed(f)
      PROVE  NoGap'
  BY <1>2 DEF IInv, NoGap, IsNext, Committed
<1> QED
  BY <1>1, <1>2, WhatCommits

\* What is recorded stays recorded.
LEMMA RecordedGrows ==
    ASSUME IInv, [Next]_vars
    PROVE  recorded \subseteq recorded'
  BY WhatCommits DEF Committed

\* No step makes a replica pass over a file that is not recorded.
LEMMA StepProgress ==
    ASSUME IInv, [Next]_vars
    PROVE  Progress'
<1>0. TypeOK /\ Progress /\ recorded \subseteq recorded'
  BY RecordedGrows DEF IInv
<1>a. ASSUME NEW s \in Replicas,
             pc'[s] = pc[s], todo'[s] = todo[s], file'[s] = file[s]
      PROVE  ProgressOf(s)'
  BY <1>0, <1>a DEF Progress, ProgressOf, First
<1>b. ASSUME NEW s \in Replicas, pc'[s] \notin Running
      PROVE  ProgressOf(s)'
  BY <1>b DEF ProgressOf, Running, InFile
<1> USE DEF db, Goto
<1>1. ASSUME NEW r \in Replicas, Start(r)
      PROVE  Progress'
  <2>1. \A s \in Replicas \ {r} :
           pc'[s] = pc[s] /\ todo'[s] = todo[s] /\ file'[s] = file[s]
    BY <1>0, <1>1 DEF Start, TypeOK
  <2>2. pc'[r] \notin Running
    BY <1>0, <1>1 DEF Start, TypeOK, Running, InFile
  <2>3. ProgressOf(r)'
    BY <2>2, <1>b
  <2> QED
    BY <2>1, <2>3, <1>a DEF Progress
<1>2. ASSUME NEW r \in Replicas, Connect(r)
      PROVE  Progress'
  <2>1. \A s \in Replicas \ {r} :
           pc'[s] = pc[s] /\ todo'[s] = todo[s] /\ file'[s] = file[s]
    BY <1>0, <1>2 DEF Connect, TypeOK
  <2>2. pc'[r] \notin Running
    BY <1>0, <1>2 DEF Connect, TypeOK, Running, InFile
  <2>3. ProgressOf(r)'
    BY <2>2, <1>b
  <2> QED
    BY <2>1, <2>3, <1>a DEF Progress
<1>3. ASSUME NEW r \in Replicas, CreateTable(r)
      PROVE  Progress'
  <2>1. \A s \in Replicas \ {r} :
           pc'[s] = pc[s] /\ todo'[s] = todo[s] /\ file'[s] = file[s]
    BY <1>0, <1>3 DEF CreateTable, TableThere, TypeOK
  <2>2. ProgressOf(r)
    BY <1>0 DEF Progress
  <2>3. ProgressOf(r)'
    BY <1>0, <1>3, <2>2, FilesAssumption
       DEF CreateTable, TableThere, TypeOK, ProgressOf, First, Running, InFile
  <2> QED
    BY <2>1, <2>3, <1>a DEF Progress
<1>4. ASSUME NEW r \in Replicas, Done(r)
      PROVE  Progress'
  <2>1. \A s \in Replicas \ {r} :
           pc'[s] = pc[s] /\ todo'[s] = todo[s] /\ file'[s] = file[s]
    BY <1>0, <1>4 DEF Done, TypeOK
  <2>2. ProgressOf(r)
    BY <1>0 DEF Progress
  <2>3. ProgressOf(r)'
    BY <1>0, <1>4, <2>2 DEF Done, TypeOK, ProgressOf, First, Running, InFile
  <2> QED
    BY <2>1, <2>3, <1>a DEF Progress
<1>5. ASSUME NEW r \in Replicas, Exists(r)
      PROVE  Progress'
  <2>1. \A s \in Replicas \ {r} :
           pc'[s] = pc[s] /\ todo'[s] = todo[s] /\ file'[s] = file[s]
    BY <1>0, <1>5 DEF Exists, TypeOK
  <2>2. ProgressOf(r)
    BY <1>0 DEF Progress
  <2>3. ProgressOf(r)'
    BY <1>0, <1>5, <2>2 DEF Exists, TypeOK, ProgressOf, First, Running, InFile
  <2> QED
    BY <2>1, <2>3, <1>a DEF Progress
<1>6. ASSUME NEW r \in Replicas, NotExists(r)
      PROVE  Progress'
  <2>1. \A s \in Replicas \ {r} :
           pc'[s] = pc[s] /\ todo'[s] = todo[s] /\ file'[s] = file[s]
    BY <1>0, <1>6 DEF NotExists, TypeOK
  <2>2. ProgressOf(r)
    BY <1>0 DEF Progress
  <2>3. ProgressOf(r)'
    BY <1>0, <1>6, <2>2 DEF NotExists, TypeOK, ProgressOf, First, Running, InFile
  <2> QED
    BY <2>1, <2>3, <1>a DEF Progress
<1>7. ASSUME NEW r \in Replicas, Begin(r)
      PROVE  Progress'
  <2>1. \A s \in Replicas \ {r} :
           pc'[s] = pc[s] /\ todo'[s] = todo[s] /\ file'[s] = file[s]
    BY <1>0, <1>7 DEF Begin, TypeOK
  <2>2. ProgressOf(r)
    BY <1>0 DEF Progress
  <2>3. ProgressOf(r)'
    BY <1>0, <1>7, <2>2 DEF Begin, TypeOK, ProgressOf, First, Running, InFile
  <2> QED
    BY <2>1, <2>3, <1>a DEF Progress
<1>8. ASSUME NEW r \in Replicas, ExecBody(r)
      PROVE  Progress'
  <2>1. \A s \in Replicas \ {r} :
           pc'[s] = pc[s] /\ todo'[s] = todo[s] /\ file'[s] = file[s]
    BY <1>0, <1>8 DEF ExecBody, TypeOK
  <2>2. ProgressOf(r)
    BY <1>0 DEF Progress
  <2>3. ProgressOf(r)'
    BY <1>0, <1>8, <2>2 DEF ExecBody, TypeOK, ProgressOf, First, Running, InFile
  <2> QED
    BY <2>1, <2>3, <1>a DEF Progress
<1>9. ASSUME NEW r \in Replicas, Record(r)
      PROVE  Progress'
  <2>1. \A s \in Replicas \ {r} :
           pc'[s] = pc[s] /\ todo'[s] = todo[s] /\ file'[s] = file[s]
    BY <1>0, <1>9 DEF Record, TypeOK
  <2>2. ProgressOf(r)
    BY <1>0 DEF Progress
  <2>3. ProgressOf(r)'
    BY <1>0, <1>9, <2>2 DEF Record, TypeOK, ProgressOf, First, Running, InFile
  <2> QED
    BY <2>1, <2>3, <1>a DEF Progress
<1>10. ASSUME NEW r \in Replicas, RecordFails(r)
      PROVE  Progress'
  <2>1. \A s \in Replicas \ {r} :
           pc'[s] = pc[s] /\ todo'[s] = todo[s] /\ file'[s] = file[s]
    BY <1>0, <1>10 DEF RecordFails, TypeOK
  <2>2. pc'[r] \notin Running
    BY <1>0, <1>10 DEF RecordFails, TypeOK, Running, InFile
  <2>3. ProgressOf(r)'
    BY <2>2, <1>b
  <2> QED
    BY <2>1, <2>3, <1>a DEF Progress
<1>11. ASSUME NEW r \in Replicas, SendCommit(r)
      PROVE  Progress'
  <2>1. \A s \in Replicas \ {r} :
           pc'[s] = pc[s] /\ todo'[s] = todo[s] /\ file'[s] = file[s]
    BY <1>0, <1>11 DEF SendCommit, TypeOK
  <2>2. ProgressOf(r)
    BY <1>0 DEF Progress
  <2>3. ProgressOf(r)'
    BY <1>0, <1>11, <2>2 DEF SendCommit, TypeOK, ProgressOf, First, Running, InFile
  <2> QED
    BY <2>1, <2>3, <1>a DEF Progress
<1>12. ASSUME NEW r \in Replicas, CommitLands(r)
      PROVE  Progress'
  <2>1. \A s \in Replicas \ {r} :
           pc'[s] = pc[s] /\ todo'[s] = todo[s] /\ file'[s] = file[s]
    BY <1>0, <1>12 DEF CommitLands, TypeOK
  <2>2. ProgressOf(r)
    BY <1>0 DEF Progress
  <2>3. ProgressOf(r)'
    BY <1>0, <1>12, <2>2
       DEF CommitLands, Committed, TypeOK, ProgressOf, First, Running, InFile
  <2> QED
    BY <2>1, <2>3, <1>a DEF Progress
<1>13. ASSUME NEW r \in Replicas, NextFile(r)
      PROVE  Progress'
  <2>1. \A s \in Replicas \ {r} :
           pc'[s] = pc[s] /\ todo'[s] = todo[s] /\ file'[s] = file[s]
    BY <1>0, <1>13 DEF NextFile, TypeOK
  <2>2. ProgressOf(r)
    BY <1>0 DEF Progress
  <2>3. ProgressOf(r)'
    BY <1>0, <1>13, <2>2 DEF NextFile, TypeOK, ProgressOf, First, Running, InFile
  <2> QED
    BY <2>1, <2>3, <1>a DEF Progress
<1>14. ASSUME NEW r \in Replicas, Fail(r)
      PROVE  Progress'
  <2>1. \A s \in Replicas \ {r} :
           pc'[s] = pc[s] /\ todo'[s] = todo[s] /\ file'[s] = file[s]
    BY <1>0, <1>14 DEF Fail, TypeOK
  <2>2. pc'[r] \notin Running
    BY <1>0, <1>14 DEF Fail, TypeOK, Running, InFile
  <2>3. ProgressOf(r)'
    BY <2>2, <1>b
  <2> QED
    BY <2>1, <2>3, <1>a DEF Progress
<1>15. ASSUME NEW r \in Replicas, Crash(r)
      PROVE  Progress'
  <2>1. \A s \in Replicas \ {r} :
           pc'[s] = pc[s] /\ todo'[s] = todo[s] /\ file'[s] = file[s]
    BY <1>0, <1>15 DEF Crash, TypeOK
  <2>2. pc'[r] \notin Running
    BY <1>0, <1>15 DEF Crash, TypeOK, Running, InFile
  <2>3. ProgressOf(r)'
    BY <2>2, <1>b
  <2> QED
    BY <2>1, <2>3, <1>a DEF Progress
<1>16. ASSUME NEW o \in orphans, OrphanEnds(o)
      PROVE  Progress'
  BY <1>16, <1>a DEF OrphanEnds, Progress
<1>17. ASSUME NEW r \in Replicas, TableMissing(r)
      PROVE  Progress'
  <2>1. \A s \in Replicas \ {r} :
           pc'[s] = pc[s] /\ todo'[s] = todo[s] /\ file'[s] = file[s]
    BY <1>0, <1>17 DEF TableMissing, TypeOK
  <2>2. pc'[r] \notin Running
    BY <1>0, <1>17 DEF TableMissing, TypeOK, Running, InFile
  <2>3. ProgressOf(r)'
    BY <2>2, <1>b
  <2> QED
    BY <2>1, <2>3, <1>a DEF Progress
<1>18. ASSUME NEW r \in Replicas, CreateTableFails(r)
      PROVE  Progress'
  <2>1. \A s \in Replicas \ {r} :
           pc'[s] = pc[s] /\ todo'[s] = todo[s] /\ file'[s] = file[s]
    BY <1>0, <1>18 DEF CreateTableFails, TypeOK
  <2>2. pc'[r] \notin Running
    BY <1>0, <1>18 DEF CreateTableFails, TypeOK, Running, InFile
  <2>3. ProgressOf(r)'
    BY <2>2, <1>b
  <2> QED
    BY <2>1, <2>3, <1>a DEF Progress
<1>19. ASSUME NEW r \in Replicas, ExecBodyConflicts(r)
      PROVE  Progress'
  <2>1. \A s \in Replicas \ {r} :
           pc'[s] = pc[s] /\ todo'[s] = todo[s] /\ file'[s] = file[s]
    BY <1>0, <1>19 DEF ExecBodyConflicts, TypeOK
  <2>2. pc'[r] \notin Running
    BY <1>0, <1>19 DEF ExecBodyConflicts, TypeOK, Running, InFile
  <2>3. ProgressOf(r)'
    BY <2>2, <1>b
  <2> QED
    BY <2>1, <2>3, <1>a DEF Progress
<1>20. CASE UNCHANGED vars
  BY <1>20, <1>a DEF vars, Progress
<1> QED
  BY <1>1, <1>2, <1>3, <1>4, <1>5, <1>6, <1>7, <1>8, <1>9, <1>10, <1>11, <1>12,
     <1>13, <1>14, <1>15, <1>16, <1>17, <1>18, <1>19, <1>20
     DEF Next, ReplicaStep


(***************************************************************************)
(* Steps that take no lock and record nothing keep Locks.                  *)
(***************************************************************************)
LEMMA QuietLocks ==
    ASSUME Locks, UNCHANGED <<recorded, orphans>>,
           \A q \in Replicas : Inserted(q)' => Inserted(q) /\ file'[q] = file[q]
    PROVE  Locks'
  BY DEF Locks, Locked

\* No step gives a file two uncommitted records, or one beside a committed one.
LEMMA StepLocks ==
    ASSUME IInv, [Next]_vars
    PROVE  Locks'
<1>0. TypeOK /\ Locks
  BY DEF IInv
<1> USE DEF db, Goto
<1>1. ASSUME NEW r \in Replicas, Start(r)
      PROVE  Locks'
  <2>1. \A q \in Replicas : Inserted(q)' => Inserted(q) /\ file'[q] = file[q]
    BY <1>0, <1>1 DEF Start, TypeOK, Inserted
  <2> QED
    BY <1>0, <1>1, <2>1, QuietLocks DEF Start
<1>2. ASSUME NEW r \in Replicas, Connect(r)
      PROVE  Locks'
  <2>1. \A q \in Replicas : Inserted(q)' => Inserted(q) /\ file'[q] = file[q]
    BY <1>0, <1>2 DEF Connect, TypeOK, Inserted
  <2> QED
    BY <1>0, <1>2, <2>1, QuietLocks DEF Connect
<1>3. ASSUME NEW r \in Replicas, CreateTable(r)
      PROVE  Locks'
  <2>1. \A q \in Replicas : Inserted(q)' => Inserted(q) /\ file'[q] = file[q]
    BY <1>0, <1>3 DEF CreateTable, TableThere, TypeOK, Inserted
  <2> QED
    BY <1>0, <1>3, <2>1, QuietLocks DEF CreateTable, TableThere
<1>4. ASSUME NEW r \in Replicas, Done(r)
      PROVE  Locks'
  <2>1. \A q \in Replicas : Inserted(q)' => Inserted(q) /\ file'[q] = file[q]
    BY <1>0, <1>4 DEF Done, TypeOK, Inserted
  <2> QED
    BY <1>0, <1>4, <2>1, QuietLocks DEF Done
<1>5. ASSUME NEW r \in Replicas, Exists(r)
      PROVE  Locks'
  <2>1. \A q \in Replicas : Inserted(q)' => Inserted(q) /\ file'[q] = file[q]
    BY <1>0, <1>5 DEF Exists, TypeOK, Inserted
  <2> QED
    BY <1>0, <1>5, <2>1, QuietLocks DEF Exists
<1>6. ASSUME NEW r \in Replicas, NotExists(r)
      PROVE  Locks'
  <2>1. \A q \in Replicas : Inserted(q)' => Inserted(q) /\ file'[q] = file[q]
    BY <1>0, <1>6 DEF NotExists, TypeOK, Inserted
  <2> QED
    BY <1>0, <1>6, <2>1, QuietLocks DEF NotExists
<1>7. ASSUME NEW r \in Replicas, Begin(r)
      PROVE  Locks'
  <2>1. \A q \in Replicas : Inserted(q)' => Inserted(q) /\ file'[q] = file[q]
    BY <1>0, <1>7 DEF Begin, TypeOK, Inserted
  <2> QED
    BY <1>0, <1>7, <2>1, QuietLocks DEF Begin
<1>8. ASSUME NEW r \in Replicas, ExecBody(r)
      PROVE  Locks'
  <2>1. \A q \in Replicas : Inserted(q)' => Inserted(q) /\ file'[q] = file[q]
    BY <1>0, <1>8 DEF ExecBody, TypeOK, Inserted
  <2> QED
    BY <1>0, <1>8, <2>1, QuietLocks DEF ExecBody
<1>9. ASSUME NEW r \in Replicas, Record(r)
      PROVE  Locks'
  <2>1. /\ UNCHANGED <<recorded, orphans, file>>
        /\ file[r] \notin recorded /\ ~Locked(r, file[r])
        /\ \A q \in Replicas : Inserted(q)' => Inserted(q) \/ q = r
    BY <1>0, <1>9 DEF Record, TypeOK, Inserted
  <2>2. ASSUME NEW q \in Replicas, Inserted(q)'
        PROVE  file[q] \notin recorded /\ ~Locked(q, file[q])'
    BY <1>0, <2>1, <2>2 DEF Locks, Locked
  <2> QED
    BY <1>0, <2>1, <2>2 DEF Locks
<1>10. ASSUME NEW r \in Replicas, RecordFails(r)
      PROVE  Locks'
  <2>1. \A q \in Replicas : Inserted(q)' => Inserted(q) /\ file'[q] = file[q]
    BY <1>0, <1>10 DEF RecordFails, TypeOK, Inserted
  <2> QED
    BY <1>0, <1>10, <2>1, QuietLocks DEF RecordFails
<1>11. ASSUME NEW r \in Replicas, SendCommit(r)
      PROVE  Locks'
  <2>1. \A q \in Replicas : Inserted(q)' => Inserted(q) /\ file'[q] = file[q]
    BY <1>0, <1>11 DEF SendCommit, TypeOK, Inserted
  <2> QED
    BY <1>0, <1>11, <2>1, QuietLocks DEF SendCommit
<1>12. ASSUME NEW r \in Replicas, CommitLands(r)
      PROVE  Locks'
  <2>1. /\ UNCHANGED <<orphans, file>>
        /\ recorded' = recorded \cup {file[r]}
        /\ Inserted(r) /\ ~Inserted(r)'
        /\ \A q \in Replicas : Inserted(q)' => Inserted(q)
    BY <1>0, <1>12 DEF CommitLands, Committed, TypeOK, Inserted
  <2>2. ~Locked(r, file[r])
    BY <1>0, <2>1 DEF Locks
  <2>3. ASSUME NEW q \in Replicas, Inserted(q)'
        PROVE  file[q] \notin recorded' /\ ~Locked(q, file[q])'
    BY <1>0, <2>1, <2>2, <2>3 DEF Locks, Locked
  <2>4. \A o \in orphans : o.file # file[r]
    BY <2>2 DEF Locked
  <2> QED
    BY <1>0, <2>1, <2>3, <2>4 DEF Locks
<1>13. ASSUME NEW r \in Replicas, NextFile(r)
      PROVE  Locks'
  <2>1. \A q \in Replicas : Inserted(q)' => Inserted(q) /\ file'[q] = file[q]
    BY <1>0, <1>13 DEF NextFile, TypeOK, Inserted
  <2> QED
    BY <1>0, <1>13, <2>1, QuietLocks DEF NextFile
<1>14. ASSUME NEW r \in Replicas, Fail(r)
      PROVE  Locks'
  <2>1. \A q \in Replicas : Inserted(q)' => Inserted(q) /\ file'[q] = file[q]
    BY <1>0, <1>14 DEF Fail, TypeOK, Inserted
  <2> QED
    BY <1>0, <1>14, <2>1, QuietLocks DEF Fail
<1>15. ASSUME NEW r \in Replicas, Crash(r)
      PROVE  Locks'
  <2>1. /\ UNCHANGED <<recorded, file>>
        /\ ~Inserted(r)'
        /\ \A q \in Replicas : Inserted(q)' => Inserted(q)
    BY <1>0, <1>15 DEF Crash, TypeOK, Inserted
  <2>2. CASE ~Inserted(r)
    <3>1. orphans' = orphans
      BY <1>15, <2>2 DEF Crash
    <3> QED
      BY <1>0, <2>1, <3>1, QuietLocks
  <2>3. CASE Inserted(r)
    <3>1. IsNext(file[r])
      BY <2>3, InsertedIsNext
    <3>2. ~Locked(r, file[r])
      BY <1>0, <2>3 DEF Locks
    <3>3. \A o \in orphans' : o \in orphans \/ o.file = file[r]
      BY <1>15 DEF Crash
    <3>4. \A o, p \in orphans' : o \notin orphans /\ p \notin orphans => o = p
      BY <1>15 DEF Crash, Orphan
    <3>5. ASSUME NEW q \in Replicas, Inserted(q)'
          PROVE  file[q] \notin recorded /\ ~Locked(q, file[q])'
      BY <1>0, <2>1, <2>3, <3>2, <3>3, <3>5 DEF Locks, Locked
    <3>6. ASSUME NEW o \in orphans'
          PROVE  /\ o.file \notin recorded
                 /\ \A g \in Files : g < o.file => g \in recorded
                 /\ \A p \in orphans' : p.file = o.file => p = o
      BY <1>0, <3>1, <3>2, <3>3, <3>4 DEF Locks, Locked, IsNext
    <3> QED
      BY <2>1, <3>5, <3>6 DEF Locks
  <2> QED
    BY <2>2, <2>3
<1>16. ASSUME NEW o \in orphans, OrphanEnds(o)
      PROVE  Locks'
  <2>1. /\ UNCHANGED <<pc, file>>
        /\ orphans' = orphans \ {o}
        /\ recorded' = recorded \/ recorded' = recorded \cup {o.file}
    BY <1>16 DEF OrphanEnds, Committed
  <2>2. \A q \in Replicas : Inserted(q) => file[q] # o.file
    BY <1>0 DEF Locks, Locked
  <2>3. \A p \in orphans' : p \in orphans /\ p.file # o.file
    BY <1>0, <2>1 DEF Locks
  <2>4. ASSUME NEW q \in Replicas, Inserted(q)'
        PROVE  file[q] \notin recorded' /\ ~Locked(q, file[q])'
    BY <1>0, <2>1, <2>2, <2>3, <2>4 DEF Locks, Locked, Inserted
  <2> QED
    BY <1>0, <2>1, <2>3, <2>4 DEF Locks
<1>17. ASSUME NEW r \in Replicas, TableMissing(r)
      PROVE  Locks'
  <2>1. \A q \in Replicas : Inserted(q)' => Inserted(q) /\ file'[q] = file[q]
    BY <1>0, <1>17 DEF TableMissing, TypeOK, Inserted
  <2> QED
    BY <1>0, <1>17, <2>1, QuietLocks DEF TableMissing
<1>18. ASSUME NEW r \in Replicas, CreateTableFails(r)
      PROVE  Locks'
  <2>1. \A q \in Replicas : Inserted(q)' => Inserted(q) /\ file'[q] = file[q]
    BY <1>0, <1>18 DEF CreateTableFails, TypeOK, Inserted
  <2> QED
    BY <1>0, <1>18, <2>1, QuietLocks DEF CreateTableFails
<1>19. ASSUME NEW r \in Replicas, ExecBodyConflicts(r)
      PROVE  Locks'
  <2>1. \A q \in Replicas : Inserted(q)' => Inserted(q) /\ file'[q] = file[q]
    BY <1>0, <1>19 DEF ExecBodyConflicts, TypeOK, Inserted
  <2> QED
    BY <1>0, <1>19, <2>1, QuietLocks DEF ExecBodyConflicts
<1>20. CASE UNCHANGED vars
  BY <1>0, <1>20, QuietLocks DEF vars, Inserted
<1> QED
  BY <1>1, <1>2, <1>3, <1>4, <1>5, <1>6, <1>7, <1>8, <1>9, <1>10, <1>11, <1>12,
     <1>13, <1>14, <1>15, <1>16, <1>17, <1>18, <1>19, <1>20
     DEF Next, ReplicaStep

(***************************************************************************)
(* The theorems.                                                           *)
(***************************************************************************)

\* RunMigrations keeps the invariant, with any number of replicas at it.
THEOREM MigrationsInvariance == Spec => []IInv
<1>1. IInv /\ [Next]_vars => IInv'
  BY StepTypeOK, StepExactlyOnce, StepNoGap, StepProgress, StepLocks DEF IInv
<1> QED
  BY InitIInv, <1>1, PTL DEF Spec

\* The variables of RunMigrations keep their types.
THEOREM MigrationsTypeCorrect == Spec => []TypeOK
<1>1. IInv => TypeOK
  BY DEF IInv
<1> QED
  BY <1>1, MigrationsInvariance, PTL

\* "exactly once" (RunMigrations, pg.go): the effects of a file are committed
\* as often as its filename is recorded, whoever raced, failed or crashed.
THEOREM MigratesExactlyOnce == Spec => []ExactlyOnce
<1>1. IInv => ExactlyOnce
  BY DEF IInv
<1> QED
  BY <1>1, MigrationsInvariance, PTL

\* "in lexical order" (RunMigrations, pg.go), across replicas and versions.
THEOREM MigratesInOrder == Spec => []NoGap
<1>1. IInv => NoGap
  BY DEF IInv
<1> QED
  BY <1>1, MigrationsInvariance, PTL

\* newRepository of main.go returns a repository only on a schema that has
\* every file of the binary.
THEOREM ServesOnCompleteSchema == Spec => []ServesComplete
<1>1. IInv => ServesComplete
  BY DEF IInv, Progress, ProgressOf, Running, InFile, ServesComplete
<1> QED
  BY <1>1, MigrationsInvariance, PTL

=============================================================================
