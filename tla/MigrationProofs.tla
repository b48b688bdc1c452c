--------------------------- MODULE MigrationProofs ---------------------------
(***************************************************************************)
(* What the database migration promises for any number of projects, files, *)
(* jobs, statements of the schema, edits, restarts and rehearsals.         *)
(***************************************************************************)
EXTENDS DatabaseMigration, FiniteSetTheorems, TLAPS

-----------------------------------------------------------------------------
(* The Legacy route: types *)

Snapshot == [file : [Units -> Nat], version : [Projects -> Nat],
             job : [Jobs -> {"running", "completed"}]]
Scans == Projects \X [Files -> Nat]
Line == [scan : Scans, file : Files, content : Nat]
FileFacts == {"file"} \X Units \X Nat
StateFacts == {"project_state"} \X Projects \X Nat
JobFacts == {"job"} \X Jobs \X {"running", "completed"}
ProjectFacts == {"project"} \X Projects \X [Files -> Nat]
Ledger == {"PREFLIGHTED", "STARTED", "FAILED", "APPLIED"}
CheckpointRow == [id : Snapshot, of : FileFacts \cup JobFacts \cup ProjectFacts,
                  state : {"COMPLETED", "READY_TO_PUBLISH", "PUBLISHED"}]
ProvenanceRow == [id : Snapshot, fact : FileFacts \cup StateFacts \cup JobFacts]

Target == [ledger : Ledger \cup {None}, marker : BOOLEAN, ddl : Nat,
           version : [Projects -> Nat \cup {None}],
           building : SUBSET Scans, sealed : SUBSET Scans,
           rows : SUBSET Line, domain : SUBSET Line, provenance : SUBSET ProvenanceRow,
           job : [Jobs -> {None, "interrupted", "completed"}],
           checkpoint : SUBSET CheckpointRow, fileState : [Projects -> Nat \cup {None}],
           current : [Projects -> Scans \cup {None}]]

Copying == {"projects", "files", "jobs", "gate", "filestate"}
RunPlaces == {"idle", "preflight", "ledger", "start", "ddl", "read"} \cup Copying \cup Terminal

RunnerState == [place : RunPlaces, snap : Snapshot \cup {None}, todo : SUBSET (Projects \cup Nat),
            project : Projects \cup {None}]

LegacyTypes ==
    /\ source \in Snapshot /\ target \in Target /\ run \in RunnerState /\ edits \in Nat
    /\ target.domain \subseteq target.rows
    /\ run.place \in Copying => run.snap \in Snapshot
    /\ run.place = "files" => run.project \in Projects
    /\ run.place \in {"projects", "files", "filestate"} => run.todo \subseteq Projects
    /\ run.place = "ddl" => run.todo \subseteq 1 .. Statements

-----------------------------------------------------------------------------
(* The Legacy route: what a run has done *)

(* Every file of the project is in the target as the snapshot s has it. *)
FilesDone(t, s, p) == \A f \in Files : CheckpointDone(t, s, <<"file", <<p, f>>, s.file[<<p, f>>]>>)

(* What this run is through with. *)
CopiedInv ==
    /\ run.place = "projects" => \A p \in Projects \ run.todo : FilesDone(target, run.snap, p)
    /\ run.place = "files" =>
          \A p \in Projects \ (run.todo \cup {run.project}) : FilesDone(target, run.snap, p)
    /\ run.place \in {"jobs", "gate", "filestate"} =>
          \A p \in Projects : FilesDone(target, run.snap, p)
    /\ run.place \in {"gate", "filestate"} => target.domain = target.rows
    /\ run.place = "filestate" =>
          /\ \A p \in Projects : target.version[p] = run.snap.version[p]
          /\ \A p \in Projects \ run.todo : target.fileState[p] = run.snap.version[p]

(* A target that no runner gave its tables is only looked at; any other has *)
(* no business rows before its schema is applied.                           *)
Foreign(t) == t.ledger = None /\ t.ddl > 0

LedgerInv ==
    /\ Foreign(target) => /\ target \in ForeignTargets
                          /\ run.place \in {"idle", "preflight", "REFUSED"}
    /\ ~Foreign(target) =>
          /\ target.ledger = "APPLIED" => target.marker
          /\ target.ledger # "APPLIED" => ~BusinessRows(target)
    /\ run.place = "ledger" => target.ledger # "APPLIED"
    /\ run.place \in {"start", "ddl"} => target.ledger \in {"PREFLIGHTED", "STARTED"}
    /\ run.place \in Copying \cup {"read"} => target.ledger = "APPLIED"

CopyInv == LegacyTypes /\ CheckpointIsTrue /\ CopiedInv /\ PublishedIsOneSnapshot

-----------------------------------------------------------------------------
(* The Legacy route: as long as the source is as it was *)

Unedited == [file |-> [u \in Units |-> 0], version |-> [p \in Projects |-> 0],
             job |-> [j \in Jobs |-> "running"]]

LineOf(u) == [scan |-> ScanKey(Unedited, u[1]), file |-> u[2], content |-> 0]

StateDone(t, p) ==
    /\ t.version[p] = 0
    /\ [id |-> Unedited, fact |-> <<"project_state", p, 0>>] \in t.provenance

JobDone(t, j) == CheckpointDone(t, Unedited, <<"job", j, "running">>)

(* The target holds nothing that is not of the unedited source. *)
OnlyUnedited(t) ==
    /\ t.rows \subseteq {LineOf(u) : u \in Units}
    /\ \A x \in t.provenance : x.id = Unedited /\ x.fact \in SourceProvenance(Unedited)
    /\ \A p \in Projects : t.version[p] \in {None, 0} /\ t.current[p] \in {None, ScanKey(Unedited, p)}
    /\ \A j \in Jobs : JobDone(t, j) => t.job[j] = "interrupted"
    /\ t.sealed # {} => \A p \in Projects : t.version[p] = 0 /\ FilesDone(t, Unedited, p)

UneditedInv ==
    /\ source = Unedited
    /\ run.place \in Copying => run.snap = Unedited
    /\ OnlyUnedited(target)
    /\ run.place = "projects" => \A p \in Projects \ run.todo : StateDone(target, p)
    /\ run.place = "files" =>
          /\ \A p \in Projects \ (run.todo \cup {run.project}) : StateDone(target, p)
          /\ target.version[run.project] = 0
          /\ ScanKey(Unedited, run.project) \in target.building \/ target.sealed # {}
    /\ run.place \in {"jobs", "gate"} => \A p \in Projects : StateDone(target, p)
    /\ run.place = "gate" => \A j \in Jobs : JobDone(target, j)

ResumeInv ==
    /\ LedgerInv
    /\ UnchangedSourceNeverRefused
    /\ edits = 0 /\ ~Foreign(target) => UneditedInv

LegacyInv == CopyInv /\ ResumeInv

-----------------------------------------------------------------------------
(* What a commit writes *)

SameSchema == /\ target'.ledger = target.ledger /\ target'.marker = target.marker
              /\ target'.ddl = target.ddl
SameScans == /\ target'.building = target.building /\ target'.sealed = target.sealed
             /\ target'.current = target.current
SameRows == target'.rows = target.rows /\ target'.domain = target.domain
SameState == target'.version = target.version /\ target'.fileState = target.fileState
SameRecords == target'.provenance = target.provenance /\ target'.checkpoint = target.checkpoint
SameBusiness == SameScans /\ SameRows /\ SameState /\ SameRecords /\ target'.job = target.job

LEMMA FirstIn ==
    ASSUME NEW S, S # {}
    PROVE  First(S) \in S
  BY DEF First

(* The fields of a snapshot. *)
LEMMA SnapshotFields ==
    ASSUME NEW s \in Snapshot
    PROVE  /\ \A p \in Projects, f \in Files : s.file[<<p, f>>] \in Nat
           /\ \A p \in Projects : /\ s.version[p] \in Nat /\ Fragment(s, p) \in [Files -> Nat]
                                  /\ ScanKey(s, p) \in Scans
           /\ \A j \in Jobs : s.job[j] \in {"running", "completed"}
  <1>1. \A p \in Projects, f \in Files : <<p, f>> \in Units
    BY DEF Units
  <1>2. \A p \in Projects, f \in Files : s.file[<<p, f>>] \in Nat
    BY <1>1 DEF Snapshot
  <1> QED
    BY <1>2 DEF Snapshot, Fragment, ScanKey, Scans

LEMMA CheckpointType ==
    ASSUME NEW t \in Target, NEW id \in Snapshot,
           NEW of \in FileFacts \cup JobFacts \cup ProjectFacts,
           NEW state \in {"COMPLETED", "READY_TO_PUBLISH", "PUBLISHED"}
    PROVE  Checkpoint(t, id, of, state) \in SUBSET CheckpointRow
  BY DEF Checkpoint, Target, CheckpointRow

LEMMA SchemaFields ==
    ASSUME LegacyTypes, RecordPreflight \/ StartSchema \/ RunStatement \/ StatementFails \/ MarkApplied
    PROVE  target' \in Target /\ SameBusiness /\ UNCHANGED <<source, edits>>
  <1>t. target \in Target /\ Statements \in Nat
    BY ConstantsAssumption DEF LegacyTypes
  <1>u. UNCHANGED <<source, edits>>
    BY DEF RecordPreflight, StartSchema, RunStatement, StatementFails, MarkApplied, Commit
  <1>1. CASE RecordPreflight
    BY <1>t, <1>u, <1>1 DEF RecordPreflight, Commit, Target, Ledger, SameBusiness, SameScans, SameRows,
                      SameState, SameRecords
  <1>2. CASE StartSchema
    BY <1>t, <1>u, <1>2 DEF StartSchema, Commit, Target, Ledger, SameBusiness, SameScans, SameRows,
                      SameState, SameRecords
  <1>3. CASE RunStatement
    <2>1. PICK k : /\ k = Statements + 1 - Cardinality(run.todo)
                   /\ target' = [target EXCEPT !.ddl = IF k > @ THEN k ELSE @]
      BY <1>3 DEF RunStatement, Commit
    <2>2. k \in Int
      <3>1. run.todo \subseteq 1 .. Statements
        BY <1>3 DEF LegacyTypes, RunStatement, At
      <3>2. IsFiniteSet(run.todo)
        <4>1. 1 \in Int /\ Statements \in Int
          BY <1>t
        <4>2. IsFiniteSet(1 .. Statements)
          BY <4>1, FS_Interval
        <4>3. run.todo \in SUBSET (1 .. Statements)
          BY <3>1
        <4> QED
          BY <4>2, <4>3, FS_Subset
      <3>3. Cardinality(run.todo) \in Nat
        BY <3>2, FS_CardinalityType
      <3> QED
        BY <1>t, <2>1, <3>3
    <2> QED
      BY <1>t, <1>u, <2>1, <2>2 DEF Target, SameBusiness, SameScans, SameRows, SameState, SameRecords
  <1>4. CASE StatementFails
    BY <1>t, <1>u, <1>4 DEF StatementFails, Commit, Target, Ledger, SameBusiness, SameScans, SameRows,
                      SameState, SameRecords
  <1>5. CASE MarkApplied
    BY <1>t, <1>u, <1>5 DEF MarkApplied, Commit, Target, Ledger, SameBusiness, SameScans, SameRows,
                      SameState, SameRecords
  <1> QED
    BY <1>1, <1>2, <1>3, <1>4, <1>5

LEMMA SetupFields ==
    ASSUME LegacyTypes, SetupProject
    PROVE  \E p \in run.todo :
             /\ p \in Projects /\ target' \in Target /\ UNCHANGED <<source, edits>>
             /\ run' = [run EXCEPT !.place = "files", !.project = p, !.todo = @ \ {p}]
             /\ SameSchema /\ SameRows /\ SameRecords /\ target'.job = target.job
             /\ target'.sealed = target.sealed /\ target'.current = target.current
             /\ target'.fileState = target.fileState /\ target.building \subseteq target'.building
             /\ ScanOf(p) \in target.sealed => target'.version = target.version
             /\ ScanOf(p) \notin target.sealed =>
                   /\ ScanOf(p) \in target'.building
                   /\ target'.version = [target.version EXCEPT ![p] =
                          IF target.version[p] = None THEN run.snap.version[p] ELSE target.version[p]]
  <1>1. /\ run.place = "projects" /\ run.todo # {} /\ run.snap \in Snapshot
        /\ run.todo \subseteq Projects /\ target \in Target
    BY DEF LegacyTypes, SetupProject, At, Copying
  <1>2. PICK p \in run.todo : p = First(run.todo)
    BY <1>1, FirstIn
  <1>3. p \in Projects /\ ScanOf(p) \in Scans /\ run.snap.version[p] \in Nat
    BY <1>1, SnapshotFields DEF ScanOf
  <1>4. PICK new \in BOOLEAN : new <=> ScanOf(p) \notin target.sealed
    OBVIOUS
  <1>5. PICK b : b = IF new THEN target.building \cup {ScanOf(p)} ELSE target.building
    OBVIOUS
  <1>6. PICK x : x = IF new /\ target.version[p] = None THEN run.snap.version[p] ELSE target.version[p]
    OBVIOUS
  <1>7. PICK v : v = [target.version EXCEPT ![p] = x]
    OBVIOUS
  <1>8. /\ target' = [target EXCEPT !.building = b, !.version = v]
        /\ run' = [run EXCEPT !.place = "files", !.project = p, !.todo = @ \ {p}]
        /\ UNCHANGED <<source, edits>>
    BY <1>1, <1>2, <1>3, <1>4, <1>5, <1>6, <1>7 DEF SetupProject, Commit, Target
  <1>9. b \in SUBSET Scans /\ v \in [Projects -> Nat \cup {None}] /\ target.building \subseteq b
        /\ (~new => v = target.version)
    BY <1>1, <1>3, <1>5, <1>6, <1>7 DEF Target
  <1>10. /\ target' \in Target /\ target'.building = b /\ target'.version = v
         /\ SameSchema /\ SameRows /\ SameRecords /\ target'.job = target.job
         /\ target'.sealed = target.sealed /\ target'.current = target.current
         /\ target'.fileState = target.fileState
    BY <1>1, <1>8, <1>9 DEF Target, SameSchema, SameRows, SameRecords
  <1>11. ScanOf(p) \in target.sealed => target'.version = target.version
    BY <1>4, <1>9, <1>10
  <1>12. ScanOf(p) \notin target.sealed =>
                   /\ ScanOf(p) \in target'.building
                   /\ target'.version = [target.version EXCEPT ![p] =
                          IF target.version[p] = None THEN run.snap.version[p] ELSE target.version[p]]
    BY <1>4, <1>5, <1>6, <1>7, <1>10
  <1>13. target.building \subseteq target'.building
    BY <1>9, <1>10
  <1> QED
    BY <1>2, <1>3, <1>8, <1>10, <1>11, <1>12, <1>13

LEMMA PersistFields ==
    ASSUME LegacyTypes, PersistFile
    PROVE  \E f \in Files :
             /\ run.project \in Projects /\ run.snap \in Snapshot /\ target' \in Target
             /\ UNCHANGED <<source, edits, run>> /\ ScanOf(run.project) \in target.building
             /\ SameSchema /\ SameScans /\ SameState /\ target'.job = target.job
             /\ target'.domain = target.domain
             /\ target'.rows = target.rows \cup
                   {[scan |-> ScanOf(run.project), file |-> f,
                     content |-> run.snap.file[<<run.project, f>>]]}
             /\ target'.provenance = UpsertProvenance(FileFact(run.project, f))
             /\ target'.checkpoint =
                   Checkpoint(target, run.snap, FileFact(run.project, f), "COMPLETED")
  <1>1. /\ run.place = "files" /\ FilesLeft # {} /\ run.snap \in Snapshot
        /\ run.project \in Projects /\ target \in Target /\ ScanOf(run.project) \in target.building
    BY DEF LegacyTypes, PersistFile, At, Copying
  <1>2. PICK f \in FilesLeft : f = First(FilesLeft)
    BY <1>1, FirstIn
  <1>3. PICK p \in Projects : p = run.project
    BY <1>1
  <1>4. f \in Files /\ ScanOf(p) \in Scans /\ run.snap.file[<<p, f>>] \in Nat
    BY <1>1, SnapshotFields DEF ScanOf, FilesLeft
  <1>5. PICK row : row = [scan |-> ScanOf(p), file |-> f, content |-> run.snap.file[<<p, f>>]]
    OBVIOUS
  <1>6. FileFact(p, f) \in FileFacts
    BY <1>4 DEF FileFact, FileFacts, Units
  <1>7. PICK pr : pr = UpsertProvenance(FileFact(p, f))
    OBVIOUS
  <1>8. PICK cp : cp = Checkpoint(target, run.snap, FileFact(p, f), "COMPLETED")
    OBVIOUS
  <1>9. row \in Line /\ pr \in SUBSET ProvenanceRow /\ cp \in SUBSET CheckpointRow
    <2>1. row \in Line
      BY <1>4, <1>5 DEF Line
    <2>2. pr \in SUBSET ProvenanceRow
      BY <1>1, <1>6, <1>7 DEF UpsertProvenance, ProvenanceRow, Target
    <2>3. cp \in SUBSET CheckpointRow
      BY <1>1, <1>6, <1>8, CheckpointType
    <2> QED
      BY <2>1, <2>2, <2>3
  <1>10. /\ target' = [target EXCEPT !.rows = @ \cup {row}, !.provenance = pr, !.checkpoint = cp]
         /\ UNCHANGED <<source, edits, run>>
    BY <1>2, <1>3, <1>5, <1>7, <1>8 DEF PersistFile, Commit
  <1>11. /\ target' \in Target /\ target'.rows = target.rows \cup {row}
         /\ target'.provenance = pr /\ target'.checkpoint = cp
         /\ SameSchema /\ SameScans /\ SameState /\ target'.job = target.job
         /\ target'.domain = target.domain
    BY <1>1, <1>9, <1>10 DEF Target, SameSchema, SameScans, SameState
  <1> QED
    BY <1>1, <1>3, <1>4, <1>5, <1>7, <1>8, <1>10, <1>11

LEMMA ReadyFields ==
    ASSUME LegacyTypes, ProjectReady
    PROVE  /\ run.project \in Projects /\ run.snap \in Snapshot /\ target' \in Target
           /\ run.place = "files" /\ FilesLeft = {}
           /\ UNCHANGED <<source, edits>> /\ run' = [run EXCEPT !.place = "projects"]
           /\ SameSchema /\ SameScans /\ SameRows /\ SameState /\ target'.job = target.job
           /\ target'.provenance =
                 UpsertProvenance(<<"project_state", run.project, run.snap.version[run.project]>>)
           /\ target'.checkpoint =
                 Checkpoint(target, run.snap, ProjectFact(run.project), "READY_TO_PUBLISH")
  <1>1. /\ run.place = "files" /\ FilesLeft = {} /\ run.snap \in Snapshot
        /\ run.project \in Projects /\ target \in Target
    BY DEF LegacyTypes, ProjectReady, At, Copying
  <1>2. PICK p \in Projects : p = run.project
    BY <1>1
  <1>3. run.snap.version[p] \in Nat /\ ProjectFact(p) \in ProjectFacts
    BY <1>1, SnapshotFields DEF ProjectFact, ProjectFacts
  <1>4. PICK pr : pr = UpsertProvenance(<<"project_state", p, run.snap.version[p]>>)
    OBVIOUS
  <1>5. PICK cp : cp = Checkpoint(target, run.snap, ProjectFact(p), "READY_TO_PUBLISH")
    OBVIOUS
  <1>6. pr \in SUBSET ProvenanceRow /\ cp \in SUBSET CheckpointRow
    <2>1. pr \in SUBSET ProvenanceRow
      BY <1>1, <1>3, <1>4 DEF UpsertProvenance, ProvenanceRow, Target, StateFacts
    <2>2. cp \in SUBSET CheckpointRow
      BY <1>1, <1>3, <1>5, CheckpointType
    <2> QED
      BY <2>1, <2>2
  <1>7. /\ target' = [target EXCEPT !.provenance = pr, !.checkpoint = cp]
        /\ UNCHANGED <<source, edits>> /\ run' = [run EXCEPT !.place = "projects"]
    BY <1>2, <1>4, <1>5 DEF ProjectReady, Commit
  <1>8. /\ target' \in Target /\ target'.provenance = pr /\ target'.checkpoint = cp
        /\ SameSchema /\ SameScans /\ SameRows /\ SameState /\ target'.job = target.job
    BY <1>1, <1>6, <1>7 DEF Target, SameSchema, SameScans, SameRows, SameState
  <1> QED
    BY <1>1, <1>2, <1>4, <1>5, <1>7, <1>8

LEMMA JobFields ==
    ASSUME LegacyTypes, RestoreJob
    PROVE  \E j \in Jobs :
             /\ run.place = "jobs" /\ run.snap \in Snapshot /\ target' \in Target
             /\ UNCHANGED <<source, edits, run>>
             /\ SameSchema /\ SameScans /\ SameRows /\ SameState
             /\ target'.job = [target.job EXCEPT ![j] = JobState(run.snap.job[j])]
             /\ target'.provenance = UpsertProvenance(JobFact(j))
             /\ target'.checkpoint = Checkpoint(target, run.snap, JobFact(j), "COMPLETED")
  <1>1. /\ run.place = "jobs" /\ JobsLeft # {} /\ run.snap \in Snapshot /\ target \in Target
    BY DEF LegacyTypes, RestoreJob, At, Copying
  <1>2. PICK j \in JobsLeft : j = First(JobsLeft)
    BY <1>1, FirstIn
  <1>3. j \in Jobs /\ JobFact(j) \in JobFacts /\ JobState(run.snap.job[j]) \in {"interrupted", "completed"}
    BY <1>1, SnapshotFields DEF JobsLeft, JobFact, JobFacts, JobState
  <1>4. PICK pr : pr = UpsertProvenance(JobFact(j))
    OBVIOUS
  <1>5. PICK cp : cp = Checkpoint(target, run.snap, JobFact(j), "COMPLETED")
    OBVIOUS
  <1>6. PICK jb : jb = [target.job EXCEPT ![j] = JobState(run.snap.job[j])]
    OBVIOUS
  <1>7. /\ pr \in SUBSET ProvenanceRow /\ cp \in SUBSET CheckpointRow
        /\ jb \in [Jobs -> {None, "interrupted", "completed"}]
    <2>1. pr \in SUBSET ProvenanceRow
      BY <1>1, <1>3, <1>4 DEF UpsertProvenance, ProvenanceRow, Target
    <2>2. cp \in SUBSET CheckpointRow
      BY <1>1, <1>3, <1>5, CheckpointType
    <2>3. jb \in [Jobs -> {None, "interrupted", "completed"}]
      BY <1>1, <1>3, <1>6 DEF Target
    <2> QED
      BY <2>1, <2>2, <2>3
  <1>8. /\ target' = [target EXCEPT !.job = jb, !.provenance = pr, !.checkpoint = cp]
        /\ UNCHANGED <<source, edits, run>>
    BY <1>1, <1>2, <1>4, <1>5, <1>6 DEF RestoreJob, Commit, Target
  <1>9. /\ target' \in Target /\ target'.provenance = pr /\ target'.checkpoint = cp
        /\ SameSchema /\ SameScans /\ SameRows /\ SameState /\ target'.job = jb
    BY <1>1, <1>7, <1>8 DEF Target, SameSchema, SameScans, SameRows, SameState
  <1> QED
    BY <1>1, <1>3, <1>4, <1>5, <1>6, <1>8, <1>9

LEMMA DomainFields ==
    ASSUME LegacyTypes, AnalysisDomain
    PROVE  /\ run.place = "jobs" /\ JobsLeft = {} /\ run.snap \in Snapshot /\ target' \in Target
           /\ UNCHANGED <<source, edits>> /\ run' = [run EXCEPT !.place = "gate"]
           /\ SameSchema /\ SameScans /\ SameState /\ SameRecords /\ target'.job = target.job
           /\ target'.rows = target.rows /\ target'.domain = target.rows
  <1>1. /\ run.place = "jobs" /\ JobsLeft = {} /\ run.snap \in Snapshot /\ target \in Target
        /\ UNCHANGED <<source, edits>> /\ run' = [run EXCEPT !.place = "gate"]
        /\ target' = [target EXCEPT !.domain = target.rows]
    BY DEF LegacyTypes, AnalysisDomain, At, Copying, Commit, Goto
  <1> QED
    BY <1>1 DEF Target, SameSchema, SameScans, SameState, SameRecords

LEMMA FileStateFields ==
    ASSUME LegacyTypes, FileStateReady
    PROVE  \E p \in run.todo :
             /\ p \in Projects /\ run.place = "filestate" /\ run.snap \in Snapshot /\ target' \in Target
             /\ UNCHANGED <<source, edits>> /\ run' = [run EXCEPT !.todo = @ \ {p}]
             /\ SameSchema /\ SameScans /\ SameRows /\ target'.job = target.job
             /\ target'.version = target.version /\ target'.provenance = target.provenance
             /\ target'.fileState = [target.fileState EXCEPT ![p] = run.snap.version[p]]
             /\ target'.checkpoint =
                   Checkpoint(target, run.snap, ProjectFact(p), "READY_TO_PUBLISH")
  <1>1. /\ run.place = "filestate" /\ run.snap \in Snapshot /\ run.todo # {}
        /\ run.todo \subseteq Projects /\ target \in Target
    BY DEF LegacyTypes, FileStateReady, At, Copying
  <1>2. PICK p \in run.todo : p = First(run.todo)
    BY <1>1, FirstIn
  <1>3. p \in Projects /\ run.snap.version[p] \in Nat /\ ProjectFact(p) \in ProjectFacts
    BY <1>1, SnapshotFields DEF ProjectFact, ProjectFacts
  <1>4. PICK fs : fs = [target.fileState EXCEPT ![p] = run.snap.version[p]]
    OBVIOUS
  <1>5. PICK cp : cp = Checkpoint(target, run.snap, ProjectFact(p), "READY_TO_PUBLISH")
    OBVIOUS
  <1>6. fs \in [Projects -> Nat \cup {None}] /\ cp \in SUBSET CheckpointRow
    <2>1. fs \in [Projects -> Nat \cup {None}]
      BY <1>1, <1>3, <1>4 DEF Target
    <2>2. cp \in SUBSET CheckpointRow
      BY <1>1, <1>3, <1>5, CheckpointType
    <2> QED
      BY <2>1, <2>2
  <1>7. /\ target' = [target EXCEPT !.fileState = fs, !.checkpoint = cp]
        /\ UNCHANGED <<source, edits>> /\ run' = [run EXCEPT !.todo = @ \ {p}]
    BY <1>1, <1>2, <1>4, <1>5 DEF FileStateReady, Commit, Target
  <1>8. /\ target' \in Target /\ target'.fileState = fs /\ target'.checkpoint = cp
        /\ SameSchema /\ SameScans /\ SameRows /\ target'.job = target.job
        /\ target'.version = target.version /\ target'.provenance = target.provenance
    BY <1>1, <1>6, <1>7 DEF Target, SameSchema, SameScans, SameRows
  <1> QED
    BY <1>1, <1>3, <1>4, <1>5, <1>7, <1>8

LEMMA PublishFields ==
    ASSUME LegacyTypes, Publish, MayPublish
    PROVE  /\ run.place = "filestate" /\ run.snap \in Snapshot /\ run.todo = {} /\ target' \in Target
           /\ UNCHANGED <<source, edits>> /\ run' = [Idle EXCEPT !.place = "PASSED"]
           /\ SameSchema /\ SameRows /\ SameState /\ target'.job = target.job
           /\ target'.provenance = target.provenance
           /\ target'.sealed = target.sealed \cup {ScanOf(p) : p \in Projects}
           /\ target'.current = [p \in Projects |-> ScanOf(p)]
           /\ target'.checkpoint =
                 {c \in target.checkpoint : ~(c.id = run.snap /\ c.of[1] = "project")}
                    \cup {[id |-> run.snap, of |-> ProjectFact(p), state |-> "PUBLISHED"] :
                          p \in Projects}
  <1>1. /\ run.place = "filestate" /\ run.snap \in Snapshot /\ run.todo = {} /\ target \in Target
        /\ UNCHANGED <<source, edits>> /\ run' = [Idle EXCEPT !.place = "PASSED"]
        /\ target' = Published(target)
    BY DEF LegacyTypes, Publish, At, Copying, Commit
  <1>2. \A p \in Projects : ScanOf(p) \in Scans /\ ProjectFact(p) \in ProjectFacts
    BY <1>1, SnapshotFields DEF ScanOf, ProjectFact, ProjectFacts
  <1>3. PICK se : se = target.sealed \cup {ScanOf(p) : p \in Projects}
    OBVIOUS
  <1>4. PICK bu : bu = target.building \ {ScanOf(p) : p \in Projects}
    OBVIOUS
  <1>5. PICK cu : cu = [p \in Projects |-> ScanOf(p)]
    OBVIOUS
  <1>6. PICK cp : cp = {c \in target.checkpoint : ~(c.id = run.snap /\ c.of[1] = "project")}
                    \cup {[id |-> run.snap, of |-> ProjectFact(p), state |-> "PUBLISHED"] :
                          p \in Projects}
    OBVIOUS
  <1>7. target' = [target EXCEPT !.sealed = se, !.building = bu, !.current = cu, !.checkpoint = cp]
    BY <1>1, <1>3, <1>4, <1>5, <1>6 DEF Published
  <1>8. /\ se \in SUBSET Scans /\ bu \in SUBSET Scans /\ cu \in [Projects -> Scans \cup {None}]
        /\ cp \in SUBSET CheckpointRow
    <2>1. se \in SUBSET Scans
      BY <1>1, <1>2, <1>3 DEF Target
    <2>2. bu \in SUBSET Scans
      BY <1>1, <1>4 DEF Target
    <2>3. cu \in [Projects -> Scans \cup {None}]
      BY <1>2, <1>5
    <2>4. cp \in SUBSET CheckpointRow
      BY <1>1, <1>2, <1>6 DEF Target, CheckpointRow
    <2> QED
      BY <2>1, <2>2, <2>3, <2>4
  <1>9. /\ target' \in Target /\ target'.sealed = se /\ target'.current = cu
        /\ target'.checkpoint = cp /\ target'.provenance = target.provenance
        /\ SameSchema /\ SameRows /\ SameState /\ target'.job = target.job
    BY <1>1, <1>7, <1>8, ZenonT(40) DEF Target, SameSchema, SameRows, SameState
  <1> QED
    BY <1>1, <1>3, <1>5, <1>6, <1>9

-----------------------------------------------------------------------------
(* The Legacy route: every step keeps the types *)

(* Steps of the runner that leave the target as it is. *)
LooksOnly == target' = target /\ UNCHANGED <<source, edits>>

LEMMA StopTypes ==
    ASSUME LegacyTypes, NEW place \in {"idle"} \cup Terminal, Stop(place)
    PROVE  LooksOnly /\ run' = [Idle EXCEPT !.place = place] /\ LegacyTypes'
  <1>1. LooksOnly /\ run' = [Idle EXCEPT !.place = place]
    BY DEF Stop, LooksOnly
  <1>2. run' \in RunnerState /\ run'.place = place
    BY <1>1 DEF Idle, RunnerState, RunPlaces
  <1>3. run'.place \notin Copying /\ run'.place # "ddl"
    BY <1>2 DEF Copying, Terminal
  <1> QED
    BY <1>1, <1>2, <1>3 DEF LegacyTypes, LooksOnly, Copying

LEMMA SchemaTypes ==
    ASSUME LegacyTypes, RecordPreflight \/ StartSchema \/ RunStatement \/ StatementFails \/ MarkApplied
    PROVE  LegacyTypes'
  <1>1. target' \in Target /\ SameBusiness /\ UNCHANGED <<source, edits>>
    BY SchemaFields
  <1>2. run \in RunnerState
    BY DEF LegacyTypes
  <1>3. /\ run' \in RunnerState
        /\ run'.place \in {"start", "ddl", "read", "SCHEMA_FAILED"}
        /\ run'.place = "ddl" => run'.todo \subseteq 1 .. Statements
    <2>1. CASE RecordPreflight
      BY <1>2, <2>1 DEF RecordPreflight, Goto, RunnerState, RunPlaces
    <2>2. CASE StartSchema
      <3>1. 1 .. Statements \subseteq Nat
        BY ConstantsAssumption
      <3> QED
        BY <1>2, <2>2, <3>1 DEF StartSchema, RunnerState, RunPlaces
    <2>3. CASE RunStatement
      <3>1. run.place = "ddl" /\ run.todo \subseteq 1 .. Statements
        BY <2>3 DEF RunStatement, At, LegacyTypes
      <3>2. PICK k : run' = [run EXCEPT !.todo = @ \ {k}]
        BY <2>3 DEF RunStatement
      <3> QED
        BY <1>2, <3>1, <3>2 DEF RunnerState, RunPlaces
    <2>4. CASE StatementFails
      BY <2>4 DEF StatementFails, Idle, RunnerState, RunPlaces, Terminal
    <2>5. CASE MarkApplied
      BY <1>2, <2>5 DEF MarkApplied, Goto, RunnerState, RunPlaces
    <2> QED
      BY <2>1, <2>2, <2>3, <2>4, <2>5
  <1>4. run'.place \notin Copying
    BY <1>3 DEF Copying
  <1> QED
    BY <1>1, <1>3, <1>4 DEF LegacyTypes, SameBusiness, SameRows, Copying

LEMMA SourceTypes ==
    ASSUME LegacyTypes, (\E u \in Units : EditSource(u)) \/ (\E j \in Jobs : FinishJob(j))
    PROVE  LegacyTypes' /\ edits' > 0 /\ target' = target /\ run' = run
  <1>1. source \in Snapshot /\ edits \in Nat
    BY DEF LegacyTypes
  <1>2. CASE \E u \in Units : EditSource(u)
    <2>1. PICK u \in Units : EditSource(u)
      BY <1>2
    <2>2. u[1] \in Projects
      BY DEF Units
    <2>3. source' = [source EXCEPT !.file = [@ EXCEPT ![u] = edits + 1],
                                   !.version = [@ EXCEPT ![u[1]] = source.version[u[1]] + 1]]
      BY <1>1, <2>1, <2>2 DEF EditSource, Snapshot
    <2>4. source' \in Snapshot
      <3>1. [source.file EXCEPT ![u] = edits + 1] \in [Units -> Nat]
        BY <1>1 DEF Snapshot
      <3>2. [source.version EXCEPT ![u[1]] = source.version[u[1]] + 1] \in [Projects -> Nat]
        BY <1>1, <2>2 DEF Snapshot
      <3> QED
        BY <1>1, <2>3, <3>1, <3>2 DEF Snapshot
    <2>5. edits' \in Nat /\ edits' > 0 /\ target' = target /\ run' = run
      <3>1. edits' = edits + 1 /\ target' = target /\ run' = run
        BY <2>1, Zenon DEF EditSource
      <3> QED
        BY <1>1, <3>1
    <2> QED
      BY <2>4, <2>5 DEF LegacyTypes
  <1>3. CASE \E j \in Jobs : FinishJob(j)
    <2>1. PICK j \in Jobs : FinishJob(j)
      BY <1>3
    <2>2. source' \in Snapshot
      <3>1. source' = [source EXCEPT !.job = [@ EXCEPT ![j] = "completed"]]
        BY <1>1, <2>1 DEF FinishJob, Snapshot
      <3>2. [source.job EXCEPT ![j] = "completed"] \in [Jobs -> {"running", "completed"}]
        BY <1>1 DEF Snapshot
      <3> QED
        BY <1>1, <3>1, <3>2 DEF Snapshot
    <2>3. edits' \in Nat /\ edits' > 0 /\ target' = target /\ run' = run
      BY <1>1, <2>1 DEF FinishJob
    <2> QED
      BY <2>2, <2>3 DEF LegacyTypes
  <1> QED
    BY <1>2, <1>3

LEMMA LooksTypes ==
    ASSUME LegacyTypes,
           \/ Begin \/ Crash \/ Preflight \/ ReadSource \/ SealedScanRefused \/ BeginJobs
           \/ SemanticGate
    PROVE  LooksOnly /\ LegacyTypes'
  <1>1. source \in Snapshot /\ target \in Target /\ run \in RunnerState
    BY DEF LegacyTypes
  <1>2. CASE Begin
    BY <1>1, <1>2 DEF Begin, LooksOnly, LegacyTypes, Idle, RunnerState, RunPlaces, Copying
  <1>3. CASE Crash
    BY <1>3, StopTypes DEF Crash
  <1>4. CASE Preflight
    <2>1. CASE Accepts(target) /\ Commit(target)
               /\ Goto(IF target.ledger = "APPLIED" THEN "read" ELSE "ledger")
      BY <1>1, <2>1 DEF Commit, Goto, LooksOnly, LegacyTypes, RunnerState, RunPlaces, Copying
    <2>2. CASE Stop("REFUSED")
      BY <2>2, StopTypes DEF Terminal
    <2> QED
      BY <1>4, <2>1, <2>2 DEF Preflight
  <1>5. CASE ReadSource
    <2>1. run' = [run EXCEPT !.place = "projects", !.snap = source, !.todo = Projects]
      BY <1>5 DEF ReadSource
    <2>2. LooksOnly
      BY <1>5 DEF ReadSource, LooksOnly
    <2>3. run' \in RunnerState /\ run'.place = "projects" /\ run'.snap = source /\ run'.todo = Projects
      BY <1>1, <2>1 DEF RunnerState, RunPlaces, Copying
    <2> QED
      BY <2>2, <2>3 DEF LooksOnly, LegacyTypes
  <1>6. CASE SealedScanRefused
    BY <1>6, StopTypes DEF SealedScanRefused, Terminal
  <1>7. CASE BeginJobs
    <2>1. run.snap \in Snapshot /\ run' = [run EXCEPT !.place = "jobs", !.project = None] /\ LooksOnly
      BY <1>7 DEF BeginJobs, LooksOnly, LegacyTypes, Copying, At
    <2>2. run' \in RunnerState /\ run'.place = "jobs" /\ run'.snap = run.snap
      BY <1>1, <2>1 DEF RunnerState, RunPlaces, Copying
    <2> QED
      BY <2>1, <2>2 DEF LooksOnly, LegacyTypes
  <1>8. CASE SemanticGate
    <2>1. CASE Stop("FAILED")
      BY <2>1, StopTypes DEF Terminal
    <2>2. CASE run' = [run EXCEPT !.place = "filestate", !.todo = Projects] /\ LooksOnly
      <3>1. run.snap \in Snapshot
        BY <1>8 DEF SemanticGate, LegacyTypes, Copying, At
      <3>2. run' \in RunnerState /\ run'.place = "filestate" /\ run'.snap = run.snap /\ run'.todo = Projects
        BY <1>1, <2>2 DEF RunnerState, RunPlaces, Copying
      <3> QED
        BY <2>2, <3>1, <3>2 DEF LooksOnly, LegacyTypes
    <2> QED
      BY <1>8, <2>1, <2>2 DEF SemanticGate, LooksOnly
  <1> QED
    BY <1>2, <1>3, <1>4, <1>5, <1>6, <1>7, <1>8

(* The steps that write to the target while copying. *)
CopyStep ==
    \/ SetupProject
    \/ PersistFile
    \/ ProjectReady
    \/ RestoreJob
    \/ AnalysisDomain
    \/ FileStateReady

LEMMA CopyTypes ==
    ASSUME LegacyTypes, CopyStep
    PROVE  /\ LegacyTypes' /\ run.place \in Copying /\ run'.place \in Copying
           /\ run'.snap = run.snap /\ SameSchema /\ UNCHANGED <<source, edits>>
  <1>1. run \in RunnerState /\ edits \in Nat /\ source \in Snapshot /\ target.domain \subseteq target.rows
    BY DEF LegacyTypes
  <1>2. CASE SetupProject
    <2>1. PICK p \in run.todo :
             /\ p \in Projects /\ target' \in Target /\ UNCHANGED <<source, edits>>
             /\ run' = [run EXCEPT !.place = "files", !.project = p, !.todo = @ \ {p}]
             /\ SameSchema /\ SameRows
      BY <1>2, SetupFields
    <2>2. run.place = "projects" /\ run.todo \subseteq Projects /\ run.snap \in Snapshot
      BY <1>2 DEF SetupProject, At, LegacyTypes, Copying
    <2>3. /\ run' \in RunnerState /\ run'.place = "files" /\ run'.snap = run.snap
          /\ run'.project = p /\ run'.todo \subseteq Projects
      BY <1>1, <2>1, <2>2 DEF RunnerState, RunPlaces, Copying
    <2> QED
      BY <1>1, <2>1, <2>2, <2>3 DEF LegacyTypes, SameRows, Copying
  <1>3. CASE PersistFile
    <2>1. PICK f \in Files :
             /\ target' \in Target /\ UNCHANGED <<source, edits, run>> /\ SameSchema
             /\ target'.domain = target.domain /\ target.rows \subseteq target'.rows
      BY <1>3, PersistFields
    <2>2. run.place = "files"
      BY <1>3 DEF PersistFile, At
    <2> QED
      BY <1>1, <2>1, <2>2 DEF LegacyTypes, Copying
  <1>4. CASE ProjectReady
    <2>1. /\ target' \in Target /\ UNCHANGED <<source, edits>> /\ SameSchema /\ SameRows
          /\ run' = [run EXCEPT !.place = "projects"] /\ run.place = "files" /\ run.snap \in Snapshot
      BY <1>4, ReadyFields
    <2>2. run.todo \subseteq Projects
      BY <2>1 DEF LegacyTypes
    <2>3. run' \in RunnerState /\ run'.place = "projects" /\ run'.snap = run.snap /\ run'.todo = run.todo
      BY <1>1, <2>1 DEF RunnerState, RunPlaces, Copying
    <2> QED
      BY <1>1, <2>1, <2>2, <2>3 DEF LegacyTypes, SameRows, Copying
  <1>5. CASE RestoreJob
    <2>1. PICK j \in Jobs :
             /\ target' \in Target /\ UNCHANGED <<source, edits, run>> /\ SameSchema /\ SameRows
             /\ run.place = "jobs"
      BY <1>5, JobFields
    <2> QED
      BY <1>1, <2>1 DEF LegacyTypes, SameRows, Copying
  <1>6. CASE AnalysisDomain
    <2>1. /\ target' \in Target /\ UNCHANGED <<source, edits>> /\ SameSchema /\ run.place = "jobs"
          /\ run' = [run EXCEPT !.place = "gate"] /\ run.snap \in Snapshot
          /\ target'.domain = target'.rows
      BY <1>6, DomainFields
    <2>2. run' \in RunnerState /\ run'.place = "gate" /\ run'.snap = run.snap
      BY <1>1, <2>1 DEF RunnerState, RunPlaces, Copying
    <2> QED
      BY <1>1, <2>1, <2>2 DEF LegacyTypes, Copying
  <1>7. CASE FileStateReady
    <2>1. PICK p \in run.todo :
             /\ target' \in Target /\ UNCHANGED <<source, edits>> /\ SameSchema /\ SameRows
             /\ run.place = "filestate" /\ run.snap \in Snapshot /\ run' = [run EXCEPT !.todo = @ \ {p}]
      BY <1>7, FileStateFields
    <2>2. run.todo \subseteq Projects
      BY <2>1 DEF LegacyTypes
    <2>3. /\ run' \in RunnerState /\ run'.place = "filestate" /\ run'.snap = run.snap
          /\ run'.todo \subseteq Projects
      BY <1>1, <2>1, <2>2 DEF RunnerState, RunPlaces, Copying
    <2> QED
      BY <1>1, <2>1, <2>2, <2>3 DEF LegacyTypes, SameRows, Copying
  <1> QED
    BY <1>2, <1>3, <1>4, <1>5, <1>6, <1>7 DEF CopyStep

LEMMA PublishTypes ==
    ASSUME LegacyTypes, Publish
    PROVE  /\ LegacyTypes' /\ UNCHANGED <<source, edits>>
           /\ run.place = "filestate" /\ run'.place \in {"PASSED", "FAILED"}
           /\ ~MayPublish => target' = target
           /\ MayPublish => run'.place = "PASSED"
  <1>1. CASE MayPublish
    <2>1. /\ target' \in Target /\ UNCHANGED <<source, edits>> /\ SameRows
          /\ run' = [Idle EXCEPT !.place = "PASSED"] /\ run.place = "filestate"
      BY <1>1, PublishFields
    <2>2. run' \in RunnerState /\ run'.place = "PASSED"
      BY <2>1 DEF Idle, RunnerState, RunPlaces, Terminal
    <2> QED
      BY <1>1, <2>1, <2>2 DEF LegacyTypes, SameRows, Copying
  <1>2. CASE ~MayPublish
    <2>1. /\ target' = target /\ UNCHANGED <<source, edits>>
          /\ run' = [Idle EXCEPT !.place = "FAILED"] /\ run.place = "filestate"
      BY <1>2 DEF Publish, Commit, At
    <2>2. run' \in RunnerState /\ run'.place = "FAILED"
      BY <2>1 DEF Idle, RunnerState, RunPlaces, Terminal
    <2> QED
      BY <1>2, <2>1, <2>2 DEF LegacyTypes, Copying
  <1> QED
    BY <1>1, <1>2

-----------------------------------------------------------------------------
(* The Legacy route: nothing that was copied is lost *)

FileOf(s, p, f) == <<"file", <<p, f>>, s.file[<<p, f>>]>>
JobOf(s, j) == <<"job", j, s.job[j]>>

(* The migration s has come to a project. *)
ProjectKnown(t, s) == \E c \in t.checkpoint : c.of[1] = "project" /\ c.id = s

Grown(t, u) ==
    /\ t.rows \subseteq u.rows /\ t.provenance \subseteq u.provenance /\ t.sealed \subseteq u.sealed
    /\ \A s, p, f : CheckpointDone(t, s, FileOf(s, p, f)) => CheckpointDone(u, s, FileOf(s, p, f))
    /\ \A s, j : CheckpointDone(t, s, JobOf(s, j)) => CheckpointDone(u, s, JobOf(s, j))
    /\ \A s : ProjectKnown(t, s) => ProjectKnown(u, s)

(* A checkpoint replaces none but that of the same fact. *)
LEMMA CheckpointKeeps ==
    ASSUME NEW t, NEW u, NEW id, NEW of, NEW state, NEW s, NEW x,
           CheckpointDone(t, s, x),
           u.checkpoint = Checkpoint(t, id, of, state),
           of[1] = x[1] => state = "COMPLETED" /\ (of[2] = x[2] /\ id = s => of = x)
    PROVE  CheckpointDone(u, s, x)
  BY DEF CheckpointDone, Checkpoint

LEMMA FileCheckpointGrows ==
    ASSUME NEW t, NEW u, NEW id, NEW p, NEW f, NEW s,
           u.checkpoint = Checkpoint(t, id, FileOf(id, p, f), "COMPLETED")
    PROVE  /\ \A q, g : CheckpointDone(t, s, FileOf(s, q, g)) => CheckpointDone(u, s, FileOf(s, q, g))
           /\ \A j : CheckpointDone(t, s, JobOf(s, j)) => CheckpointDone(u, s, JobOf(s, j))
           /\ ProjectKnown(t, s) => ProjectKnown(u, s)
  <1>1. ASSUME NEW q, NEW g, CheckpointDone(t, s, FileOf(s, q, g))
        PROVE  CheckpointDone(u, s, FileOf(s, q, g))
    <2>1. FileOf(id, p, f)[2] = FileOf(s, q, g)[2] /\ id = s => FileOf(id, p, f) = FileOf(s, q, g)
      BY DEF FileOf
    <2> QED
      BY <1>1, <2>1, CheckpointKeeps
  <1>2. ASSUME NEW j, CheckpointDone(t, s, JobOf(s, j))
        PROVE  CheckpointDone(u, s, JobOf(s, j))
    <2>1. FileOf(id, p, f)[1] # JobOf(s, j)[1]
      BY DEF FileOf, JobOf
    <2> QED
      BY <1>2, <2>1, CheckpointKeeps
  <1>3. ASSUME ProjectKnown(t, s)
        PROVE  ProjectKnown(u, s)
    BY <1>3 DEF ProjectKnown, Checkpoint, FileOf
  <1> QED
    BY <1>1, <1>2, <1>3

LEMMA JobCheckpointGrows ==
    ASSUME NEW t, NEW u, NEW id, NEW i, NEW s,
           u.checkpoint = Checkpoint(t, id, JobOf(id, i), "COMPLETED")
    PROVE  /\ \A q, g : CheckpointDone(t, s, FileOf(s, q, g)) => CheckpointDone(u, s, FileOf(s, q, g))
           /\ \A j : CheckpointDone(t, s, JobOf(s, j)) => CheckpointDone(u, s, JobOf(s, j))
           /\ ProjectKnown(t, s) => ProjectKnown(u, s)
  <1>1. ASSUME NEW q, NEW g, CheckpointDone(t, s, FileOf(s, q, g))
        PROVE  CheckpointDone(u, s, FileOf(s, q, g))
    <2>1. JobOf(id, i)[1] # FileOf(s, q, g)[1]
      BY DEF FileOf, JobOf
    <2> QED
      BY <1>1, <2>1, CheckpointKeeps
  <1>2. ASSUME NEW j, CheckpointDone(t, s, JobOf(s, j))
        PROVE  CheckpointDone(u, s, JobOf(s, j))
    <2>1. JobOf(id, i)[2] = JobOf(s, j)[2] /\ id = s => JobOf(id, i) = JobOf(s, j)
      BY DEF JobOf
    <2> QED
      BY <1>2, <2>1, CheckpointKeeps
  <1>3. ASSUME ProjectKnown(t, s)
        PROVE  ProjectKnown(u, s)
    BY <1>3 DEF ProjectKnown, Checkpoint, JobOf
  <1> QED
    BY <1>1, <1>2, <1>3

LEMMA ProjectCheckpointGrows ==
    ASSUME NEW t, NEW u, NEW id, NEW p, NEW h, NEW state, NEW s,
           u.checkpoint = Checkpoint(t, id, <<"project", p, h>>, state)
    PROVE  /\ \A q, g : CheckpointDone(t, s, FileOf(s, q, g)) => CheckpointDone(u, s, FileOf(s, q, g))
           /\ \A j : CheckpointDone(t, s, JobOf(s, j)) => CheckpointDone(u, s, JobOf(s, j))
           /\ ProjectKnown(t, s) => ProjectKnown(u, s)
  <1>1. ASSUME NEW q, NEW g, CheckpointDone(t, s, FileOf(s, q, g))
        PROVE  CheckpointDone(u, s, FileOf(s, q, g))
    <2>1. <<"project", p, h>>[1] # FileOf(s, q, g)[1]
      BY DEF FileOf
    <2> QED
      BY <1>1, <2>1, CheckpointKeeps
  <1>2. ASSUME NEW j, CheckpointDone(t, s, JobOf(s, j))
        PROVE  CheckpointDone(u, s, JobOf(s, j))
    <2>1. <<"project", p, h>>[1] # JobOf(s, j)[1]
      BY DEF JobOf
    <2> QED
      BY <1>2, <2>1, CheckpointKeeps
  <1>3. ASSUME ProjectKnown(t, s)
        PROVE  ProjectKnown(u, s)
    <2>1. PICK c \in t.checkpoint : c.of[1] = "project" /\ c.id = s
      BY <1>3 DEF ProjectKnown
    <2>2. CASE c.id = id /\ c.of[2] = p
      <3>1. [id |-> id, of |-> <<"project", p, h>>, state |-> state] \in u.checkpoint
        BY DEF Checkpoint
      <3> QED
        BY <2>1, <2>2, <3>1 DEF ProjectKnown
    <2>3. CASE ~(c.id = id /\ c.of[2] = p)
      <3>1. c \in u.checkpoint
        BY <2>1, <2>3 DEF Checkpoint
      <3> QED
        BY <2>1, <3>1 DEF ProjectKnown
    <2> QED
      BY <2>2, <2>3
  <1> QED
    BY <1>1, <1>2, <1>3

LEMMA CopyGrows ==
    ASSUME LegacyTypes, CopyStep
    PROVE  Grown(target, target')
  <1>1. CASE SetupProject
    <2>1. SameRows /\ SameRecords /\ target'.sealed = target.sealed
      BY <1>1, SetupFields
    <2> QED
      BY <2>1 DEF Grown, SameRows, SameRecords, CheckpointDone, ProjectKnown
  <1>2. CASE PersistFile
    <2>1. PICK f \in Files :
             /\ SameScans /\ target.rows \subseteq target'.rows
             /\ target'.provenance = UpsertProvenance(FileFact(run.project, f))
             /\ target'.checkpoint =
                   Checkpoint(target, run.snap, FileFact(run.project, f), "COMPLETED")
      BY <1>2, PersistFields
    <2>2. target'.checkpoint =
                   Checkpoint(target, run.snap, FileOf(run.snap, run.project, f), "COMPLETED")
      BY <2>1 DEF FileFact, FileOf
    <2> QED
      BY <2>1, <2>2, FileCheckpointGrows DEF Grown, SameScans, UpsertProvenance
  <1>3. CASE ProjectReady
    <2>1. /\ SameScans /\ SameRows
          /\ target.provenance \subseteq target'.provenance
          /\ target'.checkpoint =
                 Checkpoint(target, run.snap, ProjectFact(run.project), "READY_TO_PUBLISH")
      BY <1>3, ReadyFields DEF UpsertProvenance
    <2>2. PICK h : ProjectFact(run.project) = <<"project", run.project, h>>
      BY DEF ProjectFact
    <2> QED
      BY <2>1, <2>2, ProjectCheckpointGrows DEF Grown, SameScans, SameRows
  <1>4. CASE RestoreJob
    <2>1. PICK j \in Jobs :
             /\ SameScans /\ SameRows
             /\ target.provenance \subseteq target'.provenance
             /\ target'.checkpoint = Checkpoint(target, run.snap, JobFact(j), "COMPLETED")
      BY <1>4, JobFields DEF UpsertProvenance
    <2>2. target'.checkpoint = Checkpoint(target, run.snap, JobOf(run.snap, j), "COMPLETED")
      BY <2>1 DEF JobFact, JobOf
    <2> QED
      BY <2>1, <2>2, JobCheckpointGrows DEF Grown, SameScans, SameRows
  <1>5. CASE AnalysisDomain
    <2>1. SameScans /\ SameRecords /\ target'.rows = target.rows
      BY <1>5, DomainFields
    <2> QED
      BY <2>1 DEF Grown, SameScans, SameRecords, CheckpointDone, ProjectKnown
  <1>6. CASE FileStateReady
    <2>1. PICK p \in run.todo :
             /\ SameScans /\ SameRows /\ target'.provenance = target.provenance
             /\ target'.checkpoint =
                   Checkpoint(target, run.snap, ProjectFact(p), "READY_TO_PUBLISH")
      BY <1>6, FileStateFields
    <2>2. PICK h : ProjectFact(p) = <<"project", p, h>>
      BY DEF ProjectFact
    <2> QED
      BY <2>1, <2>2, ProjectCheckpointGrows DEF Grown, SameScans, SameRows
  <1> QED
    BY <1>1, <1>2, <1>3, <1>4, <1>5, <1>6 DEF CopyStep

LEMMA PublishGrows ==
    ASSUME LegacyTypes, Publish, MayPublish, Projects # {}
    PROVE  Grown(target, target') /\ ProjectKnown(target', run.snap)
  <1>1. /\ SameRows /\ target'.provenance = target.provenance
        /\ target.sealed \subseteq target'.sealed
        /\ target'.checkpoint =
                 {c \in target.checkpoint : ~(c.id = run.snap /\ c.of[1] = "project")}
                    \cup {[id |-> run.snap, of |-> ProjectFact(p), state |-> "PUBLISHED"] :
                          p \in Projects}
    BY PublishFields
  <1>2. PICK p \in Projects : TRUE
    OBVIOUS
  <1>3. [id |-> run.snap, of |-> ProjectFact(p), state |-> "PUBLISHED"] \in target'.checkpoint
    BY <1>1
  <1>4. ProjectKnown(target', run.snap)
    BY <1>3 DEF ProjectKnown, ProjectFact
  <1>5. ASSUME NEW c \in target.checkpoint, c.of[1] # "project"
        PROVE  c \in target'.checkpoint
    BY <1>1, <1>5
  <1>6. ASSUME NEW s, NEW q, NEW f, CheckpointDone(target, s, FileOf(s, q, f))
        PROVE  CheckpointDone(target', s, FileOf(s, q, f))
    BY <1>5, <1>6 DEF CheckpointDone, FileOf
  <1>7. ASSUME NEW s, NEW j, CheckpointDone(target, s, JobOf(s, j))
        PROVE  CheckpointDone(target', s, JobOf(s, j))
    BY <1>5, <1>7 DEF CheckpointDone, JobOf
  <1>8. ASSUME NEW s, ProjectKnown(target, s)
        PROVE  ProjectKnown(target', s)
    <2>1. CASE s = run.snap
      BY <1>4, <2>1
    <2>2. CASE s # run.snap
      BY <1>1, <1>8, <2>2 DEF ProjectKnown
    <2> QED
      BY <2>1, <2>2
  <1> QED
    BY <1>1, <1>4, <1>6, <1>7, <1>8 DEF Grown, SameRows

-----------------------------------------------------------------------------
(* The Legacy route: checkpoints are true *)

TrueAt(t, c) ==
    /\ [id |-> c.id, fact |-> c.of] \in t.provenance
    /\ c.of[1] = "file" =>
          \E r \in t.rows : /\ r.scan = ScanKey(c.id, c.of[2][1])
                            /\ r.file = c.of[2][2] /\ r.content = c.of[3]

LEMMA TrueKept ==
    ASSUME CheckpointIsTrue,
           target.rows \subseteq target'.rows, target.provenance \subseteq target'.provenance,
           \A c \in target'.checkpoint :
               c.state = "COMPLETED" => c \in target.checkpoint \/ TrueAt(target', c)
    PROVE  CheckpointIsTrue'
  <1>1. ASSUME NEW c \in target'.checkpoint, c.state = "COMPLETED"
        PROVE  TrueAt(target', c)
    <2>1. CASE c \in target.checkpoint
      <3>1. TrueAt(target, c)
        BY <1>1, <2>1 DEF CheckpointIsTrue, TrueAt
      <3> QED
        BY <3>1 DEF TrueAt
    <2> QED
      BY <1>1, <2>1
  <1> QED
    BY <1>1 DEF CheckpointIsTrue, TrueAt

LEMMA TrueStep ==
    ASSUME LegacyTypes, CheckpointIsTrue, CopyStep
    PROVE  CheckpointIsTrue'
  <1>1. target.rows \subseteq target'.rows /\ target.provenance \subseteq target'.provenance
    BY CopyGrows DEF Grown
  <1>2. ASSUME NEW c \in target'.checkpoint, c.state = "COMPLETED"
        PROVE  c \in target.checkpoint \/ TrueAt(target', c)
    <2>1. CASE SetupProject
      <3>1. SameRecords
        BY <2>1, SetupFields
      <3> QED
        BY <3>1 DEF SameRecords
    <2>2. CASE PersistFile
      <3>1. PICK f \in Files :
             /\ target'.rows = target.rows \cup
                   {[scan |-> ScanOf(run.project), file |-> f,
                     content |-> run.snap.file[<<run.project, f>>]]}
             /\ target'.provenance = UpsertProvenance(FileFact(run.project, f))
             /\ target'.checkpoint =
                   Checkpoint(target, run.snap, FileFact(run.project, f), "COMPLETED")
        BY <2>2, PersistFields
      <3>2. CASE c = [id |-> run.snap, of |-> FileFact(run.project, f), state |-> "COMPLETED"]
        <4>1. [id |-> c.id, fact |-> c.of] \in target'.provenance
          BY <3>1, <3>2 DEF UpsertProvenance
        <4>2. c.id = run.snap /\ c.of[2][1] = run.project /\ c.of[2][2] = f
              /\ c.of[3] = run.snap.file[<<run.project, f>>]
          BY <3>2 DEF FileFact
        <4>3. PICK r : r = [scan |-> ScanOf(run.project), file |-> f,
                            content |-> run.snap.file[<<run.project, f>>]]
          OBVIOUS
        <4>4. r \in target'.rows /\ r.scan = ScanKey(c.id, c.of[2][1]) /\ r.file = c.of[2][2]
              /\ r.content = c.of[3]
          BY <3>1, <4>2, <4>3 DEF ScanOf
        <4> QED
          BY <4>1, <4>4 DEF TrueAt
      <3>3. CASE c # [id |-> run.snap, of |-> FileFact(run.project, f), state |-> "COMPLETED"]
        BY <3>1, <3>3 DEF Checkpoint
      <3> QED
        BY <3>2, <3>3
    <2>3. CASE ProjectReady
      <3>1. target'.checkpoint =
                 Checkpoint(target, run.snap, ProjectFact(run.project), "READY_TO_PUBLISH")
        BY <2>3, ReadyFields
      <3> QED
        BY <1>2, <3>1 DEF Checkpoint
    <2>4. CASE RestoreJob
      <3>1. PICK j \in Jobs :
             /\ target'.provenance = UpsertProvenance(JobFact(j))
             /\ target'.checkpoint = Checkpoint(target, run.snap, JobFact(j), "COMPLETED")
        BY <2>4, JobFields
      <3>2. CASE c = [id |-> run.snap, of |-> JobFact(j), state |-> "COMPLETED"]
        <4>1. [id |-> c.id, fact |-> c.of] \in target'.provenance
          BY <3>1, <3>2 DEF UpsertProvenance
        <4>2. c.of[1] # "file"
          BY <3>2 DEF JobFact
        <4> QED
          BY <4>1, <4>2 DEF TrueAt
      <3>3. CASE c # [id |-> run.snap, of |-> JobFact(j), state |-> "COMPLETED"]
        BY <3>1, <3>3 DEF Checkpoint
      <3> QED
        BY <3>2, <3>3
    <2>5. CASE AnalysisDomain
      <3>1. SameRecords
        BY <2>5, DomainFields
      <3> QED
        BY <3>1 DEF SameRecords
    <2>6. CASE FileStateReady
      <3>1. PICK p \in run.todo :
              target'.checkpoint = Checkpoint(target, run.snap, ProjectFact(p), "READY_TO_PUBLISH")
        BY <2>6, FileStateFields
      <3> QED
        BY <1>2, <3>1 DEF Checkpoint
    <2> QED
      BY <2>1, <2>2, <2>3, <2>4, <2>5, <2>6 DEF CopyStep
  <1> QED
    BY <1>1, <1>2, TrueKept

(* The row of a file that is done. *)
LEMMA DoneHasRow ==
    ASSUME LegacyTypes, CheckpointIsTrue, NEW s \in Snapshot, NEW p \in Projects, NEW f \in Files,
           CheckpointDone(target, s, FileOf(s, p, f))
    PROVE  /\ [id |-> s, fact |-> FileOf(s, p, f)] \in target.provenance
           /\ \E r \in target.rows :
                 r.scan = ScanKey(s, p) /\ r.file = f /\ r.content = s.file[<<p, f>>]
  <1>1. PICK c : c = [id |-> s, of |-> FileOf(s, p, f), state |-> "COMPLETED"]
    OBVIOUS
  <1>2. c \in target.checkpoint /\ c.state = "COMPLETED" /\ c.id = s /\ c.of = FileOf(s, p, f)
    BY <1>1 DEF CheckpointDone
  <1>3. /\ [id |-> c.id, fact |-> c.of] \in target.provenance
        /\ c.of[1] = "file" =>
             \E r \in target.rows : /\ r.scan = ScanKey(c.id, c.of[2][1])
                                    /\ r.file = c.of[2][2] /\ r.content = c.of[3]
    BY <1>2 DEF CheckpointIsTrue
  <1>4. c.of[1] = "file" /\ c.of[2][1] = p /\ c.of[2][2] = f /\ c.of[3] = s.file[<<p, f>>]
    BY <1>2 DEF FileOf
  <1> QED
    BY <1>2, <1>3, <1>4

-----------------------------------------------------------------------------
(* The Legacy route: what a run is through with *)

LEMMA FilesDoneGrows ==
    ASSUME NEW t, NEW u, Grown(t, u), NEW s, NEW p, FilesDone(t, s, p)
    PROVE  FilesDone(u, s, p)
  BY DEF Grown, FilesDone, FileOf

LEMMA CopiedStep ==
    ASSUME LegacyTypes, CopiedInv, CopyStep
    PROVE  CopiedInv'
  <1>1. Grown(target, target') /\ run'.snap = run.snap
    BY CopyGrows, CopyTypes
  <1>2. \A p : FilesDone(target, run.snap, p) => FilesDone(target', run'.snap, p)
    BY <1>1, FilesDoneGrows
  <1>3. run \in RunnerState /\ run.todo \in SUBSET (Projects \cup Nat)
    BY DEF LegacyTypes, RunnerState
  <1>4. CASE SetupProject
    <2>1. PICK p \in run.todo : run' = [run EXCEPT !.place = "files", !.project = p, !.todo = @ \ {p}]
      BY <1>4, SetupFields
    <2>2. run'.place = "files" /\ run'.project = p /\ run'.todo = run.todo \ {p}
      BY <1>3, <2>1 DEF RunnerState
    <2>3. \A q \in Projects \ run.todo : FilesDone(target, run.snap, q)
      BY <1>4 DEF CopiedInv, SetupProject, At
    <2>4. run'.todo \cup {run'.project} = run.todo
      BY <2>1, <2>2
    <2> QED
      BY <1>2, <2>2, <2>3, <2>4 DEF CopiedInv
  <1>5. CASE PersistFile
    <2>1. PICK f \in Files : UNCHANGED run
      BY <1>5, PersistFields
    <2>2. run.place = "files"
      BY <1>5 DEF PersistFile, At
    <2> QED
      BY <1>2, <2>1, <2>2 DEF CopiedInv
  <1>6. CASE ProjectReady
    <2>1. run.place = "files" /\ FilesLeft = {} /\ run' = [run EXCEPT !.place = "projects"]
      BY <1>6, ReadyFields
    <2>2. run'.place = "projects" /\ run'.todo = run.todo
      BY <1>3, <2>1 DEF RunnerState
    <2>3. FilesDone(target, run.snap, run.project)
      BY <2>1 DEF FilesLeft, FilesDone, FileFact
    <2>4. \A q \in Projects \ run.todo : FilesDone(target, run.snap, q)
      BY <2>1, <2>3 DEF CopiedInv
    <2> QED
      BY <1>2, <2>2, <2>4 DEF CopiedInv
  <1>7. CASE RestoreJob
    <2>1. PICK j \in Jobs : run.place = "jobs" /\ UNCHANGED run
      BY <1>7, JobFields
    <2> QED
      BY <1>2, <2>1 DEF CopiedInv
  <1>8. CASE AnalysisDomain
    <2>1. run.place = "jobs" /\ run' = [run EXCEPT !.place = "gate"] /\ target'.domain = target'.rows
      BY <1>8, DomainFields
    <2>2. run'.place = "gate"
      BY <1>3, <2>1 DEF RunnerState
    <2> QED
      BY <1>2, <2>1, <2>2 DEF CopiedInv
  <1>9. CASE FileStateReady
    <2>1. PICK p \in run.todo :
             /\ p \in Projects /\ run.place = "filestate" /\ target \in Target
             /\ run' = [run EXCEPT !.todo = @ \ {p}] /\ SameRows
             /\ target'.version = target.version
             /\ target'.fileState = [target.fileState EXCEPT ![p] = run.snap.version[p]]
      BY <1>9, FileStateFields DEF LegacyTypes
    <2>2. run'.place = "filestate" /\ run'.todo = run.todo \ {p}
      BY <1>3, <2>1 DEF RunnerState
    <2>3. \A q \in Projects \ run'.todo : target'.fileState[q] = run'.snap.version[q]
      BY <1>1, <2>1, <2>2 DEF CopiedInv, Target
    <2>4. /\ \A q \in Projects : target'.version[q] = run'.snap.version[q]
          /\ target'.domain = target'.rows
      BY <1>1, <2>1 DEF CopiedInv, SameRows
    <2>5. \A q \in Projects : FilesDone(target', run'.snap, q)
      BY <1>2, <2>1 DEF CopiedInv
    <2> QED
      BY <2>2, <2>3, <2>4, <2>5 DEF CopiedInv
  <1> QED
    BY <1>4, <1>5, <1>6, <1>7, <1>8, <1>9 DEF CopyStep

-----------------------------------------------------------------------------
(* The Legacy route: what is published stays one snapshot *)

LEMMA CopyWrites ==
    ASSUME LegacyTypes, CopiedInv, CopyStep
    PROVE  /\ target'.sealed = target.sealed /\ target'.current = target.current
           /\ target.domain \subseteq target'.domain
           /\ \A p \in Projects : target.version[p] # None => target'.version[p] = target.version[p]
           /\ \A p \in Projects : \/ target'.fileState[p] = target.fileState[p]
                                  \/ target'.fileState[p] = target.version[p]
  <1>1. target \in Target /\ target.domain \subseteq target.rows
    BY DEF LegacyTypes
  <1>2. CASE SetupProject
    <2>1. PICK p \in run.todo :
             /\ p \in Projects /\ SameRows
             /\ target'.sealed = target.sealed /\ target'.current = target.current
             /\ target'.fileState = target.fileState
             /\ ScanOf(p) \in target.sealed => target'.version = target.version
             /\ ScanOf(p) \notin target.sealed =>
                   target'.version = [target.version EXCEPT ![p] =
                          IF target.version[p] = None THEN run.snap.version[p] ELSE target.version[p]]
      BY <1>2, SetupFields
    <2>2. \A q \in Projects : target.version[q] # None => target'.version[q] = target.version[q]
      BY <1>1, <2>1 DEF Target
    <2> QED
      BY <2>1, <2>2 DEF SameRows
  <1>3. CASE PersistFile
    <2>1. SameScans /\ SameState /\ target'.domain = target.domain
      BY <1>3, PersistFields
    <2> QED
      BY <2>1 DEF SameScans, SameState
  <1>4. CASE ProjectReady
    <2>1. SameScans /\ SameState /\ SameRows
      BY <1>4, ReadyFields
    <2> QED
      BY <2>1 DEF SameScans, SameState, SameRows
  <1>5. CASE RestoreJob
    <2>1. SameScans /\ SameState /\ SameRows
      BY <1>5, JobFields
    <2> QED
      BY <2>1 DEF SameScans, SameState, SameRows
  <1>6. CASE AnalysisDomain
    <2>1. SameScans /\ SameState /\ target'.domain = target.rows
      BY <1>6, DomainFields
    <2> QED
      BY <1>1, <2>1 DEF SameScans, SameState
  <1>7. CASE FileStateReady
    <2>1. PICK p \in run.todo :
             /\ p \in Projects /\ run.place = "filestate" /\ SameScans /\ SameRows
             /\ target'.version = target.version
             /\ target'.fileState = [target.fileState EXCEPT ![p] = run.snap.version[p]]
      BY <1>7, FileStateFields
    <2>2. target.version[p] = run.snap.version[p]
      BY <2>1 DEF CopiedInv
    <2>3. \A q \in Projects : \/ target'.fileState[q] = target.fileState[q]
                              \/ target'.fileState[q] = target.version[q]
      BY <1>1, <2>1, <2>2 DEF Target
    <2> QED
      BY <2>1, <2>3 DEF SameScans, SameRows
  <1> QED
    BY <1>2, <1>3, <1>4, <1>5, <1>6, <1>7 DEF CopyStep

LEMMA PublishedKept ==
    ASSUME LegacyTypes, CopiedInv, PublishedIsOneSnapshot, CopyStep
    PROVE  PublishedIsOneSnapshot'
  <1>1. target'.sealed = target.sealed /\ target'.current = target.current
    BY CopyWrites
  <1>2. CASE target.sealed = {} /\ \A p \in Projects : target.current[p] = None
    BY <1>1, <1>2 DEF PublishedIsOneSnapshot
  <1>3. CASE \E c \in target.checkpoint : c.of[1] = "project" /\ PublishedFrom(c.id)
    <2>1. PICK c \in target.checkpoint : c.of[1] = "project" /\ PublishedFrom(c.id)
      BY <1>3
    <2>2. PICK s \in Snapshot : s = c.id
      BY DEF LegacyTypes, Target, CheckpointRow
    <2>3. ProjectKnown(target', s)
      BY <2>1, <2>2, CopyGrows DEF Grown, ProjectKnown
    <2>4. ASSUME NEW p \in Projects
          PROVE  /\ target'.current[p] = ScanKey(s, p)
                 /\ ScanKey(s, p) \in target'.sealed
                 /\ \A f \in Files : \E r \in target'.domain :
                       r.scan = ScanKey(s, p) /\ r.file = f /\ r.content = s.file[<<p, f>>]
                 /\ target'.version[p] = s.version[p]
                 /\ target'.fileState[p] = s.version[p]
      <3>1. /\ target.current[p] = ScanKey(s, p)
            /\ ScanKey(s, p) \in target.sealed
            /\ \A f \in Files : \E r \in target.domain :
                  r.scan = ScanKey(s, p) /\ r.file = f /\ r.content = s.file[<<p, f>>]
            /\ target.version[p] = s.version[p]
            /\ target.fileState[p] = s.version[p]
        BY <2>1, <2>2 DEF PublishedFrom
      <3>2. s.version[p] \in Nat /\ s.version[p] # None
        BY SnapshotFields, NoneAssumption
      <3>3. /\ target.domain \subseteq target'.domain
            /\ target.version[p] # None => target'.version[p] = target.version[p]
            /\ \/ target'.fileState[p] = target.fileState[p]
               \/ target'.fileState[p] = target.version[p]
        BY CopyWrites
      <3> QED
        BY <1>1, <3>1, <3>2, <3>3
    <2>5. PublishedFrom(s)'
      BY <2>4 DEF PublishedFrom
    <2>6. PICK d \in target'.checkpoint : d.of[1] = "project" /\ d.id = s
      BY <2>3 DEF ProjectKnown
    <2> QED
      BY <2>5, <2>6 DEF PublishedIsOneSnapshot
  <1> QED
    BY <1>2, <1>3 DEF PublishedIsOneSnapshot

LEMMA PublishedStep ==
    ASSUME CopyInv, Publish, MayPublish
    PROVE  CheckpointIsTrue' /\ PublishedIsOneSnapshot'
  <1> USE DEF CopyInv
  <1>1. /\ run.place = "filestate" /\ run.snap \in Snapshot /\ run.todo = {} /\ target' \in Target
        /\ SameRows /\ SameState /\ target'.provenance = target.provenance
        /\ target'.sealed = target.sealed \cup {ScanOf(p) : p \in Projects}
        /\ target'.current = [p \in Projects |-> ScanOf(p)]
        /\ target'.checkpoint =
                 {c \in target.checkpoint : ~(c.id = run.snap /\ c.of[1] = "project")}
                    \cup {[id |-> run.snap, of |-> ProjectFact(p), state |-> "PUBLISHED"] :
                          p \in Projects}
    BY PublishFields
  <1>2. CheckpointIsTrue'
    <2>1. \A c \in target'.checkpoint : c.state = "COMPLETED" => c \in target.checkpoint
      BY <1>1
    <2> QED
      BY <1>1, <2>1, TrueKept DEF SameRows
  <1>3. PublishedIsOneSnapshot'
    <2>1. CASE Projects = {}
      <3>1. target'.sealed = {}
        BY <1>1, <2>1 DEF Target, Scans
      <3> QED
        BY <2>1, <3>1 DEF PublishedIsOneSnapshot
    <2>2. CASE Projects # {}
      <3>1. PICK s \in Snapshot : s = run.snap
        BY <1>1
      <3>2. ProjectKnown(target', s)
        BY <2>2, <3>1, PublishGrows
      <3>3. ASSUME NEW p \in Projects
            PROVE  /\ target'.current[p] = ScanKey(s, p)
                   /\ ScanKey(s, p) \in target'.sealed
                   /\ \A f \in Files : \E r \in target'.domain :
                         r.scan = ScanKey(s, p) /\ r.file = f /\ r.content = s.file[<<p, f>>]
                   /\ target'.version[p] = s.version[p]
                   /\ target'.fileState[p] = s.version[p]
        <4>1. ScanOf(p) = ScanKey(s, p)
          BY <3>1 DEF ScanOf
        <4>2. FilesDone(target, s, p) /\ target.domain = target.rows
              /\ target.version[p] = s.version[p] /\ target.fileState[p] = s.version[p]
          BY <1>1, <3>1 DEF CopiedInv
        <4>3. ASSUME NEW f \in Files
              PROVE  \E r \in target'.domain :
                         r.scan = ScanKey(s, p) /\ r.file = f /\ r.content = s.file[<<p, f>>]
          <5>1. CheckpointDone(target, s, FileOf(s, p, f))
            BY <4>2 DEF FilesDone, FileOf
          <5>2. \E r \in target.rows :
                    r.scan = ScanKey(s, p) /\ r.file = f /\ r.content = s.file[<<p, f>>]
            BY <5>1, DoneHasRow
          <5> QED
            BY <1>1, <4>2, <5>2 DEF SameRows
        <4> QED
          BY <1>1, <4>1, <4>2, <4>3 DEF SameState
      <3>4. PublishedFrom(s)'
        BY <3>3 DEF PublishedFrom
      <3>5. PICK d \in target'.checkpoint : d.of[1] = "project" /\ d.id = s
        BY <3>2 DEF ProjectKnown
      <3> QED
        BY <3>4, <3>5 DEF PublishedIsOneSnapshot
    <2> QED
      BY <2>1, <2>2
  <1> QED
    BY <1>2, <1>3

(* Steps that leave the target's rows as they are. *)
LEMMA SameBusinessKeeps ==
    ASSUME SameBusiness
    PROVE  /\ CheckpointIsTrue => CheckpointIsTrue'
           /\ PublishedIsOneSnapshot => PublishedIsOneSnapshot'
  <1>1. CheckpointIsTrue => CheckpointIsTrue'
    BY DEF CheckpointIsTrue, SameBusiness, SameRows, SameRecords
  <1>2. ASSUME NEW s, PublishedFrom(s)
        PROVE  PublishedFrom(s)'
    BY <1>2 DEF PublishedFrom, SameBusiness, SameScans, SameRows, SameState
  <1>3. ASSUME PublishedIsOneSnapshot
        PROVE  PublishedIsOneSnapshot'
    <2>1. CASE target.sealed = {} /\ \A p \in Projects : target.current[p] = None
      BY <2>1 DEF PublishedIsOneSnapshot, SameBusiness, SameScans
    <2>2. CASE \E c \in target.checkpoint : c.of[1] = "project" /\ PublishedFrom(c.id)
      <3>1. PICK c \in target.checkpoint : c.of[1] = "project" /\ PublishedFrom(c.id)
        BY <2>2
      <3>2. c \in target'.checkpoint /\ PublishedFrom(c.id)'
        BY <1>2, <3>1 DEF SameBusiness, SameRecords
      <3> QED
        BY <3>1, <3>2 DEF PublishedIsOneSnapshot
    <2> QED
      BY <1>3, <2>1, <2>2 DEF PublishedIsOneSnapshot
  <1> QED
    BY <1>1, <1>3

(* The places at which a run has copied nothing yet, or is over. *)
LEMMA NotCopying ==
    ASSUME run.place \notin Copying
    PROVE  CopiedInv
  BY DEF CopiedInv, Copying

(* The kinds of steps. *)
LEMMA StepKinds ==
    ASSUME Next
    PROVE  \/ (\E u \in Units : EditSource(u)) \/ (\E j \in Jobs : FinishJob(j))
           \/ Begin \/ Crash \/ Preflight \/ ReadSource \/ SealedScanRefused \/ BeginJobs
           \/ SemanticGate
           \/ RecordPreflight \/ StartSchema \/ RunStatement \/ StatementFails \/ MarkApplied
           \/ CopyStep
           \/ Publish
  BY DEF Next, Runner, ApplySchema, MigrateLegacy, CopyStep

LEMMA CopyInvStep ==
    ASSUME CopyInv, [Next]_vars
    PROVE  CopyInv'
  <1> USE DEF CopyInv
  <1>1. ASSUME LegacyTypes', target' = target, CopiedInv'
        PROVE  CopyInv'
    BY <1>1, SameBusinessKeeps DEF SameBusiness, SameScans, SameRows, SameState, SameRecords
  <1>2. CASE UNCHANGED vars
    <2>1. LegacyTypes' /\ CopiedInv' /\ target' = target
      BY <1>2 DEF vars, LegacyTypes, CopiedInv
    <2> QED
      BY <1>1, <2>1
  <1>3. CASE (\E u \in Units : EditSource(u)) \/ (\E j \in Jobs : FinishJob(j))
    <2>1. LegacyTypes' /\ target' = target /\ run' = run
      BY <1>3, SourceTypes
    <2>2. CopiedInv'
      BY <2>1 DEF CopiedInv
    <2> QED
      BY <1>1, <2>1, <2>2
  <1>4. CASE \/ Begin \/ Crash \/ Preflight \/ ReadSource \/ SealedScanRefused \/ BeginJobs
             \/ SemanticGate
    <2>1. LegacyTypes' /\ target' = target
      BY <1>4, LooksTypes DEF LooksOnly
    <2>2. run \in RunnerState
      BY DEF LegacyTypes
    <2>3. ASSUME NEW place, Stop(place), place \in {"idle"} \cup Terminal
          PROVE  run'.place \notin Copying
      BY <2>3 DEF Stop, Idle, Terminal, Copying
    <2>4. CASE Begin \/ Crash \/ Preflight \/ SealedScanRefused
      <3>1. run'.place \notin Copying
        <4>1. CASE Begin
          BY <4>1 DEF Begin, Idle, Copying
        <4>2. CASE Crash
          BY <2>3, <4>2 DEF Crash
        <4>3. CASE Preflight
          <5>1. CASE Stop("REFUSED")
            BY <2>3, <5>1 DEF Terminal
          <5>2. CASE Goto(IF target.ledger = "APPLIED" THEN "read" ELSE "ledger")
            BY <2>2, <5>2 DEF Goto, RunnerState, Copying
          <5> QED
            BY <4>3, <5>1, <5>2 DEF Preflight
        <4>4. CASE SealedScanRefused
          BY <2>3, <4>4 DEF SealedScanRefused, Terminal
        <4> QED
          BY <2>4, <4>1, <4>2, <4>3, <4>4
      <3> QED
        BY <1>1, <2>1, <3>1, NotCopying DEF CopiedInv, Copying
    <2>5. CASE ReadSource
      <3>1. run'.place = "projects" /\ run'.todo = Projects
        BY <2>2, <2>5 DEF ReadSource, RunnerState
      <3>2. CopiedInv'
        BY <3>1 DEF CopiedInv
      <3> QED
        BY <1>1, <2>1, <3>2
    <2>6. CASE BeginJobs
      <3>1. run.place = "projects" /\ run.todo = {} /\ run'.place = "jobs" /\ run'.snap = run.snap
        BY <2>2, <2>6 DEF BeginJobs, RunnerState, At
      <3>2. CopiedInv'
        BY <2>1, <3>1 DEF CopiedInv
      <3> QED
        BY <1>1, <2>1, <3>2
    <2>7. CASE SemanticGate
      <3>1. CASE Stop("FAILED")
        <4>1. run'.place \notin Copying
          BY <2>3, <3>1 DEF Terminal
        <4> QED
          BY <1>1, <2>1, <4>1 DEF CopiedInv, Copying
      <3>2. CASE SemanticMatch(target, run.snap)
                 /\ run' = [run EXCEPT !.place = "filestate", !.todo = Projects]
        <4>1. /\ run.place = "gate" /\ run'.place = "filestate" /\ run'.todo = Projects
              /\ run'.snap = run.snap
          BY <2>2, <2>7, <3>2 DEF SemanticGate, RunnerState, At
        <4>2. \A p \in Projects : target.version[p] = run.snap.version[p]
          BY <3>2 DEF SemanticMatch, SameVersions
        <4>3. CopiedInv'
          BY <2>1, <4>1, <4>2 DEF CopiedInv
        <4> QED
          BY <1>1, <2>1, <4>3
      <3> QED
        BY <2>7, <3>1, <3>2 DEF SemanticGate
    <2> QED
      BY <1>4, <2>4, <2>5, <2>6, <2>7
  <1>5. CASE RecordPreflight \/ StartSchema \/ RunStatement \/ StatementFails \/ MarkApplied
    <2>1. SameBusiness /\ LegacyTypes'
      BY <1>5, SchemaFields, SchemaTypes
    <2>2. run \in RunnerState
      BY DEF LegacyTypes
    <2>3. run'.place \notin Copying
      <3>1. CASE RecordPreflight
        BY <2>2, <3>1 DEF RecordPreflight, Goto, RunnerState, Copying
      <3>2. CASE StartSchema
        BY <2>2, <3>2 DEF StartSchema, RunnerState, Copying
      <3>3. CASE RunStatement
        <4>1. run'.place = "ddl"
          BY <2>2, <3>3 DEF RunStatement, RunnerState, At
        <4> QED
          BY <4>1 DEF Copying
      <3>4. CASE StatementFails
        BY <3>4 DEF StatementFails, Idle, Copying
      <3>5. CASE MarkApplied
        BY <2>2, <3>5 DEF MarkApplied, Goto, RunnerState, Copying
      <3> QED
        BY <1>5, <3>1, <3>2, <3>3, <3>4, <3>5
    <2>4. CopiedInv'
      BY <2>3 DEF CopiedInv, Copying
    <2> QED
      BY <2>1, <2>4, SameBusinessKeeps
  <1>6. CASE CopyStep
    BY <1>6, CopyTypes, TrueStep, CopiedStep, PublishedKept
  <1>7. CASE Publish
    <2>1. LegacyTypes' /\ run'.place \in {"PASSED", "FAILED"} /\ (~MayPublish => target' = target)
      BY <1>7, PublishTypes
    <2>2. CopiedInv'
      BY <2>1 DEF CopiedInv
    <2>3. CASE MayPublish
      BY <1>7, <2>1, <2>2, <2>3, PublishedStep
    <2>4. CASE ~MayPublish
      BY <1>1, <2>1, <2>2, <2>4
    <2> QED
      BY <2>3, <2>4
  <1> QED
    BY <1>2, <1>3, <1>4, <1>5, <1>6, <1>7, StepKinds

-----------------------------------------------------------------------------
(* The Legacy route: the ledger *)

LEMMA SameBusinessRows ==
    ASSUME SameBusiness
    PROVE  BusinessRows(target') <=> BusinessRows(target)
  BY DEF BusinessRows, SameBusiness, SameScans, SameRows, SameState, SameRecords

LEMMA LedgerStep ==
    ASSUME LegacyTypes, LedgerInv, [Next]_vars
    PROVE  LedgerInv' /\ (Foreign(target') <=> Foreign(target))
  <1>1. target \in Target /\ run \in RunnerState
    BY DEF LegacyTypes
  <1>2. None \notin Ledger
    BY NoneAssumption DEF Ledger
  <1>3. ASSUME NEW place, Stop(place)
        PROVE  run'.place = place /\ target' = target
    BY <1>3 DEF Stop, Idle
  <1>4. CASE UNCHANGED vars
    BY <1>4 DEF vars, LedgerInv
  <1>5. CASE (\E u \in Units : EditSource(u)) \/ (\E j \in Jobs : FinishJob(j))
    <2>1. target' = target /\ run' = run
      BY <1>5, SourceTypes
    <2> QED
      BY <2>1 DEF LedgerInv
  <1>6. CASE Begin
    <2>1. target' = target /\ run'.place = "preflight"
      BY <1>6 DEF Begin, Idle
    <2> QED
      BY <2>1 DEF LedgerInv, Copying
  <1>7. CASE Crash
    <2>1. target' = target /\ run'.place = "idle"
      BY <1>3, <1>7 DEF Crash
    <2> QED
      BY <2>1 DEF LedgerInv, Copying
  <1>8. CASE Preflight
    <2>1. CASE Stop("REFUSED")
      <3>1. target' = target /\ run'.place = "REFUSED"
        BY <1>3, <2>1
      <3> QED
        BY <3>1 DEF LedgerInv, Copying
    <2>2. CASE Accepts(target) /\ Commit(target)
               /\ Goto(IF target.ledger = "APPLIED" THEN "read" ELSE "ledger")
      <3>1. target' = target /\ run'.place = IF target.ledger = "APPLIED" THEN "read" ELSE "ledger"
        BY <1>1, <2>2 DEF Commit, Goto, RunnerState
      <3>2. ~Foreign(target)
        BY <1>2, <2>2 DEF Foreign, Accepts, AssertEmpty, Ledger
      <3> QED
        BY <3>1, <3>2 DEF LedgerInv, Copying
    <2> QED
      BY <1>8, <2>1, <2>2 DEF Preflight
  <1>9. ASSUME ReadSource \/ SealedScanRefused \/ BeginJobs \/ SemanticGate
        PROVE  /\ target' = target /\ run'.place \in Copying \cup {"FAILED"}
               /\ run.place \in Copying \cup {"read"}
    <2>1. CASE ReadSource
      BY <1>1, <2>1 DEF ReadSource, At, RunnerState, Copying
    <2>2. CASE SealedScanRefused
      BY <1>3, <2>2 DEF SealedScanRefused, At, Copying
    <2>3. CASE BeginJobs
      BY <1>1, <2>3 DEF BeginJobs, At, RunnerState, Copying
    <2>4. CASE SemanticGate
      <3>1. CASE Stop("FAILED")
        BY <1>3, <2>4, <3>1 DEF SemanticGate, At, Copying
      <3>2. CASE run' = [run EXCEPT !.place = "filestate", !.todo = Projects] /\ target' = target
        BY <1>1, <2>4, <3>2 DEF SemanticGate, At, Copying, RunnerState
      <3> QED
        BY <2>4, <3>1, <3>2 DEF SemanticGate
    <2> QED
      BY <1>9, <2>1, <2>2, <2>3, <2>4
  <1>10. CASE ReadSource \/ SealedScanRefused \/ BeginJobs \/ SemanticGate
    <2>1. target.ledger = "APPLIED" /\ ~Foreign(target)
      BY <1>2, <1>9, <1>10 DEF LedgerInv, Foreign, Ledger
    <2> QED
      BY <1>9, <1>10, <2>1 DEF LedgerInv, Copying
  <1>11. CASE RecordPreflight \/ StartSchema \/ RunStatement \/ StatementFails \/ MarkApplied
    <2>1. SameBusiness
      BY <1>11, SchemaFields
    <2>2. run.place \in {"ledger", "start", "ddl"} /\ ~Foreign(target) /\ target.ledger # "APPLIED"
      <3>1. run.place \in {"ledger", "start", "ddl"}
        BY <1>11 DEF RecordPreflight, StartSchema, RunStatement, StatementFails, MarkApplied, At
      <3> QED
        BY <3>1 DEF LedgerInv
    <2>3. ~BusinessRows(target')
      BY <2>1, <2>2, SameBusinessRows DEF LedgerInv
    <2>4. /\ target'.ledger \in Ledger /\ run'.place \notin {"ledger"} \cup Copying
          /\ target'.ledger = "APPLIED" => target'.marker
          /\ run'.place \in {"start", "ddl"} => target'.ledger \in {"PREFLIGHTED", "STARTED"}
          /\ run'.place = "read" => target'.ledger = "APPLIED"
      <3>1. CASE RecordPreflight
        BY <1>1, <3>1 DEF RecordPreflight, Commit, Goto, Target, RunnerState, Ledger, Copying
      <3>2. CASE StartSchema
        BY <1>1, <3>2 DEF StartSchema, Commit, Target, RunnerState, Ledger, Copying
      <3>3. CASE RunStatement
        <4>1. run.place = "ddl" /\ run'.place = "ddl"
          BY <1>1, <3>3 DEF RunStatement, RunnerState, At
        <4>2. target.ledger \in {"PREFLIGHTED", "STARTED"}
          BY <4>1 DEF LedgerInv
        <4>3. target'.ledger = target.ledger
          BY <1>1, <3>3 DEF RunStatement, Commit, Target
        <4> QED
          BY <4>1, <4>2, <4>3 DEF Ledger, Copying
      <3>4. CASE StatementFails
        BY <1>1, <3>4 DEF StatementFails, Commit, Target, Idle, Ledger, Copying
      <3>5. CASE MarkApplied
        BY <1>1, <3>5 DEF MarkApplied, Commit, Goto, Target, RunnerState, Ledger, Copying
      <3> QED
        BY <1>11, <3>1, <3>2, <3>3, <3>4, <3>5
    <2>5. ~Foreign(target')
      BY <1>2, <2>4 DEF Foreign
    <2> QED
      BY <2>2, <2>3, <2>4, <2>5 DEF LedgerInv
  <1>12. CASE CopyStep
    <2>1. run.place \in Copying /\ run'.place \in Copying /\ SameSchema
      BY <1>12, CopyTypes
    <2>2. target.ledger = "APPLIED" /\ target.marker /\ ~Foreign(target)
      BY <1>2, <2>1 DEF LedgerInv, Foreign, Ledger
    <2>3. target'.ledger = "APPLIED" /\ target'.marker /\ ~Foreign(target')
      BY <1>2, <2>1, <2>2 DEF SameSchema, Foreign, Ledger
    <2> QED
      BY <2>1, <2>2, <2>3 DEF LedgerInv, Copying
  <1>13. CASE Publish
    <2>1. run.place = "filestate" /\ run'.place \in {"PASSED", "FAILED"}
          /\ (~MayPublish => target' = target)
      BY <1>13, PublishTypes
    <2>2. SameSchema
      BY <1>13, <2>1, PublishFields DEF SameSchema
    <2>3. target.ledger = "APPLIED" /\ target.marker /\ ~Foreign(target)
      BY <1>2, <2>1 DEF LedgerInv, Foreign, Ledger, Copying
    <2>4. target'.ledger = "APPLIED" /\ target'.marker /\ ~Foreign(target')
      BY <1>2, <2>2, <2>3 DEF SameSchema, Foreign, Ledger
    <2> QED
      BY <2>1, <2>3, <2>4 DEF LedgerInv, Copying
  <1> QED
    BY <1>4, <1>5, <1>6, <1>7, <1>8, <1>10, <1>11, <1>12, <1>13, StepKinds

(* A target that is not foreign is never refused. *)
LEMMA NotRefused ==
    ASSUME LegacyTypes, LedgerInv, ~Foreign(target)
    PROVE  Accepts(target)
  <1>1. target.ledger \in Ledger \cup {None} /\ target.ddl \in Nat
    BY DEF LegacyTypes, Target
  <1>2. CASE target.ledger = "APPLIED"
    BY <1>2 DEF LedgerInv, Accepts, AssertApplied
  <1>3. CASE target.ledger # "APPLIED"
    <2>1. ~BusinessRows(target)
      BY <1>3 DEF LedgerInv
    <2>2. target.ddl > 0 => target.ledger \in {"PREFLIGHTED", "STARTED", "FAILED"}
      BY <1>1, <1>3 DEF Foreign, Ledger
    <2> QED
      BY <1>3, <2>1, <2>2 DEF Accepts, AssertEmpty
  <1> QED
    BY <1>2, <1>3

-----------------------------------------------------------------------------
(* The Legacy route: a source that did not change passes every gate *)

LEMMA SameSize ==
    ASSUME NEW S, NEW T, IsFiniteSet(S), NEW g \in [S -> T],
           \A x, y \in S : g[x] = g[y] => x = y,
           \A z \in T : \E x \in S : g[x] = z
    PROVE  IsFiniteSet(T) /\ Cardinality(T) = Cardinality(S)
  <1>1. g \in Bijection(S, T)
    BY DEF Bijection, Injection, Surjection, IsInjective
  <1>2. ExistsBijection(S, T)
    BY <1>1 DEF ExistsBijection
  <1> QED
    BY <1>2, FS_Bijection

LEMMA FiniteUnits == IsFiniteSet(Units)
  BY ConstantsAssumption, FS_Product DEF Units

LEMMA FiniteProvenance == IsFiniteSet(SourceProvenance(Unedited))
  <1>1. IsFiniteSet({<<"file", u, Unedited.file[u]>> : u \in Units})
    <2>1. PICK T : T = {<<"file", u, Unedited.file[u]>> : u \in Units}
      OBVIOUS
    <2>2. PICK g : g = [u \in Units |-> <<"file", u, Unedited.file[u]>>]
      OBVIOUS
    <2>3. g \in [Units -> T] /\ \A z \in T : \E x \in Units : g[x] = z
      BY <2>1, <2>2
    <2>4. \A x, y \in Units : g[x] = g[y] => x = y
      BY <2>2
    <2>5. IsFiniteSet(T)
      BY <2>3, <2>4, FiniteUnits, SameSize
    <2> QED
      BY <2>1, <2>5
  <1>2. IsFiniteSet({<<"project_state", p, Unedited.version[p]>> : p \in Projects})
    <2>1. PICK T : T = {<<"project_state", p, Unedited.version[p]>> : p \in Projects}
      OBVIOUS
    <2>2. PICK g : g = [p \in Projects |-> <<"project_state", p, Unedited.version[p]>>]
      OBVIOUS
    <2>3. g \in [Projects -> T] /\ \A z \in T : \E x \in Projects : g[x] = z
      BY <2>1, <2>2
    <2>4. \A x, y \in Projects : g[x] = g[y] => x = y
      BY <2>2
    <2>5. IsFiniteSet(T)
      BY <2>3, <2>4, ConstantsAssumption, SameSize
    <2> QED
      BY <2>1, <2>5
  <1>3. IsFiniteSet({<<"job", j, Unedited.job[j]>> : j \in Jobs})
    <2>1. PICK T : T = {<<"job", j, Unedited.job[j]>> : j \in Jobs}
      OBVIOUS
    <2>2. PICK g : g = [j \in Jobs |-> <<"job", j, Unedited.job[j]>>]
      OBVIOUS
    <2>3. g \in [Jobs -> T] /\ \A z \in T : \E x \in Jobs : g[x] = z
      BY <2>1, <2>2
    <2>4. \A x, y \in Jobs : g[x] = g[y] => x = y
      BY <2>2
    <2>5. IsFiniteSet(T)
      BY <2>3, <2>4, ConstantsAssumption, SameSize
    <2> QED
      BY <2>1, <2>5
  <1> QED
    BY <1>1, <1>2, <1>3, FS_Union DEF SourceProvenance

LEMMA UneditedFields ==
    /\ Unedited \in Snapshot
    /\ \A p \in Projects, f \in Files : Unedited.file[<<p, f>>] = 0
    /\ \A p \in Projects : Unedited.version[p] = 0
    /\ \A j \in Jobs : Unedited.job[j] = "running"
  BY DEF Unedited, Snapshot, Units

(* Everything the unedited source holds is in the target, and nothing else. *)
LEMMA UneditedMatches ==
    ASSUME LegacyTypes, CheckpointIsTrue, OnlyUnedited(target),
           \A p \in Projects : FilesDone(target, Unedited, p) /\ StateDone(target, p),
           \A j \in Jobs : JobDone(target, j)
    PROVE  SemanticMatch(target, Unedited)
  <1>1. target \in Target
    BY DEF LegacyTypes
  <1>2. ASSUME NEW p \in Projects, NEW f \in Files
        PROVE  /\ [id |-> Unedited, fact |-> <<"file", <<p, f>>, 0>>] \in target.provenance
               /\ LineOf(<<p, f>>) \in target.rows
    <2>1. CheckpointDone(target, Unedited, FileOf(Unedited, p, f))
      BY DEF FilesDone, FileOf
    <2>2. /\ [id |-> Unedited, fact |-> FileOf(Unedited, p, f)] \in target.provenance
          /\ \E r \in target.rows :
                r.scan = ScanKey(Unedited, p) /\ r.file = f /\ r.content = Unedited.file[<<p, f>>]
      BY <2>1, UneditedFields, DoneHasRow
    <2>3. FileOf(Unedited, p, f) = <<"file", <<p, f>>, 0>> /\ Unedited.file[<<p, f>>] = 0
      BY UneditedFields DEF FileOf
    <2>4. PICK r \in target.rows : r.scan = ScanKey(Unedited, p) /\ r.file = f /\ r.content = 0
      BY <2>2, <2>3
    <2>5. r \in Line
      BY <1>1 DEF Target
    <2>6. r = [scan |-> ScanKey(Unedited, p), file |-> f, content |-> 0]
      BY <2>4, <2>5 DEF Line
    <2> QED
      BY <2>2, <2>3, <2>4, <2>6 DEF LineOf
  <1>3. target.rows = {LineOf(u) : u \in Units}
    <2>1. target.rows \subseteq {LineOf(u) : u \in Units}
      BY DEF OnlyUnedited
    <2>2. ASSUME NEW u \in Units
          PROVE  LineOf(u) \in target.rows
      <3>1. u[1] \in Projects /\ u[2] \in Files /\ u = <<u[1], u[2]>>
        BY DEF Units
      <3>2. LineOf(<<u[1], u[2]>>) \in target.rows
        BY <1>2, <3>1
      <3> QED
        BY <3>1, <3>2
    <2> QED
      BY <2>1, <2>2
  <1>4. SameLines(target, Unedited)
    <2>1. {<<r.scan[1], r.file, r.content>> : r \in target.rows}
             = {<<u[1], u[2], Unedited.file[u]>> : u \in Units}
      <3>1. \A u \in Units : LET r == LineOf(u)
                             IN  <<r.scan[1], r.file, r.content>> = <<u[1], u[2], Unedited.file[u]>>
        BY UneditedFields DEF LineOf, ScanKey, Units
      <3> QED
        BY <1>3, <3>1
    <2>2. Cardinality(target.rows) = Cardinality(Units)
      <3>1. PICK g : g = [u \in Units |-> LineOf(u)]
        OBVIOUS
      <3>2. g \in [Units -> target.rows] /\ \A z \in target.rows : \E x \in Units : g[x] = z
        BY <1>3, <3>1
      <3>3. ASSUME NEW x \in Units, NEW y \in Units, g[x] = g[y]
            PROVE  x = y
        <4>1. LineOf(x) = LineOf(y)
          BY <3>1, <3>3
        <4>2. LineOf(x).scan = LineOf(y).scan /\ LineOf(x).file = LineOf(y).file
          BY <4>1
        <4>3. x[1] = y[1] /\ x[2] = y[2]
          BY <4>2 DEF LineOf, ScanKey
        <4> QED
          BY <4>3 DEF Units
      <3> QED
        BY <3>2, <3>3, FiniteUnits, SameSize
    <2> QED
      BY <2>1, <2>2 DEF SameLines
  <1>5. ASSUME NEW j \in Jobs
        PROVE  [id |-> Unedited, fact |-> <<"job", j, "running">>] \in target.provenance
    <2>1. PICK c : c = [id |-> Unedited, of |-> <<"job", j, "running">>, state |-> "COMPLETED"]
      OBVIOUS
    <2>2. c \in target.checkpoint /\ c.state = "COMPLETED" /\ c.id = Unedited
          /\ c.of = <<"job", j, "running">>
      BY <2>1 DEF JobDone, CheckpointDone
    <2> QED
      BY <2>2 DEF CheckpointIsTrue
  <1>6. \A y \in SourceProvenance(Unedited) : [id |-> Unedited, fact |-> y] \in target.provenance
    <2>1. \A u \in Units : [id |-> Unedited, fact |-> <<"file", u, Unedited.file[u]>>] \in target.provenance
      BY <1>2, UneditedFields DEF Units
    <2>2. \A p \in Projects :
            [id |-> Unedited, fact |-> <<"project_state", p, Unedited.version[p]>>] \in target.provenance
      BY UneditedFields DEF StateDone
    <2>3. \A j \in Jobs : [id |-> Unedited, fact |-> <<"job", j, Unedited.job[j]>>] \in target.provenance
      BY <1>5, UneditedFields
    <2> QED
      BY <2>1, <2>2, <2>3 DEF SourceProvenance
  <1>7. \A x \in target.provenance : /\ x.fact \in SourceProvenance(Unedited)
                                     /\ x = [id |-> Unedited, fact |-> x.fact]
    BY <1>1 DEF OnlyUnedited, Target, ProvenanceRow
  <1>8. SameProvenance(target, Unedited)
    <2>1. {x.fact : x \in target.provenance} = SourceProvenance(Unedited)
      BY <1>6, <1>7
    <2>2. Cardinality(target.provenance) = Cardinality(SourceProvenance(Unedited))
      <3>1. PICK S : S = SourceProvenance(Unedited)
        OBVIOUS
      <3>2. PICK g : g = [y \in S |-> [id |-> Unedited, fact |-> y]]
        OBVIOUS
      <3>3. g \in [S -> target.provenance]
        BY <1>6, <3>1, <3>2
      <3>4. \A z \in target.provenance : \E x \in S : g[x] = z
        BY <1>7, <3>1, <3>2
      <3>5. \A x, y \in S : g[x] = g[y] => x = y
        BY <3>2
      <3> QED
        BY <3>1, <3>3, <3>4, <3>5, FiniteProvenance, SameSize
    <2> QED
      BY <2>1, <2>2 DEF SameProvenance
  <1>9. SameJobs(target, Unedited)
    BY UneditedFields DEF SameJobs, JobState, OnlyUnedited
  <1>10. SameVersions(target, Unedited)
    BY UneditedFields DEF SameVersions, StateDone
  <1> QED
    BY <1>4, <1>8, <1>9, <1>10 DEF SemanticMatch

LEMMA StateDoneGrows ==
    ASSUME NEW t, NEW u, Grown(t, u), NEW p, StateDone(t, p), u.version[p] = t.version[p]
    PROVE  StateDone(u, p)
  BY DEF Grown, StateDone

(* A copying step of an unedited source. *)
UneditedRun == LegacyTypes /\ CopiedInv /\ UneditedInv /\ run.place \in Copying

LEMMA UneditedCopies ==
    ASSUME UneditedRun, CopyStep
    PROVE  /\ OnlyUnedited(target')
           /\ \A p \in Projects : target.version[p] = 0 => target'.version[p] = 0
           /\ \A p \in Projects : StateDone(target, p) => StateDone(target', p)
  <1>1. /\ target \in Target /\ target' \in Target /\ run.snap = Unedited /\ OnlyUnedited(target)
        /\ run \in RunnerState /\ Grown(target, target') /\ UNCHANGED <<source, edits>>
    BY CopyGrows, CopyTypes DEF UneditedRun, LegacyTypes, UneditedInv
  <1>2. \A p \in Projects : target.version[p] # None => target'.version[p] = target.version[p]
    BY CopyWrites DEF UneditedRun
  <1>3. \A p \in Projects : target.version[p] = 0 => target'.version[p] = 0
    BY <1>2, NoneAssumption
  <1>4. \A p \in Projects : StateDone(target, p) => StateDone(target', p)
    BY <1>1, <1>3 DEF StateDone, Grown
  <1>5. target'.sealed = target.sealed /\ target'.current = target.current
    BY CopyWrites DEF UneditedRun
  <1>6. target'.sealed # {} =>
           \A p \in Projects : target'.version[p] = 0 /\ FilesDone(target', Unedited, p)
    BY <1>1, <1>3, <1>5, FilesDoneGrows DEF OnlyUnedited
  <1>7. \A p \in Projects : target'.version[p] \in {None, 0}
    <2>1. CASE SetupProject
      <3>1. PICK p \in Projects :
               /\ ScanOf(p) \in target.sealed => target'.version = target.version
               /\ ScanOf(p) \notin target.sealed =>
                   target'.version = [target.version EXCEPT ![p] =
                          IF target.version[p] = None THEN run.snap.version[p] ELSE target.version[p]]
        BY <2>1, SetupFields DEF UneditedRun
      <3>2. run.snap.version[p] = 0
        BY <1>1, UneditedFields
      <3>3. target'.version = target.version \/
              target'.version = [target.version EXCEPT ![p] =
                  IF target.version[p] = None THEN 0 ELSE target.version[p]]
        BY <3>1, <3>2
      <3> QED
        BY <1>1, <3>3 DEF OnlyUnedited, Target
    <2>2. CASE target'.version = target.version
      BY <1>1, <2>2 DEF OnlyUnedited
    <2>3. SetupProject \/ target'.version = target.version
      BY PersistFields, ReadyFields, JobFields, DomainFields, FileStateFields
         DEF CopyStep, SameState, UneditedRun
    <2> QED
      BY <2>1, <2>2, <2>3
  <1>8. \A p \in Projects : target'.current[p] \in {None, ScanKey(Unedited, p)}
    BY <1>1, <1>5 DEF OnlyUnedited
  <1>9. target'.rows \subseteq {LineOf(u) : u \in Units}
    <2>1. CASE PersistFile
      <3>1. PICK f \in Files :
               /\ run.project \in Projects
               /\ target'.rows = target.rows \cup
                   {[scan |-> ScanOf(run.project), file |-> f,
                     content |-> run.snap.file[<<run.project, f>>]]}
        BY <2>1, PersistFields DEF UneditedRun
      <3>2. [scan |-> ScanOf(run.project), file |-> f, content |-> run.snap.file[<<run.project, f>>]]
               = LineOf(<<run.project, f>>)
        BY <1>1, <3>1, UneditedFields DEF LineOf, ScanOf
      <3> QED
        BY <1>1, <3>1, <3>2 DEF OnlyUnedited, Units
    <2>2. PersistFile \/ target'.rows = target.rows
      BY SetupFields, ReadyFields, JobFields, DomainFields, FileStateFields
         DEF CopyStep, SameRows, UneditedRun
    <2> QED
      BY <1>1, <2>1, <2>2 DEF OnlyUnedited
  <1>10. ASSUME NEW x \in target'.provenance
         PROVE  x.id = Unedited /\ x.fact \in SourceProvenance(Unedited)
    <2>1. ASSUME NEW fact, fact \in SourceProvenance(Unedited),
                 target'.provenance = UpsertProvenance(fact)
          PROVE  x.id = Unedited /\ x.fact \in SourceProvenance(Unedited)
      BY <1>1, <2>1 DEF UpsertProvenance, OnlyUnedited
    <2>2. CASE target'.provenance = target.provenance
      BY <1>1, <2>2 DEF OnlyUnedited
    <2>3. CASE PersistFile
      <3>1. PICK f \in Files :
               /\ run.project \in Projects
               /\ target'.provenance = UpsertProvenance(FileFact(run.project, f))
        BY <2>3, PersistFields DEF UneditedRun
      <3>2. FileFact(run.project, f) \in SourceProvenance(Unedited)
        BY <1>1, <3>1 DEF FileFact, SourceProvenance, Units
      <3> QED
        BY <2>1, <3>1, <3>2
    <2>4. CASE ProjectReady
      <3>1. /\ run.project \in Projects
            /\ target'.provenance =
                 UpsertProvenance(<<"project_state", run.project, run.snap.version[run.project]>>)
        BY <2>4, ReadyFields DEF UneditedRun
      <3>2. <<"project_state", run.project, run.snap.version[run.project]>>
              \in SourceProvenance(Unedited)
        BY <1>1, <3>1 DEF SourceProvenance
      <3> QED
        BY <2>1, <3>1, <3>2
    <2>5. CASE RestoreJob
      <3>1. PICK j \in Jobs : target'.provenance = UpsertProvenance(JobFact(j))
        BY <2>5, JobFields DEF UneditedRun
      <3>2. JobFact(j) \in SourceProvenance(Unedited)
        BY <1>1 DEF JobFact, SourceProvenance
      <3> QED
        BY <2>1, <3>1, <3>2
    <2>6. \/ PersistFile \/ ProjectReady \/ RestoreJob
          \/ target'.provenance = target.provenance
      BY SetupFields, DomainFields, FileStateFields DEF CopyStep, SameRecords, UneditedRun
    <2> QED
      BY <2>2, <2>3, <2>4, <2>5, <2>6
  <1>11. ASSUME NEW j \in Jobs, JobDone(target', j)
         PROVE  target'.job[j] = "interrupted"
    <2>1. CASE RestoreJob
      <3>1. PICK i \in Jobs :
               /\ target'.job = [target.job EXCEPT ![i] = JobState(run.snap.job[i])]
               /\ target'.checkpoint = Checkpoint(target, run.snap, JobFact(i), "COMPLETED")
        BY <2>1, JobFields DEF UneditedRun
      <3>2. JobState(run.snap.job[i]) = "interrupted"
        BY <1>1, UneditedFields DEF JobState
      <3>3. CASE i = j
        BY <1>1, <3>1, <3>2, <3>3 DEF Target
      <3>4. CASE i # j
        <4>1. JobDone(target, j)
          BY <1>11, <3>1, <3>4 DEF JobDone, CheckpointDone, Checkpoint, JobFact
        <4> QED
          BY <1>1, <3>1, <3>4, <4>1 DEF OnlyUnedited, Target
      <3> QED
        BY <3>3, <3>4
    <2>2. CASE ~RestoreJob
      <3>1. target'.job = target.job
        BY <2>2, SetupFields, PersistFields, ReadyFields, DomainFields, FileStateFields
           DEF CopyStep, UneditedRun
      <3>2. JobDone(target, j)
        <4>1. CASE target'.checkpoint = target.checkpoint
          BY <1>11, <4>1 DEF JobDone, CheckpointDone
        <4>2. ASSUME NEW of, NEW state, target'.checkpoint = Checkpoint(target, run.snap, of, state),
                     of[1] # "job"
              PROVE  JobDone(target, j)
          BY <1>11, <4>2 DEF JobDone, CheckpointDone, Checkpoint
        <4>3. CASE PersistFile
          <5>1. PICK f : target'.checkpoint =
                     Checkpoint(target, run.snap, FileFact(run.project, f), "COMPLETED")
            BY <4>3, PersistFields DEF UneditedRun
          <5> QED
            BY <4>2, <5>1 DEF FileFact
        <4>4. CASE ProjectReady
          <5>1. target'.checkpoint =
                     Checkpoint(target, run.snap, ProjectFact(run.project), "READY_TO_PUBLISH")
            BY <4>4, ReadyFields DEF UneditedRun
          <5> QED
            BY <4>2, <5>1 DEF ProjectFact
        <4>5. CASE FileStateReady
          <5>1. PICK p : target'.checkpoint =
                     Checkpoint(target, run.snap, ProjectFact(p), "READY_TO_PUBLISH")
            BY <4>5, FileStateFields DEF UneditedRun
          <5> QED
            BY <4>2, <5>1 DEF ProjectFact
        <4>6. \/ PersistFile \/ ProjectReady \/ FileStateReady
              \/ target'.checkpoint = target.checkpoint
          BY <2>2, SetupFields, DomainFields DEF CopyStep, SameRecords, UneditedRun
        <4> QED
          BY <4>1, <4>3, <4>4, <4>5, <4>6
      <3> QED
        BY <1>1, <3>1, <3>2 DEF OnlyUnedited
    <2> QED
      BY <2>1, <2>2
  <1> QED
    BY <1>3, <1>4, <1>6, <1>7, <1>8, <1>9, <1>10, <1>11 DEF OnlyUnedited

LEMMA UneditedCopyStep ==
    ASSUME UneditedRun, CopyStep
    PROVE  UneditedInv'
  <1>1. /\ OnlyUnedited(target')
        /\ \A p \in Projects : target.version[p] = 0 => target'.version[p] = 0
        /\ \A p \in Projects : StateDone(target, p) => StateDone(target', p)
    BY UneditedCopies
  <1>2. /\ source = Unedited /\ run.snap = Unedited /\ run \in RunnerState
        /\ UNCHANGED <<source, edits>> /\ run'.snap = run.snap
    BY CopyTypes DEF UneditedRun, UneditedInv, LegacyTypes
  <1>3. source' = Unedited /\ run'.snap = Unedited
    BY <1>2
  <1>4. CASE SetupProject
    <2>1. PICK p \in run.todo :
             /\ p \in Projects
             /\ run' = [run EXCEPT !.place = "files", !.project = p, !.todo = @ \ {p}]
             /\ target'.sealed = target.sealed
             /\ ScanOf(p) \in target.sealed => target'.version = target.version
             /\ ScanOf(p) \notin target.sealed =>
                   /\ ScanOf(p) \in target'.building
                   /\ target'.version = [target.version EXCEPT ![p] =
                          IF target.version[p] = None THEN run.snap.version[p] ELSE target.version[p]]
      BY <1>4, SetupFields DEF UneditedRun
    <2>2. run'.place = "files" /\ run'.project = p /\ run'.todo = run.todo \ {p}
      BY <1>2, <2>1 DEF RunnerState
    <2>3. \A q \in Projects \ run.todo : StateDone(target, q)
      BY <1>4 DEF UneditedRun, UneditedInv, SetupProject, At
    <2>4. run'.todo \cup {run'.project} = run.todo
      BY <2>1, <2>2
    <2>5. ScanOf(p) = ScanKey(Unedited, p) /\ run.snap.version[p] = 0
      BY <1>2, <2>1, UneditedFields DEF ScanOf
    <2>6. target'.version[p] = 0
      <3>1. CASE ScanOf(p) \in target.sealed
        BY <1>1, <2>1, <3>1 DEF UneditedRun, UneditedInv, OnlyUnedited
      <3>2. CASE ScanOf(p) \notin target.sealed
        <4>1. target.version \in [Projects -> Nat \cup {None}] /\ target.version[p] \in {None, 0}
          BY <2>1 DEF UneditedRun, UneditedInv, OnlyUnedited, LegacyTypes, Target
        <4> QED
          BY <2>1, <2>5, <3>2, <4>1
      <3> QED
        BY <3>1, <3>2
    <2>7. ScanKey(Unedited, p) \in target'.building \/ target'.sealed # {}
      BY <2>1, <2>5
    <2> QED
      BY <1>1, <1>3, <2>2, <2>3, <2>4, <2>6, <2>7 DEF UneditedInv
  <1>5. CASE PersistFile
    <2>1. /\ run' = run /\ run.place = "files" /\ SameScans /\ run.project \in Projects
      BY <1>5, PersistFields DEF PersistFile, At, UneditedRun
    <2>2. /\ \A q \in Projects \ (run.todo \cup {run.project}) : StateDone(target, q)
          /\ target.version[run.project] = 0
          /\ ScanKey(Unedited, run.project) \in target.building \/ target.sealed # {}
      BY <2>1 DEF UneditedRun, UneditedInv
    <2> QED
      BY <1>1, <1>3, <2>1, <2>2 DEF UneditedInv, SameScans
  <1>6. CASE ProjectReady
    <2>1. /\ run.project \in Projects /\ run.place = "files" /\ run' = [run EXCEPT !.place = "projects"]
          /\ target'.provenance =
                 UpsertProvenance(<<"project_state", run.project, run.snap.version[run.project]>>)
      BY <1>6, ReadyFields DEF UneditedRun
    <2>2. run'.place = "projects" /\ run'.todo = run.todo
      BY <1>2, <2>1 DEF RunnerState
    <2>3. /\ \A q \in Projects \ (run.todo \cup {run.project}) : StateDone(target, q)
          /\ target.version[run.project] = 0
      BY <2>1 DEF UneditedRun, UneditedInv
    <2>4. run.snap.version[run.project] = 0
      BY <1>2, <2>1, UneditedFields
    <2>5. StateDone(target', run.project)
      BY <1>1, <1>2, <2>1, <2>3, <2>4 DEF StateDone, UpsertProvenance
    <2> QED
      BY <1>1, <1>3, <2>2, <2>3, <2>5 DEF UneditedInv
  <1>7. CASE RestoreJob
    <2>1. run.place = "jobs" /\ run' = run
      BY <1>7, JobFields DEF UneditedRun
    <2>2. \A q \in Projects : StateDone(target, q)
      BY <2>1 DEF UneditedRun, UneditedInv
    <2> QED
      BY <1>1, <1>3, <2>1, <2>2 DEF UneditedInv
  <1>8. CASE AnalysisDomain
    <2>1. run.place = "jobs" /\ JobsLeft = {} /\ run' = [run EXCEPT !.place = "gate"] /\ SameRecords
      BY <1>8, DomainFields DEF UneditedRun
    <2>2. run'.place = "gate"
      BY <1>2, <2>1 DEF RunnerState
    <2>3. \A q \in Projects : StateDone(target, q)
      BY <2>1 DEF UneditedRun, UneditedInv
    <2>4. ASSUME NEW j \in Jobs
          PROVE  JobDone(target', j)
      <3>1. CheckpointDone(target, run.snap, JobFact(j))
        BY <2>1 DEF JobsLeft
      <3>2. JobFact(j) = <<"job", j, "running">>
        BY <1>2, UneditedFields DEF JobFact
      <3> QED
        BY <1>2, <2>1, <3>1, <3>2 DEF JobDone, CheckpointDone, SameRecords
    <2> QED
      BY <1>1, <1>3, <2>2, <2>3, <2>4 DEF UneditedInv
  <1>9. CASE FileStateReady
    <2>1. PICK p \in run.todo : run.place = "filestate" /\ run' = [run EXCEPT !.todo = @ \ {p}]
      BY <1>9, FileStateFields DEF UneditedRun
    <2>2. run'.place = "filestate"
      BY <1>2, <2>1 DEF RunnerState
    <2> QED
      BY <1>1, <1>3, <2>2 DEF UneditedInv
  <1> QED
    BY <1>4, <1>5, <1>6, <1>7, <1>8, <1>9 DEF CopyStep

(* The three gates of a copying run. *)
LEMMA NothingRefused ==
    ASSUME UneditedRun, CheckpointIsTrue
    PROVE  /\ ~SealedScanRefused
           /\ run.place = "gate" => SemanticMatch(target, run.snap)
           /\ MayPublish
  <1>1. run.snap = Unedited /\ OnlyUnedited(target) /\ LegacyTypes /\ CopiedInv
    BY DEF UneditedRun, UneditedInv
  <1>2. ASSUME SealedScanRefused
        PROVE  FALSE
    <2>1. /\ run.place = "files" /\ FilesLeft # {} /\ ScanOf(run.project) \notin target.building
          /\ run.project \in Projects
      BY <1>1, <1>2 DEF SealedScanRefused, At, LegacyTypes
    <2>2. target.sealed # {}
      BY <1>1, <2>1 DEF UneditedRun, UneditedInv, ScanOf
    <2>3. FilesDone(target, Unedited, run.project)
      BY <1>1, <2>1, <2>2 DEF OnlyUnedited
    <2> QED
      BY <1>1, <2>1, <2>3 DEF FilesLeft, FilesDone, FileFact
  <1>3. ASSUME run.place = "gate"
        PROVE  SemanticMatch(target, run.snap)
    <2>1. \A p \in Projects : FilesDone(target, Unedited, p)
      BY <1>1, <1>3 DEF CopiedInv
    <2>2. (\A p \in Projects : StateDone(target, p)) /\ (\A j \in Jobs : JobDone(target, j))
      BY <1>3 DEF UneditedRun, UneditedInv
    <2>3. SemanticMatch(target, Unedited)
      BY <1>1, <2>1, <2>2, UneditedMatches
    <2> QED
      BY <1>1, <2>3
  <1>4. MayPublish
    BY <1>1 DEF MayPublish, OnlyUnedited, ScanOf
  <1> QED
    BY <1>2, <1>3, <1>4

LEMMA UneditedPublish ==
    ASSUME UneditedRun, CheckpointIsTrue, Publish
    PROVE  UneditedInv' /\ run'.place = "PASSED"
  <1>1. MayPublish /\ run.snap = Unedited /\ LegacyTypes /\ OnlyUnedited(target) /\ source = Unedited
    BY NothingRefused DEF UneditedRun, UneditedInv
  <1>2. /\ run.place = "filestate" /\ UNCHANGED <<source, edits>>
        /\ run' = [Idle EXCEPT !.place = "PASSED"]
        /\ SameRows /\ SameState /\ target'.job = target.job /\ target'.provenance = target.provenance
        /\ target'.current = [p \in Projects |-> ScanOf(p)]
        /\ target'.sealed = target.sealed \cup {ScanOf(p) : p \in Projects}
        /\ target'.checkpoint =
                 {c \in target.checkpoint : ~(c.id = run.snap /\ c.of[1] = "project")}
                    \cup {[id |-> run.snap, of |-> ProjectFact(p), state |-> "PUBLISHED"] :
                          p \in Projects}
    BY <1>1, PublishFields
  <1>3. run'.place = "PASSED"
    BY <1>2 DEF Idle
  <1>4. \A p \in Projects : target'.version[p] = 0 /\ FilesDone(target, Unedited, p)
    BY <1>1, <1>2, UneditedFields DEF UneditedRun, CopiedInv, SameState
  <1>5. ASSUME NEW p \in Projects
        PROVE  FilesDone(target', Unedited, p)
    <2>1. Projects # {}
      OBVIOUS
    <2>2. Grown(target, target')
      BY <1>1, <2>1, PublishGrows
    <2> QED
      BY <1>4, <2>2, FilesDoneGrows
  <1>6. \A j \in Jobs : JobDone(target', j) => JobDone(target, j)
    BY <1>2 DEF JobDone, CheckpointDone
  <1>7. OnlyUnedited(target')
    <2>1. \A p \in Projects : target'.current[p] = ScanKey(Unedited, p)
      BY <1>1, <1>2 DEF ScanOf
    <2> QED
      BY <1>1, <1>2, <1>4, <1>5, <1>6, <2>1 DEF OnlyUnedited, SameRows
  <1> QED
    BY <1>1, <1>2, <1>3, <1>7 DEF UneditedInv, Copying

(* Everything but copying leaves what the unedited run has written. *)
LEMMA UneditedKept ==
    ASSUME OnlyUnedited(target), SameBusiness
    PROVE  OnlyUnedited(target')
  <1>1. \A p : FilesDone(target', Unedited, p) <=> FilesDone(target, Unedited, p)
    BY DEF FilesDone, CheckpointDone, SameBusiness, SameRecords
  <1>2. \A j : JobDone(target', j) <=> JobDone(target, j)
    BY DEF JobDone, CheckpointDone, SameBusiness, SameRecords
  <1> QED
    BY <1>1, <1>2 DEF OnlyUnedited, SameBusiness, SameScans, SameRows, SameState, SameRecords

LEMMA ResumeStep ==
    ASSUME CopyInv, ResumeInv, [Next]_vars
    PROVE  ResumeInv'
  <1> USE DEF CopyInv, ResumeInv
  <1>1. /\ LegacyTypes /\ CopiedInv /\ CheckpointIsTrue /\ LedgerInv /\ UnchangedSourceNeverRefused
        /\ LedgerInv' /\ (Foreign(target') <=> Foreign(target))
        /\ run \in RunnerState /\ edits \in Nat
    BY LedgerStep DEF LegacyTypes
  <1>2. Foreign(target) => target \in ForeignTargets /\ run.place \in {"idle", "preflight", "REFUSED"}
    BY DEF LedgerInv
  <1>3. ASSUME edits = 0, ~Foreign(target)
        PROVE  UneditedInv
    BY <1>3
  <1>4. ASSUME run.place \in Copying, edits = 0
        PROVE  UneditedRun
    <2>1. ~Foreign(target)
      BY <1>2, <1>4 DEF Copying
    <2> QED
      BY <1>1, <1>3, <1>4, <2>1 DEF UneditedRun
  <1>5. ASSUME target' = target, UNCHANGED <<source, edits>>, run'.place \notin Copying,
               run'.place \in {"FAILED", "REFUSED"} => edits > 0 \/ target \in ForeignTargets
        PROVE  ResumeInv'
    <2>1. UnchangedSourceNeverRefused'
      BY <1>5 DEF UnchangedSourceNeverRefused
    <2>2. ASSUME edits' = 0, ~Foreign(target')
          PROVE  UneditedInv'
      <3>1. UneditedInv
        BY <1>1, <1>3, <1>5, <2>2
      <3>2. source = Unedited /\ OnlyUnedited(target)
        BY <3>1 DEF UneditedInv
      <3> QED
        BY <1>5, <3>2 DEF UneditedInv, Copying
    <2> QED
      BY <1>1, <2>1, <2>2
  <1>6. ASSUME NEW place, Stop(place)
        PROVE  target' = target /\ UNCHANGED <<source, edits>> /\ run'.place = place
    BY <1>6 DEF Stop, Idle
  <1>7. CASE UNCHANGED vars
    <2>1. UnchangedSourceNeverRefused'
      BY <1>1, <1>7 DEF vars, UnchangedSourceNeverRefused
    <2>2. UneditedInv => UneditedInv'
      BY <1>7 DEF vars, UneditedInv
    <2> QED
      BY <1>1, <1>7, <2>1, <2>2 DEF vars
  <1>8. CASE (\E u \in Units : EditSource(u)) \/ (\E j \in Jobs : FinishJob(j))
    <2>1. edits' > 0 /\ edits' # 0
      <3>1. LegacyTypes' /\ edits' > 0
        BY <1>1, <1>8, SourceTypes
      <3> QED
        BY <3>1 DEF LegacyTypes
    <2> QED
      BY <1>1, <2>1 DEF UnchangedSourceNeverRefused
  <1>9. CASE Begin
    <2>1. target' = target /\ UNCHANGED <<source, edits>> /\ run'.place = "preflight"
      BY <1>9 DEF Begin, Idle
    <2> QED
      BY <1>5, <2>1 DEF Copying
  <1>10. CASE Crash
    <2>1. target' = target /\ UNCHANGED <<source, edits>> /\ run'.place = "idle"
      BY <1>6, <1>10 DEF Crash
    <2> QED
      BY <1>5, <2>1 DEF Copying
  <1>11. CASE Preflight
    <2>1. CASE ~Accepts(target) /\ Stop("REFUSED")
      <3>1. target' = target /\ UNCHANGED <<source, edits>> /\ run'.place = "REFUSED"
        BY <1>6, <2>1
      <3>2. Foreign(target)
        BY <1>1, <2>1, NotRefused
      <3> QED
        BY <1>2, <1>5, <3>1, <3>2 DEF Copying
    <2>2. CASE Commit(target) /\ Goto(IF target.ledger = "APPLIED" THEN "read" ELSE "ledger")
      <3>1. /\ target' = target /\ UNCHANGED <<source, edits>>
            /\ run'.place = IF target.ledger = "APPLIED" THEN "read" ELSE "ledger"
        BY <1>1, <2>2 DEF Commit, Goto, RunnerState
      <3> QED
        BY <1>5, <3>1 DEF Copying
    <2> QED
      BY <1>11, <2>1, <2>2 DEF Preflight
  <1>12. CASE ReadSource
    <2>1. /\ target' = target /\ UNCHANGED <<source, edits>>
          /\ run'.place = "projects" /\ run'.snap = source /\ run'.todo = Projects
      BY <1>1, <1>12 DEF ReadSource, RunnerState
    <2>2. ASSUME edits' = 0, ~Foreign(target')
          PROVE  UneditedInv'
      <3>1. source = Unedited /\ OnlyUnedited(target)
        BY <1>1, <1>3, <2>1, <2>2 DEF UneditedInv
      <3> QED
        BY <2>1, <3>1 DEF UneditedInv
    <2> QED
      BY <1>1, <2>1, <2>2 DEF UnchangedSourceNeverRefused
  <1>13. CASE SealedScanRefused
    <2>1. /\ run.place \in Copying /\ target' = target /\ UNCHANGED <<source, edits>>
          /\ run'.place = "FAILED"
      BY <1>6, <1>13 DEF SealedScanRefused, At, Copying
    <2>2. edits # 0
      BY <1>1, <1>4, <1>13, <2>1, NothingRefused
    <2>3. edits > 0
      BY <1>1, <2>2
    <2> QED
      BY <1>5, <2>1, <2>3 DEF Copying
  <1>14. CASE BeginJobs
    <2>1. /\ run.place = "projects" /\ run.todo = {} /\ target' = target /\ UNCHANGED <<source, edits>>
          /\ run'.place = "jobs" /\ run'.snap = run.snap
      BY <1>1, <1>14 DEF BeginJobs, At, RunnerState
    <2>2. ASSUME edits' = 0, ~Foreign(target')
          PROVE  UneditedInv'
      <3>1. UneditedInv
        BY <1>1, <1>3, <2>1, <2>2
      <3>2. /\ source = Unedited /\ OnlyUnedited(target) /\ run.snap = Unedited
            /\ \A p \in Projects : StateDone(target, p)
        BY <2>1, <3>1 DEF UneditedInv, Copying
      <3> QED
        BY <2>1, <3>2 DEF UneditedInv
    <2> QED
      BY <1>1, <2>1, <2>2 DEF UnchangedSourceNeverRefused
  <1>15. CASE SemanticGate
    <2>1. run.place = "gate" /\ run.place \in Copying
      BY <1>15 DEF SemanticGate, At, Copying
    <2>2. CASE ~SemanticMatch(target, run.snap) /\ Stop("FAILED")
      <3>1. target' = target /\ UNCHANGED <<source, edits>> /\ run'.place = "FAILED"
        BY <1>6, <2>2
      <3>2. edits # 0
        BY <1>1, <1>4, <2>1, <2>2, NothingRefused
      <3>3. edits > 0
        BY <1>1, <3>2
      <3> QED
        BY <1>5, <3>1, <3>3 DEF Copying
    <2>3. CASE /\ run' = [run EXCEPT !.place = "filestate", !.todo = Projects]
               /\ UNCHANGED <<source, target, edits, runs>>
      <3>1. run'.place = "filestate" /\ run'.snap = run.snap
        BY <1>1, <2>3 DEF RunnerState
      <3>2. ASSUME edits' = 0, ~Foreign(target')
            PROVE  UneditedInv'
        <4>1. UneditedInv
          BY <1>1, <1>3, <2>3, <3>2
        <4>2. source = Unedited /\ OnlyUnedited(target) /\ run.snap = Unedited
          BY <2>1, <4>1 DEF UneditedInv
        <4> QED
          BY <2>3, <3>1, <4>2 DEF UneditedInv
      <3> QED
        BY <1>1, <3>1, <3>2 DEF UnchangedSourceNeverRefused
    <2> QED
      BY <1>15, <2>2, <2>3 DEF SemanticGate
  <1>16. CASE RecordPreflight \/ StartSchema \/ RunStatement \/ StatementFails \/ MarkApplied
    <2>1. SameBusiness /\ UNCHANGED <<source, edits>>
      BY <1>1, <1>16, SchemaFields
    <2>2. run'.place \in {"start", "ddl", "read", "SCHEMA_FAILED"}
      <3>1. CASE RecordPreflight
        BY <1>1, <3>1 DEF RecordPreflight, Goto, RunnerState
      <3>2. CASE StartSchema
        BY <1>1, <3>2 DEF StartSchema, RunnerState
      <3>3. CASE RunStatement
        BY <1>1, <3>3 DEF RunStatement, RunnerState, At
      <3>4. CASE StatementFails
        BY <3>4 DEF StatementFails, Idle
      <3>5. CASE MarkApplied
        BY <1>1, <3>5 DEF MarkApplied, Goto, RunnerState
      <3> QED
        BY <1>16, <3>1, <3>2, <3>3, <3>4, <3>5
    <2>3. ASSUME edits' = 0, ~Foreign(target')
          PROVE  UneditedInv'
      <3>1. source = Unedited /\ OnlyUnedited(target)
        BY <1>1, <1>3, <2>1, <2>3 DEF UneditedInv
      <3>2. OnlyUnedited(target') /\ source' = Unedited
        BY <2>1, <3>1, UneditedKept
      <3> QED
        BY <2>2, <3>2 DEF UneditedInv, Copying
    <2> QED
      BY <1>1, <2>2, <2>3 DEF UnchangedSourceNeverRefused
  <1>17. CASE CopyStep
    <2>1. run.place \in Copying /\ run'.place \in Copying /\ UNCHANGED <<source, edits>>
      BY <1>1, <1>17, CopyTypes
    <2>2. edits' = 0 => UneditedInv'
      BY <1>4, <1>17, <2>1, UneditedCopyStep
    <2> QED
      BY <1>1, <2>1, <2>2 DEF UnchangedSourceNeverRefused, Copying
  <1>18. CASE Publish
    <2>1. /\ run.place \in Copying /\ UNCHANGED <<source, edits>>
          /\ run'.place \in {"PASSED", "FAILED"}
      BY <1>1, <1>18, PublishTypes DEF Copying
    <2>2. edits = 0 => UneditedInv' /\ run'.place = "PASSED"
      BY <1>1, <1>4, <1>18, <2>1, UneditedPublish
    <2>3. edits # 0 => edits > 0
      BY <1>1
    <2> QED
      BY <1>1, <2>1, <2>2, <2>3 DEF UnchangedSourceNeverRefused
  <1> QED
    BY <1>7, <1>8, <1>9, <1>10, <1>11, <1>12, <1>13, <1>14, <1>15, <1>16, <1>17, <1>18, StepKinds


-----------------------------------------------------------------------------
(* The Legacy route: where it begins *)

LEMMA FirstTargets ==
  ASSUME NEW t \in {EmptyTarget} \cup ForeignTargets
  PROVE  /\ t \in Target /\ t.rows = {} /\ t.domain = {} /\ t.checkpoint = {}
         /\ t.provenance = {} /\ t.sealed = {} /\ t.building = {} /\ t.ledger = None
         /\ t.current = [p \in Projects |-> None] /\ t.job = [j \in Jobs |-> None]
         /\ t \in ForeignTargets <=> Foreign(t)
         /\ ~Foreign(t) => t.version = [p \in Projects |-> None]
  <1>1. EmptyTarget \in Target /\ EmptyTarget.ddl = 0
    BY DEF EmptyTarget, Target, Ledger
  <1>2. Statements \in Nat /\ Statements > 0 /\ [p \in Projects |-> 0] \in [Projects -> Nat \cup {None}]
    BY ConstantsAssumption
  <1>3. CASE t = EmptyTarget
    <2>1. ~Foreign(t)
      BY <1>1, <1>3 DEF Foreign
    <2>2. t \notin ForeignTargets
      <3>1. ASSUME NEW x \in ForeignTargets
            PROVE  x.ddl = Statements
        BY <3>1, <1>2 DEF ForeignTargets, EmptyTarget
      <3> QED
        BY <1>1, <1>2, <1>3, <3>1
    <2> QED
      BY <1>1, <1>3, <2>1, <2>2 DEF EmptyTarget
  <1>4. CASE t \in ForeignTargets
    <2>1. /\ t.ledger = None /\ t.ddl = Statements
          /\ t.rows = {} /\ t.domain = {} /\ t.checkpoint = {}
          /\ t.provenance = {} /\ t.sealed = {} /\ t.building = {}
          /\ t.current = [p \in Projects |-> None] /\ t.job = [j \in Jobs |-> None]
      BY <1>4 DEF ForeignTargets, EmptyTarget
    <2>2. t \in Target
      <3>1. CASE t = [EmptyTarget EXCEPT !.ddl = Statements]
        BY <1>1, <1>2, <3>1 DEF Target
      <3>2. CASE t = [EmptyTarget EXCEPT !.ddl = Statements, !.version = [p \in Projects |-> 0]]
        BY <1>1, <1>2, <3>2 DEF Target
      <3> QED
        BY <1>4, <3>1, <3>2 DEF ForeignTargets
    <2> QED
      BY <1>2, <1>4, <2>1, <2>2 DEF Foreign
  <1> QED
    BY <1>3, <1>4

LEMMA LegacyInit == Init => LegacyInv
  <1> SUFFICES ASSUME Init PROVE LegacyInv
    OBVIOUS
  <1>1. /\ source = Unedited /\ edits = 0 /\ edits \in Nat /\ run.place = "idle"
        /\ target \in {EmptyTarget} \cup ForeignTargets
    BY DEF Init, Unedited, Idle
  <1>2. /\ target \in Target /\ target.rows = {} /\ target.domain = {} /\ target.checkpoint = {}
        /\ target.provenance = {} /\ target.sealed = {} /\ target.building = {} /\ target.ledger = None
        /\ target.current = [p \in Projects |-> None] /\ target.job = [j \in Jobs |-> None]
        /\ target \in ForeignTargets <=> Foreign(target)
        /\ ~Foreign(target) => target.version = [p \in Projects |-> None]
    BY <1>1, FirstTargets
  <1>3. LegacyTypes
    <2>1. source \in Snapshot
      BY <1>1 DEF Unedited, Snapshot
    <2>2. run \in RunnerState
      BY DEF Init, Idle, RunnerState, RunPlaces
    <2> QED
      BY <1>1, <1>2, <2>1, <2>2 DEF LegacyTypes, Copying
  <1>4. CheckpointIsTrue /\ CopiedInv /\ PublishedIsOneSnapshot
    BY <1>1, <1>2 DEF CheckpointIsTrue, CopiedInv, PublishedIsOneSnapshot
  <1>5. LedgerInv
    <2>1. ~Foreign(target) => ~BusinessRows(target)
      BY <1>2 DEF BusinessRows
    <2> QED
      BY <1>1, <1>2, <2>1, NoneAssumption DEF LedgerInv, Copying
  <1>6. UnchangedSourceNeverRefused
    BY <1>1 DEF UnchangedSourceNeverRefused
  <1>7. ASSUME ~Foreign(target) PROVE UneditedInv
    <2>1. OnlyUnedited(target)
      BY <1>2, <1>7 DEF OnlyUnedited, JobDone, CheckpointDone
    <2> QED
      BY <1>1, <2>1 DEF UneditedInv, Copying
  <1> QED
    BY <1>3, <1>4, <1>5, <1>6, <1>7 DEF LegacyInv, CopyInv, ResumeInv

LEMMA LegacyInvStep == LegacyInv /\ [Next]_vars => LegacyInv'
  BY CopyInvStep, ResumeStep DEF LegacyInv

(* A foreign target is only looked at. *)
LEMMA ForeignStep ==
  ASSUME LegacyInv, Next, target \in ForeignTargets
  PROVE  target' = target
  <1>1. run.place \in {"idle", "preflight", "REFUSED"} /\ LegacyTypes
    BY FirstTargets DEF LegacyInv, CopyInv, ResumeInv, LedgerInv
  <1>2. CASE (\E u \in Units : EditSource(u)) \/ (\E j \in Jobs : FinishJob(j))
    BY <1>1, <1>2, SourceTypes
  <1>3. CASE \/ Begin \/ Crash \/ Preflight \/ ReadSource \/ SealedScanRefused \/ BeginJobs
             \/ SemanticGate
    BY <1>1, <1>3, LooksTypes DEF LooksOnly
  <1>4. CASE CopyStep
    BY <1>1, <1>4, CopyTypes DEF Copying
  <1>5. ~Publish
    BY <1>1 DEF Publish, At
  <1>6. ~(RecordPreflight \/ StartSchema \/ RunStatement \/ StatementFails \/ MarkApplied)
    BY <1>1 DEF RecordPreflight, StartSchema, RunStatement, StatementFails, MarkApplied, At
  <1> QED
    BY <1>2, <1>3, <1>4, <1>5, <1>6, StepKinds

-----------------------------------------------------------------------------
(* The three commands side by side: each leaves the others' state alone *)

LEMMA Parts ==
  ASSUME [MigrationNext]_migrationVars
  PROVE  [Next]_vars /\ [ExistingNext]_laneVars /\ [RehearsalNext]_rehearsalVars
  <1>1. CASE UNCHANGED migrationVars
    BY <1>1 DEF migrationVars, vars, laneVars, rehearsalVars
  <1>2. CASE LegacyStep
    BY <1>2 DEF LegacyStep
  <1>3. CASE VNextStep
    BY <1>3 DEF VNextStep
  <1>4. CASE RehearsalRuns
    BY <1>4 DEF RehearsalRuns
  <1> QED
    BY <1>1, <1>2, <1>3, <1>4 DEF MigrationNext

LEMMA Beginnings == MigrationInit => Init /\ ExistingInit /\ RehearsalInit
  BY DEF MigrationInit, UpgradeInit, LegacyIdle, ExistingIdle

-----------------------------------------------------------------------------
(* The existing VNext route: what the run may touch *)

Before == {"idle", "separate", "witness", "dump", "smoke", "smoke_drop", "exists", "preflight", "create"}
Creating == {"restore", "grant", "probe", "revoke", "drop", "drop_told", "connect", "empty",
             "cleanup", "cleanup_drop"}
Migrating == {"upgrade", "schema", "ledger", "start", "column", "repair", "applied", "filestate",
              "recheck"}

Supplied == conf.mode = "supplied"

LaneTypes ==
    /\ DOMAIN lane = {"place", "view", "dump", "before", "created", "granted", "evidence", "lost", "ddl"}
    /\ lane.place \in Before \cup Creating \cup Migrating \cup Stopped
    /\ lane.created \in BOOLEAN /\ lane.granted \in BOOLEAN
    /\ lane.evidence \in BOOLEAN /\ lane.lost \in BOOLEAN
    /\ owner \in [Names -> {Nil, "run", "operator"}]
    /\ DOMAIN data = Names
    /\ conf \in Configurations

(* A database this run writes to is the one it made, or the one it was       *)
(* given after it was found to be another than the source.                   *)
OwnInv ==
    /\ conf.same => lane.place \in {"idle", "separate"} \cup Stopped
    /\ lane.place = "smoke_drop" => owner["scratch"] = "run"
    /\ ~Supplied /\ lane.place \in Creating \cup Migrating => owner["target"] = "run"

(* What this run has made is known to it as long as it may have to undo it. *)
UndoInv ==
    /\ Supplied => /\ ~lane.created /\ ~lane.granted /\ ~lane.evidence
                   /\ lane.place \notin Creating \cup {"exists", "preflight", "create"}
    /\ lane.place \in Before \cup {"restore", "grant"} => ~lane.granted
    /\ lane.place \in Before => ~lane.created
    /\ ~Supplied /\ lane.place \in Migrating => lane.evidence /\ lane.created
    /\ lane.place \in {"drop", "cleanup_drop"} => ~lane.granted \/ "target" \notin account
    /\ lane.place \in Creating => lane.created
    /\ lane.place = "connect" => lane.evidence
    /\ NoSilentResidue

LaneInv == LaneTypes /\ OwnInv /\ UndoInv

(* What a step of the run does to the databases it did not make. *)
KeepsOthers ==
    /\ live' = live
    /\ ~Supplied => \A n \in Names : owner[n] = "operator"
                                       => owner'[n] = "operator" /\ data'[n] = data[n]

LEMMA Places ==
  /\ Before \cap (Creating \cup Migrating \cup Stopped) = {}
  /\ Creating \cap (Migrating \cup Stopped) = {}
  /\ Migrating \cap Stopped = {}
  BY DEF Before, Creating, Migrating, Stopped

LEMMA Going ==
  ASSUME LaneTypes, NEW place, lane' = [lane EXCEPT !.place = place],
         place \in Before \cup Creating \cup Migrating \cup Stopped,
         owner' \in [Names -> {Nil, "run", "operator"}], DOMAIN data' = Names, conf' = conf
  PROVE  /\ LaneTypes' /\ lane'.place = place
         /\ lane'.view = lane.view /\ lane'.dump = lane.dump /\ lane'.before = lane.before
         /\ lane'.created = lane.created /\ lane'.granted = lane.granted
         /\ lane'.evidence = lane.evidence /\ lane'.lost = lane.lost
  BY DEF LaneTypes

LEMMA LaneBegins == ExistingInit => LaneInv
  <1> SUFFICES ASSUME ExistingInit PROVE LaneInv
    OBVIOUS
  <1>1. lane = Fresh /\ conf \in Configurations
    BY DEF ExistingInit
  <1>2. DOMAIN data = Names
    BY DEF ExistingInit
  <1>3. owner \in [Names -> {Nil, "run", "operator"}]
    BY DEF ExistingInit
  <1>4. LaneTypes
    BY <1>1, <1>2, <1>3 DEF LaneTypes, Fresh, Before
  <1> QED
    BY <1>1, <1>4 DEF LaneInv, OwnInv, UndoInv, Fresh, Before, Creating, Migrating, Stopped,
                      NoSilentResidue

(* Steps that only look at the databases, or write to the target. *)
LEMMA Looking ==
  ASSUME LaneInv, NEW place \in {"FAILED", "HELD", "PASSED"} \cup Before \cup Creating \cup Migrating,
         lane' = [lane EXCEPT !.place = place],
         UNCHANGED <<live, owner, account, conf>>,
         DOMAIN data' = Names, data'["scratch"] = data["scratch"],
         data' = data \/ lane.place \in Creating \cup Migrating,
         \/ lane.place \in Before /\ place \in (Before \ {"smoke_drop", "idle"}) \cup {"FAILED"}
            /\ (Supplied => place \notin {"exists", "preflight", "create"})
            /\ (conf.same => place = "FAILED")
         \/ lane.place \in Creating /\ place \in {"drop_told", "empty", "cleanup", "HELD"}
         \/ lane.place = "probe" /\ place = "revoke"
         \/ lane.place = "restore" /\ place \in {"grant", "drop"}
         \/ lane.place = "grant" /\ place = "drop"
         \/ lane.place \in Migrating /\ place \in Migrating \cup {"PASSED", Failing}
         \/ lane.place = "smoke_drop" /\ place = "HELD"
  PROVE  LaneInv' /\ KeepsOthers
  <1>1. LaneTypes
    BY DEF LaneInv
  <1>2. place \in Before \cup Creating \cup Migrating \cup Stopped
    BY DEF Stopped
  <1>3. owner' \in [Names -> {Nil, "run", "operator"}]
    BY <1>1 DEF LaneTypes
  <1>4. /\ LaneTypes' /\ lane'.place = place
        /\ lane'.created = lane.created /\ lane'.granted = lane.granted
        /\ lane'.evidence = lane.evidence /\ lane'.lost = lane.lost
    BY <1>1, <1>2, <1>3, Going
  <1>5. OwnInv'
    BY <1>1, <1>2, <1>4, Places
       DEF LaneInv, OwnInv, UndoInv, Before, Creating, Migrating, Stopped, Failing, Supplied
  <1>6. UndoInv'
    BY <1>1, <1>2, <1>4, Places
       DEF LaneInv, LaneTypes, UndoInv, OwnInv, Before, Creating, Migrating, Stopped, Failing, Supplied,
           NoSilentResidue
  <1>7. ASSUME ~Supplied, NEW n \in Names, owner[n] = "operator"
        PROVE  data'[n] = data[n]
    <2>1. CASE data' = data
      BY <2>1
    <2>2. CASE lane.place \in Creating \cup Migrating
      BY <1>7, <2>2 DEF LaneInv, OwnInv, Names
    <2> QED
      BY <2>1, <2>2
  <1> QED
    BY <1>4, <1>5, <1>6, <1>7 DEF LaneInv, KeepsOthers

LEMMA Untouched ==
  ASSUME LaneInv, UNCHANGED <<live, owner, data>>
  PROVE  KeepsOthers
  BY DEF KeepsOthers

LEMMA BackupStep ==
  ASSUME LaneInv, Backup
  PROVE  LaneInv' /\ KeepsOthers
  <1>1. LaneTypes /\ owner \in [Names -> {Nil, "run", "operator"}] /\ DOMAIN data = Names
    BY DEF LaneInv, LaneTypes
  <1>2. CASE CaptureWitness
    <2>1. /\ UNCHANGED <<live, owner, data, account, conf>> /\ lane.place = "witness"
          /\ lane'.place \in {"dump", "FAILED"} /\ DOMAIN lane' = DOMAIN lane
          /\ lane'.created = lane.created /\ lane'.granted = lane.granted
          /\ lane'.evidence = lane.evidence /\ lane'.lost = lane.lost
      BY <1>1, <1>2 DEF CaptureWitness, Elsewhere, Is, LaneTypes
    <2>2. LaneTypes'
      BY <1>1, <2>1 DEF LaneTypes, Before, Stopped
    <2> QED
      BY <2>1, <2>2, Untouched
         DEF LaneInv, OwnInv, UndoInv, Before, Creating, Migrating, Stopped, Supplied, NoSilentResidue
  <1>3. CASE Dump
    <2>1. /\ UNCHANGED <<live, owner, data, account, conf>> /\ lane.place = "dump"
          /\ lane'.place \in {"smoke", "FAILED"} /\ DOMAIN lane' = DOMAIN lane
          /\ lane'.created = lane.created /\ lane'.granted = lane.granted
          /\ lane'.evidence = lane.evidence /\ lane'.lost = lane.lost
      BY <1>1, <1>3 DEF Dump, Go, Elsewhere, Is, LaneTypes
    <2>2. LaneTypes'
      BY <1>1, <2>1 DEF LaneTypes, Before, Stopped
    <2> QED
      BY <2>1, <2>2, Untouched
         DEF LaneInv, OwnInv, UndoInv, Before, Creating, Migrating, Stopped, Supplied, NoSilentResidue
  <1>4. CASE SmokeCreate
    <2>1. lane.place = "smoke" /\ UNCHANGED <<live, account, conf>>
      BY <1>4 DEF SmokeCreate, Elsewhere, Is
    <2>2. CASE Go("FAILED") /\ UNCHANGED <<owner, data>>
      BY <1>1, <2>1, <2>2, Looking DEF Go, Before
    <2>3. CASE /\ owner["scratch"] = Nil
               /\ owner' = [owner EXCEPT !["scratch"] = "run"]
               /\ data' = [data EXCEPT !["scratch"] = lane.dump]
               /\ Go("smoke_drop")
      <3>1. /\ owner' \in [Names -> {Nil, "run", "operator"}] /\ DOMAIN data' = Names
            /\ owner'["scratch"] = "run" /\ owner'["target"] = owner["target"]
            /\ data'["target"] = data["target"]
        BY <1>1, <2>3 DEF Names
      <3>2. /\ LaneTypes' /\ lane'.place = "smoke_drop"
            /\ lane'.created = lane.created /\ lane'.granted = lane.granted
            /\ lane'.evidence = lane.evidence /\ lane'.lost = lane.lost
        BY <1>1, <2>1, <2>3, <3>1, Going DEF Go, Before
      <3>3. KeepsOthers
        BY <2>1, <2>3, <3>1, NilAssumption DEF KeepsOthers, Names
      <3> QED
        BY <2>1, <3>1, <3>2, <3>3
           DEF LaneInv, OwnInv, UndoInv, Before, Creating, Migrating, Stopped, Supplied, NoSilentResidue
    <2> QED
      BY <1>4, <2>2, <2>3 DEF SmokeCreate
  <1>5. CASE SmokeDrop
    <2>1. lane.place = "smoke_drop" /\ UNCHANGED <<live, account, conf>>
      BY <1>5 DEF SmokeDrop, Elsewhere, Is
    <2>2. CASE Go("HELD") /\ UNCHANGED <<owner, data>>
      BY <1>1, <2>1, <2>2, Looking DEF Go, Before
    <2>3. CASE /\ owner' = [owner EXCEPT !["scratch"] = Nil]
               /\ data' = [data EXCEPT !["scratch"] = Nil]
               /\ \/ Go(IF conf.mode = "supplied" THEN "upgrade" ELSE "exists")
                  \/ Go("FAILED")
      <3>1. /\ owner' \in [Names -> {Nil, "run", "operator"}] /\ DOMAIN data' = Names
            /\ owner'["target"] = owner["target"]
            /\ data'["target"] = data["target"]
        BY <1>1, <2>3 DEF Names
      <3>2. PICK place : /\ place \in {IF conf.mode = "supplied" THEN "upgrade" ELSE "exists", "FAILED"}
                         /\ lane' = [lane EXCEPT !.place = place]
        BY <2>3 DEF Go
      <3>3. /\ LaneTypes' /\ lane'.place = place
            /\ lane'.created = lane.created /\ lane'.granted = lane.granted
            /\ lane'.evidence = lane.evidence /\ lane'.lost = lane.lost
        BY <1>1, <2>1, <3>1, <3>2, Going DEF Before, Migrating, Stopped
      <3>4. KeepsOthers
        BY <2>1, <3>1 DEF KeepsOthers, Names, LaneInv, OwnInv
      <3> QED
        BY <2>1, <3>1, <3>2, <3>3, <3>4
           DEF LaneInv, OwnInv, UndoInv, Before, Creating, Migrating, Stopped, Supplied, NoSilentResidue
    <2> QED
      BY <1>5, <2>2, <2>3 DEF SmokeDrop
  <1> QED
    BY <1>2, <1>3, <1>4, <1>5 DEF Backup

LEMMA CreateStep ==
  ASSUME LaneInv, CreateTarget
  PROVE  LaneInv' /\ KeepsOthers
  <1>1. LaneTypes /\ owner \in [Names -> {Nil, "run", "operator"}] /\ DOMAIN data = Names
    BY DEF LaneInv, LaneTypes
  <1>a. ~Supplied \/ lane.place \notin Creating \cup {"exists", "preflight", "create"}
    BY DEF LaneInv, UndoInv
  <1>b. conf.same => lane.place \notin Creating \cup {"exists", "preflight", "create"}
    BY DEF LaneInv, OwnInv, Creating, Stopped
  <1>2. CASE CheckAbsent
    <2>1. /\ lane.place = "exists" /\ UNCHANGED <<live, owner, data, account, conf>>
          /\ \E place \in {"preflight", "FAILED"} : lane' = [lane EXCEPT !.place = place]
      BY <1>2 DEF CheckAbsent, Go, Elsewhere, Is
    <2> QED
      BY <1>1, <1>a, <1>b, <2>1, Looking DEF Before
  <1>3. CASE GrantPreflight
    <2>1. /\ lane.place = "preflight" /\ UNCHANGED <<live, owner, data, account, conf>>
          /\ \E place \in {"create", "FAILED"} : lane' = [lane EXCEPT !.place = place]
      BY <1>3 DEF GrantPreflight, Go, Elsewhere, Is
    <2> QED
      BY <1>1, <1>a, <1>b, <2>1, Looking DEF Before
  <1>4. CASE CreateDatabase
    <2>1. lane.place = "create" /\ UNCHANGED <<live, data, account, conf>>
      BY <1>4 DEF CreateDatabase, Elsewhere, Is
    <2>2. CASE Go("FAILED") /\ UNCHANGED owner
      BY <1>1, <1>a, <1>b, <2>1, <2>2, Looking DEF Go, Before
    <2>3. CASE /\ owner["target"] = Nil
               /\ owner' = [owner EXCEPT !["target"] = "run"]
               /\ lane' = [lane EXCEPT !.created = TRUE,
                              !.place = IF conf.mode = "restore" THEN "restore" ELSE "grant"]
      <3>1. /\ owner' \in [Names -> {Nil, "run", "operator"}]
            /\ owner'["target"] = "run" /\ owner'["scratch"] = owner["scratch"]
        BY <1>1, <2>3 DEF Names
      <3>2. /\ lane'.place \in {"restore", "grant"} /\ DOMAIN lane' = DOMAIN lane
            /\ lane'.created = TRUE /\ lane'.granted = lane.granted
            /\ lane'.evidence = lane.evidence /\ lane'.lost = lane.lost
        BY <1>1, <2>3 DEF LaneTypes
      <3>3. LaneTypes'
        BY <1>1, <2>1, <3>1, <3>2 DEF LaneTypes, Creating
      <3>4. KeepsOthers
        BY <2>1, <2>3, <3>1, NilAssumption DEF KeepsOthers, Names
      <3>5. OwnInv'
        BY <1>b, <2>1, <3>1, <3>2 DEF LaneInv, OwnInv, Supplied, Creating
      <3>6. UndoInv'
        BY <1>a, <2>1, <3>1, <3>2
           DEF LaneInv, UndoInv, Before, Creating, Migrating, Supplied, NoSilentResidue
      <3> QED
        BY <3>3, <3>4, <3>5, <3>6 DEF LaneInv
    <2> QED
      BY <1>4, <2>2, <2>3 DEF CreateDatabase
  <1>5. CASE RestoreDump
    <2>1. /\ lane.place = "restore" /\ UNCHANGED <<live, owner, account, conf>>
          /\ data' = [data EXCEPT !["target"] = lane.dump]
          /\ \E place \in {"grant", "drop"} : lane' = [lane EXCEPT !.place = place]
      BY <1>5 DEF RestoreDump, Go, Elsewhere, Is
    <2>2. DOMAIN data' = Names /\ data'["scratch"] = data["scratch"]
      BY <1>1, <2>1 DEF Names
    <2> QED
      BY <1>1, <2>1, <2>2, Looking DEF Creating
  <1>6. CASE Grant
    <2>1. lane.place = "grant" /\ UNCHANGED <<live, owner, data, conf>>
      BY <1>6 DEF Grant, Elsewhere, Is
    <2>2. CASE Go("drop") /\ UNCHANGED account
      BY <1>1, <2>1, <2>2, Looking DEF Go, Creating
    <2>3. CASE lane' = [lane EXCEPT !.before = account, !.granted = TRUE, !.place = "probe"]
      <3>1. /\ lane'.place = "probe" /\ DOMAIN lane' = DOMAIN lane
            /\ lane'.created = lane.created /\ lane'.granted = TRUE
            /\ lane'.evidence = lane.evidence /\ lane'.lost = lane.lost
        BY <1>1, <2>3 DEF LaneTypes
      <3>2. LaneTypes'
        BY <1>1, <2>1, <3>1 DEF LaneTypes, Creating
      <3>3. OwnInv'
        BY <1>b, <2>1, <3>1 DEF LaneInv, OwnInv, Supplied, Creating
      <3>4. UndoInv'
        BY <1>a, <2>1, <3>1
           DEF LaneInv, UndoInv, Before, Creating, Migrating, Supplied, NoSilentResidue
      <3> QED
        BY <2>1, <3>2, <3>3, <3>4, Untouched DEF LaneInv
    <2> QED
      BY <1>6, <2>2, <2>3 DEF Grant
  <1>7. CASE ProbeAccess
    <2>1. lane.place = "probe" /\ UNCHANGED <<live, owner, data, account, conf>>
      BY <1>7 DEF ProbeAccess, Elsewhere, Is
    <2>2. CASE Go("revoke")
      BY <1>1, <2>1, <2>2, Looking DEF Go, Creating
    <2>3. CASE lane' = [lane EXCEPT !.evidence = TRUE, !.place = "connect"]
      <3>1. /\ lane'.place = "connect" /\ DOMAIN lane' = DOMAIN lane
            /\ lane'.created = lane.created /\ lane'.granted = lane.granted
            /\ lane'.evidence = TRUE /\ lane'.lost = lane.lost
        BY <1>1, <2>3 DEF LaneTypes
      <3>2. LaneTypes'
        BY <1>1, <2>1, <3>1 DEF LaneTypes, Creating
      <3>3. OwnInv'
        BY <1>b, <2>1, <3>1 DEF LaneInv, OwnInv, Supplied, Creating
      <3>4. UndoInv'
        BY <1>a, <2>1, <3>1
           DEF LaneInv, UndoInv, Before, Creating, Migrating, Supplied, NoSilentResidue
      <3> QED
        BY <2>1, <3>2, <3>3, <3>4, Untouched DEF LaneInv
    <2> QED
      BY <1>7, <2>2, <2>3 DEF ProbeAccess
  <1>8. CASE RevokeAfterProbe
    <2>1. lane.place = "revoke" /\ UNCHANGED <<live, owner, data, conf>>
      BY <1>8 DEF RevokeAfterProbe, Elsewhere, Is
    <2>2. PICK place \in {"drop", "drop_told"} :
             /\ lane' = [lane EXCEPT !.place = place]
             /\ place = "drop" => "target" \notin account'
      BY <1>8 DEF RevokeAfterProbe, Revoked, Go
    <2>3. /\ LaneTypes' /\ lane'.place = place
          /\ lane'.created = lane.created /\ lane'.granted = lane.granted
          /\ lane'.evidence = lane.evidence /\ lane'.lost = lane.lost
      BY <1>1, <2>1, <2>2, Going DEF Creating
    <2>4. OwnInv'
      BY <1>b, <2>1, <2>2, <2>3 DEF LaneInv, OwnInv, Supplied, Creating
    <2>5. UndoInv'
      BY <1>a, <2>1, <2>2, <2>3
         DEF LaneInv, UndoInv, Before, Creating, Migrating, Supplied, NoSilentResidue
    <2> QED
      BY <2>1, <2>3, <2>4, <2>5, Untouched DEF LaneInv
  <1>9. CASE DropCreated
    <2>1. lane.place \in {"drop", "drop_told"} /\ UNCHANGED <<live, account, conf>>
      BY <1>9 DEF DropCreated, Elsewhere, Is
    <2>2. CASE Go("HELD") /\ UNCHANGED <<owner, data>>
      BY <1>1, <2>1, <2>2, Looking DEF Go, Creating
    <2>3. CASE /\ owner' = [owner EXCEPT !["target"] = IF lane.created THEN Nil ELSE @]
               /\ data' = [data EXCEPT !["target"] = IF lane.created THEN Nil ELSE @]
               /\ Go(IF Is("drop") THEN "FAILED" ELSE "HELD")
      <3>1. lane.created /\ owner["target"] = "run"
        BY <1>a, <2>1 DEF LaneInv, OwnInv, UndoInv, Creating
      <3>2. /\ owner' \in [Names -> {Nil, "run", "operator"}] /\ DOMAIN data' = Names
            /\ owner'["target"] = Nil /\ owner'["scratch"] = owner["scratch"]
            /\ data'["scratch"] = data["scratch"]
        BY <1>1, <2>3, <3>1 DEF Names
      <3>3. PICK place : place = IF Is("drop") THEN "FAILED" ELSE "HELD"
        OBVIOUS
      <3>4. /\ LaneTypes' /\ lane'.place = place
            /\ lane'.created = lane.created /\ lane'.granted = lane.granted
            /\ lane'.evidence = lane.evidence /\ lane'.lost = lane.lost
        BY <1>1, <2>1, <2>3, <3>2, <3>3, Going DEF Go, Stopped
      <3>5. KeepsOthers
        BY <2>1, <3>1, <3>2 DEF KeepsOthers, Names
      <3>6. OwnInv'
        BY <3>3, <3>4 DEF OwnInv, Stopped, Creating, Migrating
      <3>7. UndoInv'
        BY <1>a, <2>1, <3>2, <3>3, <3>4, NilAssumption
           DEF LaneInv, UndoInv, Before, Creating, Migrating, Supplied, NoSilentResidue, Is
      <3> QED
        BY <3>4, <3>5, <3>6, <3>7 DEF LaneInv
    <2> QED
      BY <1>9, <2>2, <2>3 DEF DropCreated
  <1>10. CASE KeepEvidence
    <2>1. lane.place = "connect" /\ UNCHANGED <<live, owner, data, account, conf>>
      BY <1>10 DEF KeepEvidence, Elsewhere, Is
    <2>2. CASE Go(IF conf.mode = "empty" THEN "empty" ELSE "upgrade")
      <3>1. PICK place : /\ place = IF conf.mode = "empty" THEN "empty" ELSE "upgrade"
                         /\ lane' = [lane EXCEPT !.place = place]
        BY <2>2 DEF Go
      <3>2. /\ LaneTypes' /\ lane'.place = place
            /\ lane'.created = lane.created /\ lane'.granted = lane.granted
            /\ lane'.evidence = lane.evidence /\ lane'.lost = lane.lost
        BY <1>1, <2>1, <3>1, Going DEF Creating, Migrating
      <3>3. OwnInv'
        BY <1>b, <2>1, <3>1, <3>2 DEF LaneInv, OwnInv, Supplied, Creating
      <3>4. UndoInv'
        BY <1>a, <2>1, <3>1, <3>2
           DEF LaneInv, UndoInv, Before, Creating, Migrating, Supplied, NoSilentResidue
      <3> QED
        BY <2>1, <3>2, <3>3, <3>4, Untouched DEF LaneInv
    <2>3. CASE lane' = [lane EXCEPT !.lost = TRUE, !.place = "FAILED"]
      <3>1. /\ lane'.place = "FAILED" /\ DOMAIN lane' = DOMAIN lane
            /\ lane'.created = lane.created /\ lane'.granted = lane.granted
            /\ lane'.evidence = lane.evidence /\ lane'.lost = TRUE
        BY <1>1, <2>3 DEF LaneTypes
      <3>2. LaneTypes'
        BY <1>1, <2>1, <3>1 DEF LaneTypes, Stopped
      <3>3. OwnInv'
        BY <3>1 DEF OwnInv, Stopped, Creating, Migrating
      <3>4. UndoInv'
        BY <1>a, <2>1, <3>1
           DEF LaneInv, UndoInv, Before, Creating, Migrating, Supplied, NoSilentResidue
      <3> QED
        BY <2>1, <3>2, <3>3, <3>4, Untouched DEF LaneInv
    <2> QED
      BY <1>10, <2>2, <2>3 DEF KeepEvidence
  <1> QED
    BY <1>2, <1>3, <1>4, <1>5, <1>6, <1>7, <1>8, <1>9, <1>10 DEF CreateTarget

LEMMA CleanupStep ==
  ASSUME LaneInv, CleanupTarget
  PROVE  LaneInv' /\ KeepsOthers
  <1>1. LaneTypes /\ owner \in [Names -> {Nil, "run", "operator"}] /\ DOMAIN data = Names
    BY DEF LaneInv, LaneTypes
  <1>a. ~Supplied \/ lane.place \notin Creating
    BY DEF LaneInv, UndoInv
  <1>b. conf.same => lane.place \notin Creating
    BY DEF LaneInv, OwnInv, Creating, Stopped
  <1>2. CASE CleanupRevoke
    <2>1. lane.place = "cleanup" /\ UNCHANGED <<live, owner, data, conf>>
      BY <1>2 DEF CleanupRevoke, Elsewhere, Is
    <2>2. PICK place \in {"cleanup_drop", "HELD"} :
             /\ lane' = [lane EXCEPT !.place = place]
             /\ place = "cleanup_drop" => "target" \notin account'
      BY <1>2 DEF CleanupRevoke, Revoked, Go
    <2>3. /\ LaneTypes' /\ lane'.place = place
          /\ lane'.created = lane.created /\ lane'.granted = lane.granted
          /\ lane'.evidence = lane.evidence /\ lane'.lost = lane.lost
      BY <1>1, <2>1, <2>2, Going DEF Creating, Stopped
    <2>4. OwnInv'
      BY <1>b, <2>1, <2>2, <2>3 DEF LaneInv, OwnInv, Supplied, Creating, Migrating, Stopped
    <2>5. UndoInv'
      BY <1>a, <2>1, <2>2, <2>3
         DEF LaneInv, UndoInv, Before, Creating, Migrating, Supplied, NoSilentResidue
    <2> QED
      BY <2>1, <2>3, <2>4, <2>5, Untouched DEF LaneInv
  <1>3. CASE CleanupDrop
    <2>1. lane.place = "cleanup_drop" /\ UNCHANGED <<live, account, conf>>
      BY <1>3 DEF CleanupDrop, Elsewhere, Is
    <2>2. CASE Go("HELD") /\ UNCHANGED <<owner, data>>
      BY <1>1, <2>1, <2>2, Looking DEF Go, Creating
    <2>3. CASE /\ owner' = [owner EXCEPT !["target"] = Nil]
               /\ data' = [data EXCEPT !["target"] = Nil]
               /\ Go("FAILED")
      <3>1. owner["target"] = "run"
        BY <1>a, <2>1 DEF LaneInv, OwnInv, Creating
      <3>2. /\ owner' \in [Names -> {Nil, "run", "operator"}] /\ DOMAIN data' = Names
            /\ owner'["target"] = Nil /\ owner'["scratch"] = owner["scratch"]
            /\ data'["scratch"] = data["scratch"]
        BY <1>1, <2>3 DEF Names
      <3>3. /\ LaneTypes' /\ lane'.place = "FAILED"
            /\ lane'.created = lane.created /\ lane'.granted = lane.granted
            /\ lane'.evidence = lane.evidence /\ lane'.lost = lane.lost
        BY <1>1, <2>1, <2>3, <3>2, Going DEF Go, Stopped
      <3>4. KeepsOthers
        BY <2>1, <3>1, <3>2 DEF KeepsOthers, Names
      <3>5. OwnInv'
        BY <3>3 DEF OwnInv, Stopped, Creating, Migrating
      <3>6. UndoInv'
        BY <1>a, <2>1, <3>2, <3>3, NilAssumption
           DEF LaneInv, UndoInv, Before, Creating, Migrating, Supplied, NoSilentResidue
      <3> QED
        BY <3>3, <3>4, <3>5, <3>6 DEF LaneInv
    <2> QED
      BY <1>3, <2>2, <2>3 DEF CleanupDrop
  <1>4. CASE EmptyLaneFails
    <2>1. /\ lane.place = "empty" /\ UNCHANGED <<live, owner, data, account, conf>>
          /\ lane' = [lane EXCEPT !.place = "cleanup"]
      BY <1>4 DEF EmptyLaneFails, Probe, Go, Elsewhere, Is
    <2> QED
      BY <1>1, <2>1, Looking DEF Creating
  <1> QED
    BY <1>2, <1>3, <1>4 DEF CleanupTarget

(* The gates and the schema: the target is written to, nothing else is. *)
LEMMA MigrateStep ==
  ASSUME LaneInv, CompareBefore \/ ApplyV3 \/ FileStateGate \/ CompareAfter
  PROVE  LaneInv' /\ KeepsOthers
  <1>1. LaneTypes /\ DOMAIN data = Names
    BY DEF LaneInv, LaneTypes
  <1>2. lane.place \in Migrating
    BY DEF CompareBefore, ApplyV3, EnsureLedger, CheckLedger, StartV3, AddColumn, Repair, Applied,
           FileStateGate, CompareAfter, Is, Migrating
  <1>3. ~conf.same
    BY <1>2 DEF LaneInv, OwnInv, Migrating, Stopped
  <1>4. Failing \in {"cleanup", "FAILED"}
    BY DEF Failing
  <1>5. ASSUME NEW next \in Migrating \cup {"PASSED", Failing}, Go(next),
               \/ UNCHANGED <<live, owner, data, account, conf>>
               \/ \E db : WriteTarget(db)
        PROVE  LaneInv' /\ KeepsOthers
    <2>1. UNCHANGED <<live, owner, account, conf>>
      BY <1>3, <1>5 DEF WriteTarget
    <2>2. DOMAIN data' = Names /\ data'["scratch"] = data["scratch"]
      <3>1. CASE UNCHANGED data
        BY <1>1, <3>1
      <3>2. CASE \E db : WriteTarget(db)
        BY <1>1, <1>3, <3>2 DEF WriteTarget, Names
      <3> QED
        BY <1>5, <3>1, <3>2
    <2>3. next \in {"FAILED", "HELD", "PASSED"} \cup Before \cup Creating \cup Migrating
      BY <1>4, <1>5 DEF Creating
    <2> QED
      BY <1>2, <1>5, <2>1, <2>2, <2>3, Looking DEF Go
  <1>6. ASSUME NEW next \in Migrating \cup {"PASSED"}, Continue(next)
        PROVE  LaneInv' /\ KeepsOthers
    BY <1>5, <1>6 DEF Continue
  <1>7. ASSUME Raise
        PROVE  LaneInv' /\ KeepsOthers
    BY <1>5, <1>7 DEF Raise
  <1>8. ASSUME NEW next \in Migrating \cup {Failing}, NEW db, WriteTarget(db), Go(next)
        PROVE  LaneInv' /\ KeepsOthers
    BY <1>5, <1>8
  <1>9. CASE CompareBefore
    BY <1>6, <1>7, <1>9 DEF CompareBefore, Migrating
  <1>10. CASE EnsureLedger
    BY <1>7, <1>8, <1>10 DEF EnsureLedger, Migrating
  <1>11. CASE CheckLedger
    <2>1. Raise \/ Continue("filestate") \/ Continue("start")
      BY <1>11 DEF CheckLedger
    <2> QED
      BY <1>6, <1>7, <2>1 DEF Migrating
  <1>12. CASE StartV3
    BY <1>8, <1>12 DEF StartV3, Migrating
  <1>13. ASSUME V3Fails
         PROVE  LaneInv' /\ KeepsOthers
    BY <1>8, <1>13 DEF V3Fails
  <1>14. CASE AddColumn
    BY <1>6, <1>8, <1>13, <1>14 DEF AddColumn, Migrating
  <1>15. CASE Repair
    BY <1>8, <1>13, <1>15 DEF Repair, Migrating
  <1>16. CASE Applied
    BY <1>8, <1>16 DEF Applied, Migrating
  <1>17. CASE FileStateGate
    BY <1>7, <1>8, <1>17 DEF FileStateGate, Migrating
  <1>18. CASE CompareAfter
    BY <1>6, <1>7, <1>18 DEF CompareAfter
  <1> QED
    BY <1>9, <1>10, <1>11, <1>12, <1>14, <1>15, <1>16, <1>17, <1>18 DEF ApplyV3

LEMMA UpgradeKeeps ==
  ASSUME LaneInv, UpgradeStep
  PROVE  LaneInv' /\ KeepsOthers
  <1>1. LaneTypes
    BY DEF LaneInv
  <1>2. CASE BeginUpgrade
    <2>1. UNCHANGED <<live, owner, data, account, conf>>
      BY <1>2 DEF BeginUpgrade
    <2>2. PICK d : lane' = [Fresh EXCEPT !.ddl = d,
                              !.place = IF conf.mode = "supplied" THEN "separate" ELSE "witness"]
      BY <1>2 DEF BeginUpgrade
    <2>3. /\ lane'.place = (IF Supplied THEN "separate" ELSE "witness")
          /\ lane'.created = FALSE /\ lane'.granted = FALSE
          /\ lane'.evidence = FALSE /\ lane'.lost = FALSE
          /\ DOMAIN lane' = {"place", "view", "dump", "before", "created", "granted", "evidence",
                             "lost", "ddl"}
      BY <2>2 DEF Fresh, Supplied
    <2>4. LaneTypes'
      BY <1>1, <2>1, <2>3 DEF LaneTypes, Before
    <2>5. conf.same => Supplied
      BY <1>1 DEF LaneTypes, Configurations, Supplied
    <2> QED
      BY <2>1, <2>3, <2>4, <2>5, Untouched
         DEF LaneInv, OwnInv, UndoInv, Before, Creating, Migrating, Stopped, Supplied, NoSilentResidue
  <1>3. CASE ProbeSupplied
    <2>1. /\ UNCHANGED <<live, owner, data, account, conf>> /\ lane.place = "separate"
          /\ \/ ~conf.same /\ lane' = [lane EXCEPT !.place = "witness"]
             \/ lane' = [lane EXCEPT !.place = "FAILED"]
      BY <1>3 DEF ProbeSupplied, Continue, Separated, Go, Is
    <2> QED
      BY <1>1, <2>1, Looking DEF Before, LaneTypes
  <1>4. CASE Dies
    <2>1. lane' = Fresh /\ UNCHANGED <<live, owner, data, account, conf>>
      BY <1>4 DEF Dies
    <2>2. LaneTypes'
      BY <1>1, <2>1 DEF LaneTypes, Fresh, Before
    <2> QED
      BY <2>1, <2>2, Untouched
         DEF LaneInv, OwnInv, UndoInv, Fresh, Before, Creating, Migrating, Stopped, Supplied,
             NoSilentResidue
  <1> QED
    BY <1>2, <1>3, <1>4, BackupStep, CreateStep, CleanupStep, MigrateStep DEF UpgradeStep

LEMMA LaneInvStep == LaneInv /\ [ExistingNext]_laneVars => LaneInv'
  <1> SUFFICES ASSUME LaneInv, [ExistingNext]_laneVars PROVE LaneInv'
    OBVIOUS
  <1>1. LaneTypes
    BY DEF LaneInv
  <1>2. ASSUME UNCHANGED <<owner, data, conf, lane>>,
               "target" \in account' => "target" \in account
        PROVE  LaneInv'
    BY <1>2 DEF LaneInv, LaneTypes, OwnInv, UndoInv, Supplied, NoSilentResidue
  <1>3. CASE UNCHANGED laneVars
    BY <1>2, <1>3 DEF laneVars
  <1>4. CASE (\E r \in Ids : EditRecord(r)) \/ (\E k \in Ids : RejectLine(k))
    BY <1>2, <1>4 DEF EditRecord, RejectLine
  <1>5. CASE OperatorChangesGrants
    BY <1>2, <1>5 DEF OperatorChangesGrants
  <1>6. ASSUME NEW n \in Names, OperatorTakesName(n)
        PROVE  LaneInv'
    <2>1. /\ owner[n] = Nil /\ owner' = [owner EXCEPT ![n] = "operator"]
          /\ DOMAIN data' = DOMAIN data /\ UNCHANGED <<account, conf, lane>>
      BY <1>6 DEF OperatorTakesName
    <2>2. /\ owner' \in [Names -> {Nil, "run", "operator"}]
          /\ \A m \in Names : owner'[m] = "run" <=> owner[m] = "run"
      BY <1>1, <2>1, NilAssumption DEF LaneTypes
    <2>3. owner'["target"] = "run" <=> owner["target"] = "run"
      BY <2>2 DEF Names
    <2>4. owner'["scratch"] = "run" <=> owner["scratch"] = "run"
      BY <2>2 DEF Names
    <2> QED
      BY <1>1, <2>1, <2>2, <2>3, <2>4 DEF LaneInv, LaneTypes, OwnInv, UndoInv, Supplied, NoSilentResidue
  <1> QED
    BY <1>3, <1>4, <1>5, <1>6, UpgradeKeeps DEF ExistingNext, OthersStep

-----------------------------------------------------------------------------
(* The existing VNext route: what the target holds *)

(* The witness was read, and the dump was taken. *)
Dumped == {"smoke", "smoke_drop", "exists", "preflight", "create"} \cup Creating \cup Migrating \cup {"PASSED"}

(* What the source may hold: its first facts, with its record edited and its *)
(* inherited line rejected.                                                  *)
SourceLike(db) ==
    /\ DOMAIN db = DOMAIN SourceDatabase
    /\ db.scan = SourceDatabase.scan /\ db.block = SourceDatabase.block
    /\ db.link = SourceDatabase.link /\ db.report = SourceDatabase.report /\ db.current = 1
    /\ db.record = [i \in {1} |-> db.record[1]]
    /\ db.rejection = <<>> \/ db.rejection = [j \in {1} |-> 2]
    /\ db.version \in Nat
    /\ db.version = 0 => db.record = SourceDatabase.record /\ db.rejection = <<>>
    /\ db.ledger = Nil

(* `old` was read from a source that later gave `new`: while the version     *)
(* stands still, so does the rest.                                           *)
ReadBefore(old, new) ==
    SourceLike(old) /\ old.version <= new.version /\ (old.version = new.version => old = new)

ViewInv ==
    /\ SourceLike(live)
    /\ lane.place \in Dumped \cup {"dump"} => ReadBefore(lane.view, live)
    /\ lane.place \in Dumped => ReadBefore(lane.dump, live) /\ ReadBefore(lane.view, lane.dump)

(* The target has the facts of what it was restored from, whatever columns   *)
(* and ledger rows the migration added.                                      *)
Carries(t, db) ==
    /\ DOMAIN t = DOMAIN SourceDatabase
    /\ Authoritative(t) = Authoritative(db)
    /\ \A r \in DOMAIN t.report : DOMAIN t.report[r] = {"scan", "mode"}

Moded(t) == \A r \in DOMAIN t.report : t.report[r].mode = "LEGACY_STATIC"

Restored == conf.mode = "restore" /\ lane.place \in {"grant", "probe", "connect", "PASSED"} \cup Migrating

HoldsInv ==
    /\ conf.same => lane.place # "PASSED"
    /\ conf.mode = "empty" => lane.place \notin Migrating \cup {"PASSED"}
    /\ ~Supplied /\ lane.place = "PASSED" => owner["target"] = "run"
    /\ Supplied => /\ owner["target"] = "operator"
                   /\ \E d \in Copies(SourceDatabase) : Carries(data["target"], d)
    /\ Restored => Carries(data["target"], lane.dump)

(* APPLIED is written last, and survives attempts that died. *)
SchemaInv ==
    LET t == data["target"]
    IN  Supplied \/ Restored =>
            /\ t.ledger = "APPLIED" => t.hashed /\ t.shape = "v3" /\ Moded(t)
            /\ lane.place \in Migrating \ {"upgrade", "schema"} => t.shape = "v3"
            /\ lane.place = "applied" => t.hashed /\ Moded(t)
            /\ lane.place \in {"filestate", "recheck", "PASSED"} => t.ledger = "APPLIED"
            /\ lane.place \in {"recheck", "PASSED"} =>
                  t.pending = PendingLines(t) /\ t.fsVersion = t.version
            /\ lane.place = "PASSED" => SameFacts(lane.view, t)

WitnessInv == ViewInv /\ HoldsInv /\ SchemaInv

(* Renaming ids: for two ids there is a renaming that makes them 1 and 2. *)
LEMMA RenamingBack ==
  ASSUME NEW a \in Ids, NEW b \in Ids, a # b
  PROVE  \E q \in Renamings : q[a] = 1 /\ q[b] = 2
  <1>1. 1 \in Ids /\ 2 \in Ids /\ 1 # 2
    BY SourceAssumption
  <1> DEFINE Once(i) == IF i = 1 THEN a ELSE IF i = a THEN 1 ELSE i
             Twice(i) == IF i = 2 THEN Once(b) ELSE IF i = Once(b) THEN 2 ELSE i
             q == [i \in Ids |-> Twice(Once(i))]
  <1>2. \A i \in Ids : Once(i) \in Ids /\ Once(Once(i)) = i
    BY <1>1
  <1> HIDE DEF Once
  <1>3. \A i \in Ids : Twice(i) \in Ids /\ Twice(Twice(i)) = i
    BY <1>1, <1>2
  <1>4. Once(a) = 1 /\ Once(b) # 1
    BY <1>1 DEF Once
  <1>5. Twice(1) = 1 /\ Twice(Once(b)) = 2
    BY <1>1, <1>4
  <1> HIDE DEF Twice
  <1>6. q \in [Ids -> Ids] /\ \A i, j \in Ids : q[i] = q[j] => i = j
    <2>1. q \in [Ids -> Ids]
      BY <1>2, <1>3
    <2>2. ASSUME NEW i \in Ids, NEW j \in Ids, q[i] = q[j] PROVE i = j
      <3>1. Twice(Once(i)) = Twice(Once(j))
        BY <2>2
      <3>2. Once(i) = Once(j)
        BY <1>2, <1>3, <3>1
      <3> QED
        BY <1>2, <3>2
    <2> QED
      BY <2>1, <2>2
  <1>7. q[a] = 1 /\ q[b] = 2
    BY <1>4, <1>5
  <1> QED
    BY <1>6, <1>7 DEF Renamings

LEMMA RenamingNothing ==
  [i \in Ids |-> i] \in Renamings
  BY DEF Renamings

LEMMA SourceRows ==
  /\ SourceDatabase.scan = [i \in {1} |-> "s"]
  /\ SourceDatabase.record = [i \in {1} |-> <<"first", 0>>]
  /\ SourceDatabase.block = [i \in {1} |-> [lines |-> SourceLines, record |-> 1]]
  /\ SourceDatabase.link = [i \in {1, 2} |->
                 [scan |-> 1, line |-> CHOOSE l \in SourceLines :
                                           (l = CHOOSE x \in SourceLines : TRUE) = (i = 1),
                  block |-> 1, record |-> 1, origin |-> i - 1]]
  /\ SourceDatabase.rejection = <<>>
  /\ SourceDatabase.report = [i \in {1} |-> [scan |-> 1, mode |-> Nil]]
  /\ SourceDatabase.current = 1 /\ SourceDatabase.version = 0
  /\ SourceDatabase.ledger = Nil
  BY DEF SourceDatabase

(* The two links, one inherited from the other. *)
LEMMA SourceLinks ==
  /\ DOMAIN SourceDatabase.link = {1, 2}
  /\ SourceDatabase.link[1].origin = 0 /\ SourceDatabase.link[2].origin = 1
  /\ \A k \in {1, 2} :
        /\ SourceDatabase.link[k] = [scan |-> 1, line |-> SourceDatabase.link[k].line, block |-> 1,
                                     record |-> 1, origin |-> k - 1]
  BY SourceRows

LEMMA FactsAgree ==
  ASSUME NEW a, NEW b, SameFacts(a, b)
  PROVE  /\ a.version = b.version /\ ScanIdentity(a, a.current) = ScanIdentity(b, b.current)
         /\ Multiset([i \in DOMAIN a.link |-> LinkFact(a, i)])
              = Multiset([i \in DOMAIN b.link |-> LinkFact(b, i)])
  <1>1. \A c \in DOMAIN FactSnapshot(a) : FactSnapshot(a)[c] = FactSnapshot(b)[c]
    BY DEF SameFacts
  <1>2. {"links", "state"} \subseteq DOMAIN FactSnapshot(a)
    BY DEF FactSnapshot
  <1>3. FactSnapshot(a).links = FactSnapshot(b).links /\ FactSnapshot(a).state = FactSnapshot(b).state
    BY <1>1, <1>2
  <1>4. /\ FactSnapshot(a).links = Multiset([i \in DOMAIN a.link |-> LinkFact(a, i)])
        /\ FactSnapshot(b).links = Multiset([i \in DOMAIN b.link |-> LinkFact(b, i)])
        /\ FactSnapshot(a).state = StateFact(a) /\ FactSnapshot(b).state = StateFact(b)
    BY DEF FactSnapshot
  <1>5. StateFact(a) = StateFact(b)
    BY <1>3, <1>4
  <1> QED
    BY <1>3, <1>4, <1>5 DEF StateFact

LEMMA AuthorityIs ==
  ASSUME NEW a, NEW b, Authoritative(a) = Authoritative(b)
  PROVE  /\ a.scan = b.scan /\ a.record = b.record /\ a.block = b.block /\ a.link = b.link
         /\ a.rejection = b.rejection /\ a.version = b.version /\ a.current = b.current
         /\ [r \in DOMAIN a.report |-> a.report[r].scan] = [r \in DOMAIN b.report |-> b.report[r].scan]
  BY DEF Authoritative

LEMMA SourceFields ==
  {"scan", "record", "block", "link", "rejection", "report", "current", "version", "ledger"}
    \subseteq DOMAIN SourceDatabase
  BY DEF SourceDatabase

LEMMA ChosenBack ==
  ASSUME NEW p \in Renamings, NEW T \in SUBSET Ids, NEW i \in T
  PROVE  (CHOOSE k \in T : p[k] = p[i]) = i
  BY DEF Renamings

(* The rows of a renamed table: one row, or the two links, or none. *)
LEMMA RenamedScan ==
  ASSUME NEW p \in Renamings, NEW db, DOMAIN db = DOMAIN SourceDatabase, NEW a \in Ids,
         DOMAIN db.scan = {a}
  PROVE  Renamed(p, db).scan = [n \in {p[a]} |-> db.scan[a]]
  <1>1. PICK f : f = Renamed(p, db).scan
    OBVIOUS
  <1>2. f = [n \in {p[i] : i \in {a}} |-> db.scan[CHOOSE i \in {a} : p[i] = n]]
    BY <1>1, SourceFields DEF Renamed, RenameTable
  <1>3. (CHOOSE i \in {a} : p[i] = p[a]) = a
    BY ChosenBack
  <1>4. DOMAIN f = {p[a]} /\ f[p[a]] = db.scan[a] /\ f = [n \in {p[a]} |-> f[n]]
    BY <1>2, <1>3
  <1> QED
    BY <1>1, <1>4

LEMMA RenamedRecord ==
  ASSUME NEW p \in Renamings, NEW db, DOMAIN db = DOMAIN SourceDatabase, NEW a \in Ids,
         DOMAIN db.record = {a}
  PROVE  Renamed(p, db).record = [n \in {p[a]} |-> db.record[a]]
  <1>1. PICK f : f = Renamed(p, db).record
    OBVIOUS
  <1>2. f = [n \in {p[i] : i \in {a}} |-> db.record[CHOOSE i \in {a} : p[i] = n]]
    BY <1>1, SourceFields DEF Renamed, RenameTable
  <1>3. (CHOOSE i \in {a} : p[i] = p[a]) = a
    BY ChosenBack
  <1>4. DOMAIN f = {p[a]} /\ f[p[a]] = db.record[a] /\ f = [n \in {p[a]} |-> f[n]]
    BY <1>2, <1>3
  <1> QED
    BY <1>1, <1>4

LEMMA RenamedBlock ==
  ASSUME NEW p \in Renamings, NEW db, DOMAIN db = DOMAIN SourceDatabase, NEW a \in Ids,
         DOMAIN db.block = {a}
  PROVE  Renamed(p, db).block = [n \in {p[a]} |-> RenameBlock(p, db.block[a])]
  <1>1. PICK f : f = Renamed(p, db).block
    OBVIOUS
  <1>2. f = [n \in {p[i] : i \in {a}} |-> RenameBlock(p, db.block[CHOOSE i \in {a} : p[i] = n])]
    BY <1>1, SourceFields DEF Renamed, RenameTable
  <1>3. (CHOOSE i \in {a} : p[i] = p[a]) = a
    BY ChosenBack
  <1>4. DOMAIN f = {p[a]} /\ f[p[a]] = RenameBlock(p, db.block[a]) /\ f = [n \in {p[a]} |-> f[n]]
    BY <1>2, <1>3
  <1> QED
    BY <1>1, <1>4

LEMMA RenamedRejection ==
  ASSUME NEW p \in Renamings, NEW db, DOMAIN db = DOMAIN SourceDatabase, NEW a \in Ids,
         DOMAIN db.rejection = {a}
  PROVE  Renamed(p, db).rejection = [n \in {p[a]} |-> p[db.rejection[a]]]
  <1>1. PICK f : f = Renamed(p, db).rejection
    OBVIOUS
  <1>2. f = [n \in {p[i] : i \in {a}} |-> p[db.rejection[CHOOSE i \in {a} : p[i] = n]]]
    BY <1>1, SourceFields DEF Renamed, RenameTable
  <1>3. (CHOOSE i \in {a} : p[i] = p[a]) = a
    BY ChosenBack
  <1>4. DOMAIN f = {p[a]} /\ f[p[a]] = p[db.rejection[a]] /\ f = [n \in {p[a]} |-> f[n]]
    BY <1>2, <1>3
  <1> QED
    BY <1>1, <1>4

LEMMA RenamedReport ==
  ASSUME NEW p \in Renamings, NEW db, DOMAIN db = DOMAIN SourceDatabase, NEW a \in Ids,
         DOMAIN db.report = {a}
  PROVE  Renamed(p, db).report = [n \in {p[a]} |-> RenameReport(p, db.report[a])]
  <1>1. PICK f : f = Renamed(p, db).report
    OBVIOUS
  <1>2. f = [n \in {p[i] : i \in {a}} |-> RenameReport(p, db.report[CHOOSE i \in {a} : p[i] = n])]
    BY <1>1, SourceFields DEF Renamed, RenameTable
  <1>3. (CHOOSE i \in {a} : p[i] = p[a]) = a
    BY ChosenBack
  <1>4. DOMAIN f = {p[a]} /\ f[p[a]] = RenameReport(p, db.report[a]) /\ f = [n \in {p[a]} |-> f[n]]
    BY <1>2, <1>3
  <1> QED
    BY <1>1, <1>4

LEMMA RenamedLinks ==
  ASSUME NEW p \in Renamings, NEW db, DOMAIN db = DOMAIN SourceDatabase, NEW a \in Ids, NEW b \in Ids,
         a # b, DOMAIN db.link = {a, b}
  PROVE  Renamed(p, db).link = [n \in {p[a], p[b]} |-> IF n = p[a] THEN RenameLink(p, db.link[a])
                                                       ELSE RenameLink(p, db.link[b])]
  <1>1. PICK f : f = Renamed(p, db).link
    OBVIOUS
  <1>2. f = [n \in {p[i] : i \in {a, b}} |-> RenameLink(p, db.link[CHOOSE i \in {a, b} : p[i] = n])]
    BY <1>1, SourceFields DEF Renamed, RenameTable
  <1>3. (CHOOSE i \in {a, b} : p[i] = p[a]) = a /\ (CHOOSE i \in {a, b} : p[i] = p[b]) = b
    BY ChosenBack
  <1>4. DOMAIN f = {p[a], p[b]} /\ f = [n \in {p[a], p[b]} |-> f[n]]
    BY <1>2
  <1>5. f[p[a]] = RenameLink(p, db.link[a]) /\ f[p[b]] = RenameLink(p, db.link[b])
    BY <1>2, <1>3
  <1>6. p[a] # p[b]
    BY DEF Renamings
  <1> QED
    BY <1>1, <1>4, <1>5, <1>6

LEMMA RenamedNoRejection ==
  ASSUME NEW p \in Renamings, NEW db, DOMAIN db = DOMAIN SourceDatabase, DOMAIN db.rejection = {}
  PROVE  Renamed(p, db).rejection = [n \in {} |-> 0]
  <1>1. PICK f : f = Renamed(p, db).rejection
    OBVIOUS
  <1>2. f = [n \in {p[i] : i \in {}} |-> p[db.rejection[CHOOSE i \in {} : p[i] = n]]]
    BY <1>1, SourceFields DEF Renamed, RenameTable
  <1>3. {p[i] : i \in {}} = {}
    OBVIOUS
  <1>4. f = [n \in {} |-> 0]
    BY <1>2, <1>3
  <1> QED
    BY <1>1, <1>4

LEMMA RenamedState ==
  ASSUME NEW p, NEW db, DOMAIN db = DOMAIN SourceDatabase
  PROVE  /\ DOMAIN Renamed(p, db) = DOMAIN SourceDatabase
         /\ Renamed(p, db).current = RenameId(p, db.current)
         /\ Renamed(p, db).version = db.version /\ Renamed(p, db).ledger = db.ledger
  BY SourceFields DEF Renamed


(* A row of the source's links, in the numbering that calls its rows a and b. *)
Link(a, line, origin) == [scan |-> a, line |-> line, block |-> a, record |-> a, origin |-> origin]

(* Facts of the source: its first rows, called a and b, with what the record *)
(* says, whether the inherited line is rejected, and the data version.       *)
Numbered(db, a, b, text, rejected, version) ==
    /\ DOMAIN db = DOMAIN SourceDatabase
    /\ db.scan = [n \in {a} |-> "s"]
    /\ db.record = [n \in {a} |-> text]
    /\ db.block = [n \in {a} |-> [lines |-> SourceLines, record |-> a]]
    /\ db.link = [n \in {a, b} |-> IF n = a THEN Link(a, SourceDatabase.link[1].line, 0)
                                   ELSE Link(a, SourceDatabase.link[2].line, a)]
    /\ db.rejection = IF rejected THEN [n \in {a} |-> b] ELSE [n \in {} |-> 0]
    /\ DOMAIN db.report = {a} /\ db.report[a].scan = a /\ DOMAIN db.report[a] = {"scan", "mode"}
    /\ db.current = a /\ db.version = version

LEMMA SourceNumbered ==
  ASSUME NEW db, SourceLike(db)
  PROVE  Numbered(db, 1, 2, db.record[1], db.rejection # <<>>, db.version)
  <1>1. db.link = [n \in {1, 2} |-> IF n = 1 THEN Link(1, SourceDatabase.link[1].line, 0)
                                                ELSE Link(1, SourceDatabase.link[2].line, 1)]
    BY SourceRows, SourceLinks DEF Link, SourceLike
  <1>2. db.rejection = IF db.rejection # <<>> THEN [n \in {1} |-> 2] ELSE [n \in {} |-> 0]
    BY DEF SourceLike
  <1>3. /\ DOMAIN db.report = {1} /\ db.report[1].scan = 1
        /\ DOMAIN db.report[1] = {"scan", "mode"}
    BY SourceRows DEF SourceLike
  <1>4. /\ db.scan = [n \in {1} |-> "s"] /\ db.block = [n \in {1} |-> [lines |-> SourceLines, record |-> 1]]
        /\ db.record = [n \in {1} |-> db.record[1]]
    BY SourceRows DEF SourceLike
  <1>5. DOMAIN db = DOMAIN SourceDatabase /\ db.current = 1
    BY DEF SourceLike
  <1> QED
    BY <1>1, <1>2, <1>3, <1>4, <1>5 DEF Numbered

LEMMA LinkRenamed ==
  ASSUME NEW p, NEW a, NEW line, NEW origin
  PROVE  RenameLink(p, Link(a, line, origin)) = Link(p[a], line, RenameId(p, origin))
  <1>1. PICK to : to = RenameId(p, origin)
    OBVIOUS
  <1>2. PICK r : r = Link(a, line, origin)
    OBVIOUS
  <1>3. /\ r = [scan |-> a, line |-> line, block |-> a, record |-> a, origin |-> origin]
        /\ r.scan = a /\ r.record = a /\ r.block = a /\ r.origin = origin
    BY <1>2 DEF Link
  <1>4. RenameLink(p, r) = [r EXCEPT !.scan = p[a], !.record = p[a], !.block = p[a], !.origin = to]
    BY <1>1, <1>3 DEF RenameLink
  <1>5. RenameLink(p, r) = [scan |-> p[a], line |-> line, block |-> p[a], record |-> p[a], origin |-> to]
    BY <1>3, <1>4
  <1> QED
    BY <1>1, <1>2, <1>5 DEF Link

(* Renaming a numbering gives a numbering. *)
LEMMA RenamedNumbered ==
  ASSUME NEW p \in Renamings, NEW db, NEW a \in Ids, NEW b \in Ids, a # b, NEW text, NEW version,
         NEW rejected \in BOOLEAN, Numbered(db, a, b, text, rejected, version)
  PROVE  Numbered(Renamed(p, db), p[a], p[b], text, rejected, version)
  <1>0. DOMAIN db = DOMAIN SourceDatabase
    BY DEF Numbered
  <1>1. p[a] \in Ids /\ p[b] \in Ids /\ p[a] # p[b] /\ a # 0
    BY IdsAssumption DEF Renamings
  <1>2. PICK new : new = Renamed(p, db)
    OBVIOUS
  <1>5. new.scan = [n \in {p[a]} |-> "s"]
    <2>1. DOMAIN db.scan = {a} /\ db.scan[a] = "s"
      BY DEF Numbered
    <2> QED
      BY <1>0, <1>2, <2>1, RenamedScan
  <1>6. new.record = [n \in {p[a]} |-> text]
    <2>1. DOMAIN db.record = {a} /\ db.record[a] = text
      BY DEF Numbered
    <2> QED
      BY <1>0, <1>2, <2>1, RenamedRecord
  <1>7. new.block = [n \in {p[a]} |-> [lines |-> SourceLines, record |-> p[a]]]
    <2>1. DOMAIN db.block = {a} /\ db.block[a] = [lines |-> SourceLines, record |-> a]
      BY DEF Numbered
    <2>2. RenameBlock(p, db.block[a]) = [lines |-> SourceLines, record |-> p[a]]
      <3>1. PICK r : r = db.block[a]
        OBVIOUS
      <3>2. r = [lines |-> SourceLines, record |-> a] /\ r.record = a
        BY <2>1, <3>1
      <3>3. RenameBlock(p, r) = [lines |-> SourceLines, record |-> p[a]]
        BY <3>2 DEF RenameBlock
      <3> QED
        BY <3>1, <3>3
    <2>3. new.block = [n \in {p[a]} |-> RenameBlock(p, db.block[a])]
      BY <1>0, <1>2, <2>1, RenamedBlock
    <2> QED
      BY <2>2, <2>3
  <1>8. new.link = [n \in {p[a], p[b]} |->
                       IF n = p[a] THEN Link(p[a], SourceDatabase.link[1].line, 0)
                       ELSE Link(p[a], SourceDatabase.link[2].line, p[a])]
    <2>1. /\ DOMAIN db.link = {a, b} /\ db.link[a] = Link(a, SourceDatabase.link[1].line, 0)
          /\ db.link[b] = Link(a, SourceDatabase.link[2].line, a)
      BY DEF Numbered
    <2>2. RenameId(p, 0) = 0 /\ RenameId(p, a) = p[a]
      BY <1>1 DEF RenameId
    <2>3. new.link = [n \in {p[a], p[b]} |-> IF n = p[a] THEN RenameLink(p, db.link[a])
                                              ELSE RenameLink(p, db.link[b])]
      BY <1>0, <1>2, <2>1, RenamedLinks
    <2>4. RenameLink(p, db.link[a]) = Link(p[a], SourceDatabase.link[1].line, 0)
      BY <2>1, <2>2, LinkRenamed
    <2>5. RenameLink(p, db.link[b]) = Link(p[a], SourceDatabase.link[2].line, p[a])
      BY <2>1, <2>2, LinkRenamed
    <2> QED
      BY <2>3, <2>4, <2>5
  <1>9. new.rejection = IF rejected THEN [n \in {p[a]} |-> p[b]] ELSE [n \in {} |-> 0]
    <2>1. CASE rejected
      <3>1. DOMAIN db.rejection = {a} /\ db.rejection[a] = b
        BY <2>1 DEF Numbered
      <3> QED
        BY <1>0, <1>2, <2>1, <3>1, RenamedRejection
    <2>2. CASE ~rejected
      <3>1. DOMAIN db.rejection = {}
        BY <2>2 DEF Numbered
      <3> QED
        BY <1>0, <1>2, <2>2, <3>1, RenamedNoRejection
    <2> QED
      BY <2>1, <2>2
  <1>10. /\ DOMAIN new.report = {p[a]} /\ new.report[p[a]].scan = p[a]
         /\ DOMAIN new.report[p[a]] = {"scan", "mode"}
    <2>1. DOMAIN db.report = {a} /\ db.report[a].scan = a /\ DOMAIN db.report[a] = {"scan", "mode"}
      BY DEF Numbered
    <2>2. new.report = [n \in {p[a]} |-> RenameReport(p, db.report[a])]
      BY <1>0, <1>2, <2>1, RenamedReport
    <2>3. DOMAIN new.report = {p[a]} /\ new.report[p[a]] = RenameReport(p, db.report[a])
      BY <2>2
    <2>4. DOMAIN RenameReport(p, db.report[a]) = {"scan", "mode"} /\ RenameReport(p, db.report[a]).scan = p[a]
      BY <2>1 DEF RenameReport
    <2> QED
      BY <2>3, <2>4
  <1>11. new.current = p[a] /\ new.version = version /\ DOMAIN new = DOMAIN SourceDatabase
    <2>1. db.current = a /\ db.version = version /\ RenameId(p, a) = p[a]
      BY <1>1 DEF Numbered, RenameId
    <2> QED
      BY <1>0, <1>2, <2>1, RenamedState
  <1> QED
    BY <1>2, <1>5, <1>6, <1>7, <1>8, <1>9, <1>10, <1>11 DEF Numbered

LEMMA NumberedAlike ==
  ASSUME NEW x, NEW y, NEW a, NEW b, NEW text, NEW rejected, NEW version,
         Numbered(x, a, b, text, rejected, version), Numbered(y, a, b, text, rejected, version)
  PROVE  Authoritative(x) = Authoritative(y)
  <1>1. [r \in DOMAIN x.report |-> x.report[r].scan] = [r \in DOMAIN y.report |-> y.report[r].scan]
    BY DEF Numbered
  <1>2. /\ x.scan = y.scan /\ x.record = y.record /\ x.block = y.block /\ x.link = y.link
        /\ x.rejection = y.rejection /\ x.version = y.version /\ x.current = y.current
    BY DEF Numbered
  <1> QED
    BY <1>1, <1>2 DEF Authoritative

(* A database that carries numbered facts is numbered alike. *)
LEMMA CarriedNumbered ==
  ASSUME NEW t, NEW db, NEW a, NEW b, NEW text, NEW rejected, NEW version,
         Carries(t, db), Numbered(db, a, b, text, rejected, version)
  PROVE  Numbered(t, a, b, text, rejected, version)
  <1>1. /\ t.scan = db.scan /\ t.record = db.record /\ t.block = db.block /\ t.link = db.link
        /\ t.rejection = db.rejection /\ t.version = db.version /\ t.current = db.current
        /\ [r \in DOMAIN t.report |-> t.report[r].scan] = [r \in DOMAIN db.report |-> db.report[r].scan]
    BY AuthorityIs DEF Carries
  <1>2. DOMAIN db.report = {a} /\ db.report[a].scan = a
    BY DEF Numbered
  <1>3. DOMAIN t.report = {a} /\ t.report[a].scan = a
    BY <1>1, <1>2
  <1>4. DOMAIN t = DOMAIN SourceDatabase /\ DOMAIN t.report[a] = {"scan", "mode"}
    BY <1>3 DEF Carries
  <1> QED
    BY <1>1, <1>3, <1>4 DEF Numbered

(* Two databases of the same facts differ in the numbering only. *)
LEMMA NumberedIsomorphic ==
  ASSUME NEW t, NEW view, NEW a \in Ids, NEW b \in Ids, a # b, NEW text, NEW rejected \in BOOLEAN,
         NEW version, Numbered(t, a, b, text, rejected, version),
         Numbered(view, 1, 2, text, rejected, version)
  PROVE  Isomorphic(t, view)
  <1>1. PICK q \in Renamings : q[a] = 1 /\ q[b] = 2
    BY RenamingBack
  <1>2. Numbered(Renamed(q, t), 1, 2, text, rejected, version)
    BY <1>1, RenamedNumbered
  <1>3. Authoritative(Renamed(q, t)) = Authoritative(view)
    BY <1>2, NumberedAlike
  <1> QED
    BY <1>1, <1>3 DEF Isomorphic

LEMMA InMultiset ==
  ASSUME NEW fact, NEW x
  PROVE  x \in DOMAIN Multiset(fact) <=> \E i \in DOMAIN fact : fact[i] = x
  BY DEF Multiset

(* What a copy says of a link whose row is the source's, its origin apart. *)
LEMMA KeysAlike ==
  ASSUME NEW a, NEW b, a.scan = b.scan, a.record = b.record, a.block = b.block, NEW i,
         a.link[i].scan = b.link[i].scan, a.link[i].line = b.link[i].line,
         a.link[i].record = b.link[i].record, a.link[i].block = b.link[i].block
  PROVE  LinkKey(a, i) = LinkKey(b, i)
  BY DEF LinkKey, ScanIdentity, RecordKey, BlockKey

(* The snapshot of the source has the link that was inherited. *)
LEMMA SourceInherits ==
  ASSUME NEW view, SourceLike(view), view.version = 0
  PROVE  <<LinkKey(SourceDatabase, 2), LinkKey(SourceDatabase, 1)>>
            \in DOMAIN Multiset([i \in DOMAIN view.link |-> LinkFact(view, i)])
  <1>1. /\ view.scan = SourceDatabase.scan /\ view.record = SourceDatabase.record
        /\ view.block = SourceDatabase.block /\ view.link = SourceDatabase.link
    BY DEF SourceLike
  <1>2. LinkKey(view, 1) = LinkKey(SourceDatabase, 1) /\ LinkKey(view, 2) = LinkKey(SourceDatabase, 2)
    BY <1>1, KeysAlike
  <1>3. 2 \in DOMAIN view.link /\ view.link[2].origin = 1
    BY <1>1, SourceLinks
  <1>4. LinkFact(view, 2) = <<LinkKey(SourceDatabase, 2), LinkKey(SourceDatabase, 1)>>
    BY <1>2, <1>3 DEF LinkFact
  <1> QED
    BY <1>3, <1>4, InMultiset

(* A copy in which no link has an origin does not compare equal. *)
LEMMA LostOriginShows ==
  ASSUME NEW view, SourceLike(view), view.version = 0, NEW t,
         \A i \in DOMAIN t.link : t.link[i].origin = 0, SameFacts(view, t)
  PROVE  FALSE
  <1> DEFINE fact == [i \in DOMAIN t.link |-> LinkFact(t, i)]
             x == <<LinkKey(SourceDatabase, 2), LinkKey(SourceDatabase, 1)>>
  <1>1. x \in DOMAIN Multiset(fact)
    BY SourceInherits, FactsAgree
  <1>2. PICK i \in DOMAIN t.link : LinkFact(t, i) = x
    <2>1. \E i \in DOMAIN fact : fact[i] = x
      BY <1>1, InMultiset
    <2> QED
      BY <2>1
  <1>3. LinkFact(t, i) = <<LinkKey(t, i), Nil>>
    BY <1>2 DEF LinkFact
  <1>4. Nil = LinkKey(SourceDatabase, 1)
    BY <1>2, <1>3
  <1> QED
    BY <1>4, SourceAssumption

(* A copy without its current scan does not compare equal. *)
LEMMA LostScanShows ==
  ASSUME NEW view, SourceLike(view), NEW t, t.current = 0, SameFacts(view, t)
  PROVE  FALSE
  <1>1. ScanIdentity(view, view.current) = ScanIdentity(t, t.current)
    BY FactsAgree
  <1>2. view.current = 1 /\ view.scan[1] = "s"
    BY SourceRows DEF SourceLike
  <1>3. ScanIdentity(view, view.current) = "s" /\ ScanIdentity(t, t.current) = Nil
    BY <1>2 DEF ScanIdentity
  <1> QED
    BY <1>1, <1>3, NilAssumption

(* A supplied target that compares equal is a copy with other ids. *)
LEMMA SuppliedIsCopy ==
  ASSUME NEW view, SourceLike(view), NEW t, NEW d \in Copies(SourceDatabase), Carries(t, d),
         SameFacts(view, t)
  PROVE  Isomorphic(t, view)
  <1>1. /\ t.link = d.link /\ t.version = d.version /\ t.current = d.current
    BY AuthorityIs DEF Carries
  <1>2. view.version = t.version
    BY FactsAgree
  <1>3. \A i \in {1, 2} : SourceDatabase.link[i].origin = i - 1
    BY SourceLinks
  <1>4. CASE d = [SourceDatabase EXCEPT !.link = Without(@, 2)]
    <2>1. d.version = 0 /\ d.link = [i \in {1} |-> SourceDatabase.link[i]]
      BY <1>4, SourceRows, SourceLinks, SourceFields DEF Without
    <2>2. view.version = 0 /\ \A i \in DOMAIN t.link : t.link[i].origin = 0
      BY <1>1, <1>2, <1>3, <2>1
    <2> QED
      BY <2>2, LostOriginShows
  <1>5. CASE d = [SourceDatabase EXCEPT !.link[2].origin = 0]
    <2>1. d.version = 0 /\ d.link = [SourceDatabase.link EXCEPT ![2].origin = 0]
      BY <1>5, SourceRows, SourceFields
    <2>2. DOMAIN d.link = {1, 2} /\ d.link[1].origin = 0 /\ d.link[2].origin = 0
      BY <2>1, SourceLinks
    <2>3. view.version = 0 /\ \A i \in DOMAIN t.link : t.link[i].origin = 0
      BY <1>1, <1>2, <2>1, <2>2
    <2> QED
      BY <2>3, LostOriginShows
  <1>6. CASE d = [SourceDatabase EXCEPT !.current = 0]
    <2>1. d.current = 0
      BY <1>6, SourceFields
    <2> QED
      BY <1>1, <2>1, LostScanShows
  <1>7. CASE \E p \in Renamings : d = Renamed(p, SourceDatabase)
    <2>1. PICK p \in Renamings : d = Renamed(p, SourceDatabase)
      BY <1>7
    <2>2. SourceLike(SourceDatabase) /\ SourceDatabase.record[1] = <<"first", 0>> /\ SourceDatabase.rejection = <<>>
          /\ SourceDatabase.version = 0
      BY SourceRows DEF SourceLike
    <2>3. Numbered(SourceDatabase, 1, 2, <<"first", 0>>, FALSE, 0)
      BY <2>2, SourceNumbered
    <2>4. 1 \in Ids /\ 2 \in Ids /\ 1 # 2
      BY SourceAssumption
    <2>5. p[1] \in Ids /\ p[2] \in Ids /\ p[1] # p[2]
      BY <2>4 DEF Renamings
    <2>6. Numbered(d, p[1], p[2], <<"first", 0>>, FALSE, 0)
      BY <2>1, <2>3, <2>4, RenamedNumbered
    <2>7. Numbered(t, p[1], p[2], <<"first", 0>>, FALSE, 0)
      BY <2>6, CarriedNumbered
    <2>8. view.version = 0
      BY <1>2, <2>7 DEF Numbered
    <2>9. view.record = SourceDatabase.record /\ view.rejection = <<>>
      BY <2>8 DEF SourceLike
    <2>10. Numbered(view, 1, 2, <<"first", 0>>, FALSE, 0)
      BY <2>2, <2>8, <2>9, SourceNumbered
    <2> QED
      BY <2>5, <2>7, <2>10, NumberedIsomorphic
  <1> QED
    BY <1>4, <1>5, <1>6, <1>7 DEF Copies

(* A restored target that compares equal was dumped before any write. *)
LEMMA RestoredIsCopy ==
  ASSUME NEW view, SourceLike(view), NEW dump, ReadBefore(view, dump), NEW t, Carries(t, dump),
         SameFacts(view, t)
  PROVE  Isomorphic(t, view)
  <1>1. t.version = dump.version
    BY AuthorityIs DEF Carries
  <1>2. view.version = t.version
    BY FactsAgree
  <1>3. view = dump
    BY <1>1, <1>2 DEF ReadBefore
  <1>4. PICK rejected \in BOOLEAN : rejected = (view.rejection # <<>>)
    OBVIOUS
  <1>5. Numbered(view, 1, 2, view.record[1], rejected, view.version)
    BY <1>4, SourceNumbered
  <1>6. Numbered(t, 1, 2, view.record[1], rejected, view.version)
    BY <1>3, <1>5, CarriedNumbered
  <1>7. 1 \in Ids /\ 2 \in Ids /\ 1 # 2
    BY SourceAssumption
  <1> QED
    BY <1>5, <1>6, <1>7, NumberedIsomorphic

(* Every PASSED target is the witness. *)
LEMMA WitnessKept ==
  ASSUME LaneTypes, WitnessInv
  PROVE  MigratedIsWitness
  <1> SUFFICES ASSUME lane.place = "PASSED" PROVE MigratedIsWitness
    BY DEF MigratedIsWitness
  <1>0. ~conf.same /\ conf.mode # "empty"
    BY DEF WitnessInv, HoldsInv
  <1>1. PICK t : t = data["target"]
    OBVIOUS
  <1>2. TargetDatabase = t
    BY <1>0, <1>1 DEF TargetDatabase
  <1>3. Supplied \/ Restored
    BY <1>0 DEF LaneTypes, Configurations, Supplied, Restored
  <1>4. /\ t.ledger = "APPLIED" /\ t.hashed /\ t.shape = "v3" /\ Moded(t)
        /\ t.pending = PendingLines(t) /\ t.fsVersion = t.version /\ SameFacts(lane.view, t)
    BY <1>1, <1>3 DEF WitnessInv, SchemaInv
  <1>5. SourceLike(lane.view) /\ ReadBefore(lane.view, lane.dump)
    BY DEF WitnessInv, ViewInv, Dumped, ReadBefore
  <1>6. Isomorphic(t, lane.view)
    <2>1. CASE Supplied
      BY <1>1, <1>4, <1>5, <2>1, SuppliedIsCopy DEF WitnessInv, HoldsInv
    <2>2. CASE Restored
      BY <1>1, <1>4, <1>5, <2>2, RestoredIsCopy DEF WitnessInv, HoldsInv
    <2> QED
      BY <1>3, <2>1, <2>2
  <1> QED
    BY <1>2, <1>4, <1>6 DEF MigratedIsWitness, Moded

(* What the process read stays what it read. *)
LEMMA ViewStays ==
  ASSUME ViewInv, live' = live, lane'.view = lane.view, lane'.dump = lane.dump,
         lane'.place \in Dumped => lane.place \in Dumped,
         lane'.place = "dump" => lane.place \in Dumped \cup {"dump"}
  PROVE  ViewInv'
  <1>1. SourceLike(live')
    BY DEF ViewInv
  <1>2. lane'.place \in Dumped \cup {"dump"} => ReadBefore(lane'.view, live')
    BY DEF ViewInv
  <1>3. lane'.place \in Dumped => ReadBefore(lane'.dump, live') /\ ReadBefore(lane'.view, lane'.dump)
    BY DEF ViewInv
  <1> QED
    BY <1>1, <1>2, <1>3 DEF ViewInv

LEMMA ViewForgotten ==
  ASSUME ViewInv, live' = live, lane'.place \notin Dumped \cup {"dump"}
  PROVE  ViewInv'
  <1>1. SourceLike(live')
    BY DEF ViewInv
  <1> QED
    BY <1>1 DEF ViewInv

(* Steps before the target is compared, and steps that end the run, leave    *)
(* the target alone or forget about it.                                      *)
LEMMA Quiet ==
  ASSUME LaneTypes, WitnessInv, conf' = conf, ViewInv',
         lane'.place \notin (Migrating \ {"upgrade"}) \cup {"PASSED"},
         conf.mode = "empty" => lane'.place # "upgrade",
         Supplied => data'["target"] = data["target"] /\ owner'["target"] = owner["target"],
         Restored' => Restored /\ lane'.dump = lane.dump /\ data'["target"] = data["target"]
  PROVE  WitnessInv'
  <1>1. HoldsInv /\ SchemaInv
    BY DEF WitnessInv
  <1>2. lane'.place # "PASSED" /\ (conf'.mode = "empty" => lane'.place \notin Migrating)
    OBVIOUS
  <1>3. Supplied' => /\ owner'["target"] = "operator"
                     /\ \E d \in Copies(SourceDatabase) : Carries(data'["target"], d)
    BY <1>1 DEF HoldsInv, Supplied
  <1>4. Restored' => Carries(data'["target"], lane'.dump)
    BY <1>1 DEF HoldsInv
  <1>5. HoldsInv'
    BY <1>2, <1>3, <1>4 DEF HoldsInv
  <1>6. (Supplied \/ Restored)' => (Supplied \/ Restored) /\ data'["target"] = data["target"]
    BY DEF Supplied
  <1>7. (Supplied \/ Restored)' /\ data'["target"].ledger = "APPLIED"
           => data'["target"].hashed /\ data'["target"].shape = "v3" /\ Moded(data'["target"])
    BY <1>1, <1>6 DEF SchemaInv
  <1>8. lane'.place \notin {"applied", "filestate", "recheck", "PASSED"} \cup (Migrating \ {"upgrade", "schema"})
    BY DEF Migrating
  <1>9. SchemaInv'
    BY <1>7, <1>8 DEF SchemaInv
  <1> QED
    BY <1>5, <1>9 DEF WitnessInv

LEMMA WitnessBackup ==
  ASSUME LaneInv, WitnessInv, Backup
  PROVE  WitnessInv'
  <1>1. LaneTypes /\ ViewInv
    BY DEF LaneInv, WitnessInv
  <1>2. CASE CaptureWitness
    <2>1. /\ UNCHANGED <<live, owner, data, conf>> /\ lane'.view = live
          /\ lane'.place \in {"dump", "FAILED"}
      BY <1>1, <1>2 DEF CaptureWitness, Elsewhere, Is, LaneTypes
    <2>2. SourceLike(live) /\ live.version \in Nat
      BY <1>1 DEF ViewInv, SourceLike
    <2>3. ReadBefore(lane'.view, live') /\ SourceLike(live')
      BY <2>1, <2>2 DEF ReadBefore
    <2>4. ViewInv'
      BY <2>1, <2>3 DEF ViewInv, Dumped, Creating, Migrating
    <2>5. ~Restored'
      BY <2>1 DEF Restored, Migrating
    <2> QED
      BY <1>1, <2>1, <2>4, <2>5, Quiet DEF Migrating
  <1>3. CASE Dump
    <2>1. UNCHANGED <<live, owner, data, conf>> /\ lane.place = "dump" /\ lane'.place \in {"smoke", "FAILED"}
      BY <1>1, <1>3 DEF Dump, Go, Elsewhere, Is, LaneTypes
    <2>2. lane'.place = "smoke" => lane'.dump = live /\ lane'.view = lane.view
      BY <1>1, <1>3 DEF Dump, Go, LaneTypes
    <2>3. SourceLike(live) /\ live.version \in Nat /\ ReadBefore(lane.view, live)
      BY <1>1, <2>1 DEF ViewInv, SourceLike
    <2>4. ReadBefore(live, live)
      BY <2>3 DEF ReadBefore
    <2>5. SourceLike(live') /\ (lane'.place = "smoke" => /\ ReadBefore(lane'.view, live')
                                                       /\ ReadBefore(lane'.dump, live')
                                                       /\ ReadBefore(lane'.view, lane'.dump))
      BY <2>1, <2>2, <2>3, <2>4
    <2>6. ViewInv'
      BY <2>1, <2>5 DEF ViewInv, Dumped, Creating, Migrating
    <2>7. ~Restored'
      BY <2>1 DEF Restored, Migrating
    <2> QED
      BY <1>1, <2>1, <2>6, <2>7, Quiet DEF Migrating
  <1>4. CASE SmokeCreate \/ SmokeDrop
    <2>1. /\ UNCHANGED <<live, conf>> /\ lane.place \in {"smoke", "smoke_drop"}
          /\ data'["target"] = data["target"] /\ owner'["target"] = owner["target"]
      BY <1>1, <1>4 DEF SmokeCreate, SmokeDrop, Elsewhere, Is, LaneTypes, Names
    <2>2. lane'.view = lane.view /\ lane'.dump = lane.dump
      BY <1>1, <1>4 DEF SmokeCreate, SmokeDrop, Go, LaneTypes
    <2>3. \/ lane'.place \in {"smoke_drop", "FAILED", "HELD", "exists"}
          \/ lane'.place = "upgrade" /\ Supplied
      BY <1>1, <1>4 DEF SmokeCreate, SmokeDrop, Go, LaneTypes, Supplied
    <2>4. ViewInv'
      BY <1>1, <2>1, <2>2, ViewStays DEF Dumped
    <2>5. ~Restored' /\ (conf.mode = "empty" => lane'.place # "upgrade")
      BY <2>1, <2>3 DEF Restored, Migrating, Supplied
    <2> QED
      BY <1>1, <2>1, <2>3, <2>4, <2>5, Quiet DEF Migrating
  <1> QED
    BY <1>2, <1>3, <1>4 DEF Backup

LEMMA WitnessCreate ==
  ASSUME LaneInv, WitnessInv, CreateTarget
  PROVE  WitnessInv'
  <1>1. LaneTypes /\ ViewInv
    BY DEF LaneInv, WitnessInv
  <1>2. /\ ~Supplied
        /\ lane.place \in {"exists", "preflight", "create", "restore", "grant", "probe", "revoke",
                           "drop", "drop_told", "connect"}
    <2>1. lane.place \in {"exists", "preflight", "create", "restore", "grant", "probe", "revoke",
                           "drop", "drop_told", "connect"}
      BY DEF CreateTarget, CheckAbsent, GrantPreflight, CreateDatabase, RestoreDump, Grant, ProbeAccess,
           RevokeAfterProbe, DropCreated, KeepEvidence, Is
    <2> QED
      BY <2>1 DEF LaneInv, UndoInv, Creating
  <1>3. /\ live' = live /\ conf' = conf
    BY DEF CreateTarget, CheckAbsent, GrantPreflight, CreateDatabase, RestoreDump, Grant, ProbeAccess,
           RevokeAfterProbe, DropCreated, KeepEvidence, Elsewhere
  <1>4. lane'.view = lane.view /\ lane'.dump = lane.dump
    BY <1>1 DEF CreateTarget, CheckAbsent, GrantPreflight, CreateDatabase, RestoreDump, Grant, ProbeAccess,
           RevokeAfterProbe, DropCreated, KeepEvidence, Revoked, Go, LaneTypes
  <1>5. ViewInv'
    <2>1. lane.place \in Dumped
      BY <1>2 DEF Dumped, Creating
    <2> QED
      BY <1>1, <1>3, <1>4, <2>1, ViewStays
  <1>6. CASE RestoreDump
    <2>1. data'["target"] = lane.dump /\ lane'.place \in {"grant", "drop"}
      BY <1>1, <1>6 DEF RestoreDump, Go, LaneTypes, Names
    <2>2. ReadBefore(lane.dump, live)
      BY <1>1, <1>2 , <1>6 DEF ViewInv, Dumped, Creating, RestoreDump, Is
    <2>3. SourceLike(lane.dump)
      BY <2>2 DEF ReadBefore
    <2>4. Carries(lane.dump, lane.dump)
      BY <2>3, SourceRows DEF Carries, SourceLike
    <2>5. lane.dump.ledger # "APPLIED"
      BY <2>3, NilAssumption DEF SourceLike
    <2>6. ~Supplied' /\ lane'.place \notin Migrating \cup {"PASSED"}
      BY <1>2, <1>3, <2>1 DEF Supplied, Migrating
    <2>7. HoldsInv'
      BY <1>4, <2>1, <2>4, <2>6 DEF HoldsInv
    <2>8. lane'.place \notin {"applied", "filestate", "recheck", "PASSED"} \cup (Migrating \ {"upgrade", "schema"})
      BY <2>1 DEF Migrating
    <2>9. SchemaInv'
      BY <2>1, <2>5, <2>8 DEF SchemaInv
    <2> QED
      BY <1>5, <2>7, <2>9 DEF WitnessInv
  <1>7. CASE ~RestoreDump
    <2>1. \/ lane'.place \in {"FAILED", "HELD", "preflight", "create", "restore", "revoke", "drop",
                              "drop_told", "empty"}
          \/ lane'.place = "grant" /\ conf.mode # "restore"
          \/ lane'.place = "probe" /\ lane.place = "grant" /\ data' = data
          \/ lane'.place = "connect" /\ lane.place = "probe" /\ data' = data
          \/ lane'.place = "upgrade" /\ lane.place = "connect" /\ conf.mode # "empty" /\ data' = data
      <3>1. CASE CheckAbsent \/ GrantPreflight
        BY <1>1, <3>1 DEF CheckAbsent, GrantPreflight, Go, LaneTypes
      <3>2. CASE CreateDatabase
        BY <1>1, <3>2 DEF CreateDatabase, Go, LaneTypes
      <3>3. CASE Grant
        BY <1>1, <3>3 DEF Grant, Go, LaneTypes, Is
      <3>4. CASE ProbeAccess
        BY <1>1, <3>4 DEF ProbeAccess, Go, LaneTypes, Is
      <3>5. CASE RevokeAfterProbe
        BY <1>1, <3>5 DEF RevokeAfterProbe, Revoked, Go, LaneTypes
      <3>6. CASE DropCreated
        BY <1>1, <3>6 DEF DropCreated, Go, LaneTypes
      <3>7. CASE KeepEvidence
        BY <1>1, <3>7 DEF KeepEvidence, Go, LaneTypes, Is
      <3> QED
        BY <1>7, <3>1, <3>2, <3>3, <3>4, <3>5, <3>6, <3>7 DEF CreateTarget
    <2>2. Restored' => Restored /\ data' = data
      BY <1>3, <2>1 DEF Restored, Migrating
    <2>3. lane'.place \notin (Migrating \ {"upgrade"}) \cup {"PASSED"} /\ (conf.mode = "empty" => lane'.place # "upgrade")
      BY <2>1 DEF Migrating
    <2> QED
      BY <1>1, <1>2, <1>3, <1>4, <1>5, <2>2, <2>3, Quiet
  <1> QED
    BY <1>6, <1>7

LEMMA WitnessCleanup ==
  ASSUME LaneInv, WitnessInv, CleanupTarget
  PROVE  WitnessInv'
  <1>1. LaneTypes /\ ViewInv
    BY DEF LaneInv, WitnessInv
  <1>2. lane.place \in {"cleanup", "cleanup_drop", "empty"} /\ conf' = conf /\ live' = live
    BY DEF CleanupTarget, CleanupRevoke, CleanupDrop, EmptyLaneFails, Probe, Is, Elsewhere
  <1>3. lane.place \in Dumped /\ ~Supplied
    BY <1>2 DEF Dumped, Creating, LaneInv, UndoInv
  <1>4. lane'.view = lane.view /\ lane'.dump = lane.dump /\ lane'.place \in {"cleanup", "cleanup_drop", "HELD", "FAILED"}
    BY <1>1 DEF CleanupTarget, CleanupRevoke, CleanupDrop, EmptyLaneFails, Probe, Revoked, Go, LaneTypes
  <1>5. ViewInv'
    BY <1>1, <1>2, <1>3, <1>4, ViewStays
  <1>6. ~Restored'
    BY <1>4 DEF Restored, Migrating
  <1> QED
    BY <1>1, <1>2, <1>3, <1>4, <1>5, <1>6, Quiet DEF Migrating

LEMMA AllFields ==
  DOMAIN SourceDatabase = {"scan", "record", "block", "link", "rejection", "report", "current", "version",
                           "fsVersion", "pending", "column", "hashed", "shape", "ledger", "ddl"}
  BY DEF SourceDatabase

(* While it migrates, the run writes to a target of its own. *)
LEMMA TargetIs ==
  ASSUME LaneInv, WitnessInv, lane.place \in Migrating
  PROVE  /\ ~conf.same /\ (Supplied \/ Restored) /\ TargetDatabase = data["target"]
         /\ DOMAIN data["target"] = DOMAIN SourceDatabase
         /\ \A r \in DOMAIN data["target"].report : DOMAIN data["target"].report[r] = {"scan", "mode"}
  <1>1. ~conf.same
    BY DEF LaneInv, OwnInv, Migrating, Stopped
  <1>2. conf.mode # "empty" /\ conf.mode \in {"restore", "empty", "supplied"}
    BY DEF WitnessInv, HoldsInv, LaneInv, LaneTypes, Configurations
  <1>3. Supplied \/ Restored
    BY <1>2 DEF Supplied, Restored
  <1>4. PICK d : Carries(data["target"], d)
    BY <1>3 DEF WitnessInv, HoldsInv
  <1> QED
    BY <1>1, <1>3, <1>4 DEF TargetDatabase, Carries

LEMMA Carried ==
  ASSUME NEW t, NEW u, NEW d, Carries(t, d), DOMAIN u = DOMAIN t, Authoritative(u) = Authoritative(t),
         \A r \in DOMAIN u.report : DOMAIN u.report[r] = {"scan", "mode"}
  PROVE  Carries(u, d)
  BY DEF Carries

(* A step of the migration that leaves the target's facts alone. *)
LEMMA Rewritten ==
  ASSUME LaneInv, WitnessInv, lane.place \in Migrating,
         NEW next \in Migrating \cup {"PASSED", "cleanup", "FAILED"},
         lane' = [lane EXCEPT !.place = next], UNCHANGED <<live, owner, conf>>,
         NEW u, u = data'["target"], DOMAIN u = DOMAIN SourceDatabase,
         Authoritative(u) = Authoritative(data["target"]),
         \A r \in DOMAIN u.report : DOMAIN u.report[r] = {"scan", "mode"},
         u.ledger = "APPLIED" => u.hashed /\ u.shape = "v3" /\ Moded(u),
         next \in Migrating \ {"upgrade", "schema"} => u.shape = "v3",
         next = "applied" => u.hashed /\ Moded(u),
         next \in {"filestate", "recheck", "PASSED"} => u.ledger = "APPLIED",
         next \in {"recheck", "PASSED"} => u.pending = PendingLines(u) /\ u.fsVersion = u.version,
         next = "PASSED" => SameFacts(lane.view, u)
  PROVE  WitnessInv'
  <1>1. LaneTypes /\ ViewInv /\ HoldsInv
    BY DEF LaneInv, WitnessInv
  <1>2. lane'.place = next /\ lane'.view = lane.view /\ lane'.dump = lane.dump
    BY <1>1 DEF LaneTypes
  <1>3. lane.place \in Dumped
    BY DEF Dumped
  <1>4. ViewInv'
    BY <1>1, <1>2, <1>3, ViewStays
  <1>5. /\ ~conf.same /\ (Supplied \/ Restored) /\ DOMAIN data["target"] = DOMAIN SourceDatabase
    BY TargetIs
  <1>6. \A d : Carries(data["target"], d) => Carries(u, d)
    BY <1>5, Carried
  <1>7. Supplied => \E d \in Copies(SourceDatabase) : Carries(u, d)
    BY <1>1, <1>6 DEF HoldsInv
  <1>8. conf.mode = "restore" => Carries(u, lane.dump)
    BY <1>1, <1>6 DEF HoldsInv, Restored
  <1>9. /\ conf.mode # "empty" /\ (~Supplied => owner["target"] = "run")
        /\ (Supplied => owner["target"] = "operator")
    BY <1>1, <1>5 DEF HoldsInv, LaneInv, OwnInv
  <1>10. HoldsInv'
    <2>1. conf'.same => lane'.place # "PASSED"
      BY <1>5
    <2>2. conf'.mode = "empty" => lane'.place \notin Migrating \cup {"PASSED"}
      BY <1>9
    <2>3. ~Supplied' /\ lane'.place = "PASSED" => owner'["target"] = "run"
      BY <1>9 DEF Supplied
    <2>4. Supplied' => /\ owner'["target"] = "operator"
                       /\ \E d \in Copies(SourceDatabase) : Carries(data'["target"], d)
      BY <1>7, <1>9 DEF Supplied
    <2>5. Restored' => Carries(data'["target"], lane'.dump)
      BY <1>2, <1>8 DEF Restored
    <2> QED
      BY <2>1, <2>2, <2>3, <2>4, <2>5 DEF HoldsInv
  <1>11. SchemaInv'
    <2>1. u.ledger = "APPLIED" => u.hashed /\ u.shape = "v3" /\ Moded(u)
      OBVIOUS
    <2>2. /\ lane'.place \in Migrating \ {"upgrade", "schema"} => u.shape = "v3"
          /\ lane'.place = "applied" => u.hashed /\ Moded(u)
          /\ lane'.place \in {"filestate", "recheck", "PASSED"} => u.ledger = "APPLIED"
      BY <1>2
    <2>3. /\ lane'.place \in {"recheck", "PASSED"} => u.pending = PendingLines(u) /\ u.fsVersion = u.version
          /\ lane'.place = "PASSED" => SameFacts(lane'.view, u)
      BY <1>2
    <2> QED
      BY <2>1, <2>2, <2>3 DEF SchemaInv
  <1> QED
    BY <1>4, <1>10, <1>11 DEF WitnessInv

(* Columns outside the facts. *)
LEMMA Patched ==
  ASSUME NEW t, NEW u, u.scan = t.scan, u.record = t.record, u.block = t.block, u.link = t.link,
         u.rejection = t.rejection, u.version = t.version, u.current = t.current, u.report = t.report
  PROVE  /\ Authoritative(u) = Authoritative(t) /\ (Moded(u) <=> Moded(t))
         /\ PendingLines(u) = PendingLines(t)
  <1>1. Authoritative(u) = Authoritative(t)
    BY DEF Authoritative
  <1>2. Moded(u) <=> Moded(t)
    BY DEF Moded
  <1>3. PendingLines(u) = PendingLines(t)
    BY DEF PendingLines
  <1> QED
    BY <1>1, <1>2, <1>3

LEMMA ModedRows ==
  ASSUME NEW t, NEW u, u.scan = t.scan, u.record = t.record, u.block = t.block, u.link = t.link,
         u.rejection = t.rejection, u.version = t.version, u.current = t.current,
         u.report = [r \in DOMAIN t.report |-> [t.report[r] EXCEPT !.mode = "LEGACY_STATIC"]],
         \A r \in DOMAIN t.report : DOMAIN t.report[r] = {"scan", "mode"}
  PROVE  /\ Authoritative(u) = Authoritative(t) /\ Moded(u)
         /\ \A r \in DOMAIN u.report : DOMAIN u.report[r] = {"scan", "mode"}
  <1>1. \A r \in DOMAIN t.report : /\ u.report[r].scan = t.report[r].scan
                                   /\ u.report[r].mode = "LEGACY_STATIC"
                                   /\ DOMAIN u.report[r] = {"scan", "mode"}
    OBVIOUS
  <1>2. DOMAIN u.report = DOMAIN t.report
    OBVIOUS
  <1>3. [r \in DOMAIN u.report |-> u.report[r].scan] = [r \in DOMAIN t.report |-> t.report[r].scan]
    BY <1>1, <1>2
  <1>4. Authoritative(u) = Authoritative(t)
    BY <1>3 DEF Authoritative
  <1> QED
    BY <1>1, <1>2, <1>4 DEF Moded

LEMMA WitnessMigrate ==
  ASSUME LaneInv, WitnessInv, CompareBefore \/ ApplyV3 \/ FileStateGate \/ CompareAfter
  PROVE  WitnessInv'
  <1>1. lane.place \in Migrating
    BY DEF CompareBefore, ApplyV3, EnsureLedger, CheckLedger, StartV3, AddColumn, Repair, Applied,
           FileStateGate, CompareAfter, Is, Migrating
  <1>2. PICK t : t = data["target"]
    OBVIOUS
  <1>3. /\ ~conf.same /\ (Supplied \/ Restored) /\ TargetDatabase = t /\ DOMAIN t = DOMAIN SourceDatabase
        /\ \A r \in DOMAIN t.report : DOMAIN t.report[r] = {"scan", "mode"}
    BY <1>1, <1>2, TargetIs
  <1>4. Failing \in {"cleanup", "FAILED"}
    BY DEF Failing
  <1>5. /\ t.ledger = "APPLIED" => t.hashed /\ t.shape = "v3" /\ Moded(t)
        /\ lane.place \in Migrating \ {"upgrade", "schema"} => t.shape = "v3"
        /\ lane.place = "applied" => t.hashed /\ Moded(t)
        /\ lane.place \in {"filestate", "recheck"} => t.ledger = "APPLIED"
        /\ lane.place = "recheck" => t.pending = PendingLines(t) /\ t.fsVersion = t.version
    BY <1>2, <1>3 DEF WitnessInv, SchemaInv
  <1>6. DOMAIN data = Names
    BY DEF LaneInv, LaneTypes
  <1>7. ASSUME NEW next \in Migrating \cup {"PASSED", "cleanup", "FAILED"}, Go(next),
               UNCHANGED <<live, owner, data, conf>>,
               next \in Migrating \ {"upgrade", "schema"} => t.shape = "v3",
               next = "applied" => t.hashed /\ Moded(t),
               next \in {"filestate", "recheck", "PASSED"} => t.ledger = "APPLIED",
               next \in {"recheck", "PASSED"} => t.pending = PendingLines(t) /\ t.fsVersion = t.version,
               next = "PASSED" => SameFacts(lane.view, t)
        PROVE  WitnessInv'
    <2>1. lane' = [lane EXCEPT !.place = next]
      BY <1>7 DEF Go
    <2>2. t = data'["target"]
      BY <1>2, <1>7
    <2> QED
      BY <1>1, <1>2, <1>3, <1>5, <1>7, <2>1, <2>2, Rewritten
  <1>8. ASSUME NEW u, WriteTarget(u)
        PROVE  data'["target"] = u /\ UNCHANGED <<live, owner, conf>>
    BY <1>3, <1>6, <1>8 DEF WriteTarget, Names
  <1>9. ASSUME Raise
        PROVE  WitnessInv'
    <2>1. Go(Failing) /\ UNCHANGED <<live, owner, data, conf>>
      BY <1>9 DEF Raise
    <2>2. Failing \notin Migrating \cup {"PASSED"}
      BY <1>4 DEF Migrating
    <2>3. PICK next : next = Failing
      OBVIOUS
    <2>4. /\ next \in Migrating \cup {"PASSED", "cleanup", "FAILED"} /\ Go(next)
          /\ next \notin Migrating /\ next # "PASSED" /\ next # "applied"
          /\ next \notin {"filestate", "recheck", "PASSED"}
      BY <1>4, <2>1, <2>2, <2>3 DEF Migrating
    <2> QED
      BY <1>7, <2>1, <2>4
  <1>10. ASSUME V3Fails
         PROVE  WitnessInv'
    <2>1. PICK u : u = [t EXCEPT !.ledger = "FAILED"]
      OBVIOUS
    <2>2. data'["target"] = u /\ UNCHANGED <<live, owner, conf>> /\ Go(Failing)
      BY <1>3, <1>8, <1>10, <2>1 DEF V3Fails
    <2>3. DOMAIN u = DOMAIN SourceDatabase /\ u.ledger = "FAILED" /\ u.report = t.report
      BY <1>3, <2>1, AllFields
    <2>4. Authoritative(u) = Authoritative(t)
      <3>1. /\ u.scan = t.scan /\ u.record = t.record /\ u.block = t.block /\ u.link = t.link
            /\ u.rejection = t.rejection /\ u.version = t.version /\ u.current = t.current
        BY <1>3, <2>1, AllFields
      <3> QED
        BY <2>3, <3>1, Patched
    <2>5. PICK next : next = Failing
      OBVIOUS
    <2>6. /\ next \in Migrating \cup {"PASSED", "cleanup", "FAILED"} /\ lane' = [lane EXCEPT !.place = next]
          /\ next \notin Migrating /\ next # "PASSED" /\ next # "applied"
          /\ next \notin {"filestate", "recheck", "PASSED"}
      BY <1>4, <2>2, <2>5 DEF Migrating, Go
    <2> QED
      BY <1>1, <1>2, <1>3, <2>2, <2>3, <2>4, <2>6, Rewritten
  <1>11. CASE CompareBefore
    <2>1. CASE Continue("schema")
      BY <1>7, <2>1 DEF Continue, Migrating
    <2> QED
      BY <1>9, <1>11, <2>1 DEF CompareBefore
  <1>12. CASE EnsureLedger
    <2>1. CASE WriteTarget([TargetDatabase EXCEPT !.shape = "v3"]) /\ Go("ledger")
      <3>1. PICK u : u = [t EXCEPT !.shape = "v3"]
        OBVIOUS
      <3>2. data'["target"] = u /\ UNCHANGED <<live, owner, conf>>
        BY <1>3, <1>8, <2>1, <3>1
      <3>3. /\ DOMAIN u = DOMAIN SourceDatabase /\ u.report = t.report /\ u.shape = "v3"
            /\ u.ledger = t.ledger /\ u.hashed = t.hashed
        BY <1>3, <3>1, AllFields
      <3>4. /\ u.scan = t.scan /\ u.record = t.record /\ u.block = t.block /\ u.link = t.link
            /\ u.rejection = t.rejection /\ u.version = t.version /\ u.current = t.current
        BY <1>3, <3>1, AllFields
      <3>5. Authoritative(u) = Authoritative(t) /\ (Moded(u) <=> Moded(t))
        BY <3>3, <3>4, Patched
      <3>6. lane' = [lane EXCEPT !.place = "ledger"] /\ "ledger" \in Migrating
        BY <2>1 DEF Go, Migrating
      <3> QED
        BY <1>1, <1>2, <1>3, <1>5, <3>2, <3>3, <3>5, <3>6, Rewritten
    <2> QED
      BY <1>9, <1>12, <2>1 DEF EnsureLedger
  <1>13. CASE CheckLedger
    <2>1. t.shape = "v3"
      BY <1>5, <1>13 DEF CheckLedger, Is, Migrating
    <2>2. CASE Continue("filestate") /\ t.ledger = "APPLIED"
      BY <1>7, <2>1, <2>2 DEF Continue, Migrating
    <2>3. CASE Continue("start")
      BY <1>7, <2>1, <2>3 DEF Continue, Migrating
    <2> QED
      BY <1>3, <1>9, <1>13, <2>2, <2>3 DEF CheckLedger
  <1>14. CASE StartV3
    <2>1. PICK u : u = [t EXCEPT !.ledger = "STARTED", !.ddl = lane.ddl]
      OBVIOUS
    <2>2. data'["target"] = u /\ UNCHANGED <<live, owner, conf>>
      BY <1>3, <1>8, <1>14, <2>1 DEF StartV3
    <2>3. DOMAIN u = DOMAIN SourceDatabase /\ u.report = t.report /\ u.shape = t.shape /\ u.ledger = "STARTED"
      BY <1>3, <2>1, AllFields
    <2>4. /\ u.scan = t.scan /\ u.record = t.record /\ u.block = t.block /\ u.link = t.link
          /\ u.rejection = t.rejection /\ u.version = t.version /\ u.current = t.current
      BY <1>3, <2>1, AllFields
    <2>5. Authoritative(u) = Authoritative(t)
      BY <2>3, <2>4, Patched
    <2>6. lane' = [lane EXCEPT !.place = "column"] /\ "column" \in Migrating /\ t.shape = "v3"
      BY <1>5, <1>14 DEF StartV3, Go, Is, Migrating
    <2> QED
      BY <1>1, <1>2, <1>3, <2>2, <2>3, <2>5, <2>6, Rewritten
  <1>15. CASE AddColumn
    <2>1. t.shape = "v3"
      BY <1>5, <1>15 DEF AddColumn, Is, Migrating
    <2>2. CASE WriteTarget(WithColumn(TargetDatabase)) /\ Go("repair")
      <3>1. PICK u : u = WithColumn(t)
        OBVIOUS
      <3>2. data'["target"] = u /\ UNCHANGED <<live, owner, conf>>
        BY <1>3, <1>8, <2>2, <3>1
      <3>2a. DOMAIN u = DOMAIN SourceDatabase
        BY <1>3, <3>1, AllFields DEF WithColumn
      <3>3. /\ u.shape = t.shape /\ u.hashed = t.hashed
            /\ u.ledger = t.ledger
            /\ u.report = [r \in DOMAIN t.report |-> [t.report[r] EXCEPT !.mode = "LEGACY_STATIC"]]
        BY <1>3, <3>1, AllFields DEF WithColumn
      <3>4. /\ u.scan = t.scan /\ u.record = t.record /\ u.block = t.block /\ u.link = t.link
            /\ u.rejection = t.rejection /\ u.version = t.version /\ u.current = t.current
        BY <1>3, <3>1, AllFields DEF WithColumn
      <3>5. /\ Authoritative(u) = Authoritative(t) /\ Moded(u)
            /\ \A r \in DOMAIN u.report : DOMAIN u.report[r] = {"scan", "mode"}
        BY <1>3, <3>3, <3>4, ModedRows
      <3>6. lane' = [lane EXCEPT !.place = "repair"] /\ "repair" \in Migrating
        BY <2>2 DEF Go, Migrating
      <3>8. PICK next : next = "repair"
        OBVIOUS
      <3>9. /\ next \in Migrating \cup {"PASSED", "cleanup", "FAILED"} /\ next # "PASSED"
           /\ lane' = [lane EXCEPT !.place = next]
        BY <3>6, <3>8
      <3>10. /\ u.ledger = "APPLIED" => u.hashed /\ u.shape = "v3" /\ Moded(u)
             /\ next \in Migrating \ {"upgrade", "schema"} => u.shape = "v3"
             /\ next = "applied" => u.hashed /\ Moded(u)
             /\ next \in {"filestate", "recheck", "PASSED"} => u.ledger = "APPLIED"
             /\ next \in {"recheck", "PASSED"} => u.pending = PendingLines(u) /\ u.fsVersion = u.version
        BY <1>5, <2>1, <3>3, <3>5, <3>8
      <3> QED
        BY <1>1, <1>2, <3>2, <3>2a, <3>5, <3>9, <3>10, Rewritten
    <2>3. CASE Continue("repair")
      BY <1>7, <2>1, <2>3 DEF Continue, Migrating
    <2> QED
      BY <1>10, <1>15, <2>2, <2>3 DEF AddColumn
  <1>16. CASE Repair
    <2>1. t.shape = "v3"
      BY <1>5, <1>16 DEF Repair, Is, Migrating
    <2>2. CASE /\ WriteTarget([TargetDatabase EXCEPT
                     !.hashed = TRUE,
                     !.report = [r \in DOMAIN @ |-> [@[r] EXCEPT !.mode = "LEGACY_STATIC"]]])
               /\ Go("applied")
      <3>1. PICK u : u = [t EXCEPT !.hashed = TRUE,
                            !.report = [r \in DOMAIN @ |-> [@[r] EXCEPT !.mode = "LEGACY_STATIC"]]]
        OBVIOUS
      <3>2. data'["target"] = u /\ UNCHANGED <<live, owner, conf>>
        BY <1>3, <1>8, <2>2, <3>1
      <3>2a. DOMAIN u = DOMAIN SourceDatabase
        BY <1>3, <3>1, AllFields
      <3>3. /\ u.shape = t.shape /\ u.hashed
            /\ u.report = [r \in DOMAIN t.report |-> [t.report[r] EXCEPT !.mode = "LEGACY_STATIC"]]
        BY <1>3, <3>1, AllFields
      <3>4. /\ u.scan = t.scan /\ u.record = t.record /\ u.block = t.block /\ u.link = t.link
            /\ u.rejection = t.rejection /\ u.version = t.version /\ u.current = t.current
        BY <1>3, <3>1, AllFields
      <3>5. /\ Authoritative(u) = Authoritative(t) /\ Moded(u)
            /\ \A r \in DOMAIN u.report : DOMAIN u.report[r] = {"scan", "mode"}
        BY <1>3, <3>3, <3>4, ModedRows
      <3>6. lane' = [lane EXCEPT !.place = "applied"] /\ "applied" \in Migrating
        BY <2>2 DEF Go, Migrating
      <3>8. PICK next : next = "applied"
        OBVIOUS
      <3>9. /\ next \in Migrating \cup {"PASSED", "cleanup", "FAILED"} /\ next # "PASSED"
           /\ lane' = [lane EXCEPT !.place = next]
        BY <3>6, <3>8
      <3>10. /\ u.ledger = "APPLIED" => u.hashed /\ u.shape = "v3" /\ Moded(u)
             /\ next \in Migrating \ {"upgrade", "schema"} => u.shape = "v3"
             /\ next = "applied" => u.hashed /\ Moded(u)
             /\ next \in {"filestate", "recheck", "PASSED"} => u.ledger = "APPLIED"
             /\ next \in {"recheck", "PASSED"} => u.pending = PendingLines(u) /\ u.fsVersion = u.version
        BY <2>1, <3>3, <3>5, <3>8
      <3> QED
        BY <1>1, <1>2, <3>2, <3>2a, <3>5, <3>9, <3>10, Rewritten
    <2> QED
      BY <1>10, <1>16, <2>2 DEF Repair
  <1>17. CASE Applied
    <2>1. PICK u : u = [t EXCEPT !.ledger = "APPLIED"]
      OBVIOUS
    <2>2. data'["target"] = u /\ UNCHANGED <<live, owner, conf>>
      BY <1>3, <1>8, <1>17, <2>1 DEF Applied
    <2>3. /\ DOMAIN u = DOMAIN SourceDatabase /\ u.report = t.report /\ u.shape = t.shape /\ u.hashed = t.hashed
          /\ u.ledger = "APPLIED"
      BY <1>3, <2>1, AllFields
    <2>4. /\ u.scan = t.scan /\ u.record = t.record /\ u.block = t.block /\ u.link = t.link
          /\ u.rejection = t.rejection /\ u.version = t.version /\ u.current = t.current
      BY <1>3, <2>1, AllFields
    <2>5. Authoritative(u) = Authoritative(t) /\ (Moded(u) <=> Moded(t))
      BY <2>3, <2>4, Patched
    <2>6. lane' = [lane EXCEPT !.place = "filestate"] /\ "filestate" \in Migrating
      BY <1>17 DEF Applied, Go, Migrating
    <2>7. t.shape = "v3" /\ t.hashed /\ Moded(t)
      BY <1>5, <1>17 DEF Applied, Is, Migrating
    <2>8. PICK next : next = "filestate"
      OBVIOUS
    <2>9. /\ next \in Migrating \cup {"PASSED", "cleanup", "FAILED"} /\ next # "PASSED"
         /\ lane' = [lane EXCEPT !.place = next]
      BY <2>6, <2>8
    <2>10. /\ u.ledger = "APPLIED" => u.hashed /\ u.shape = "v3" /\ Moded(u)
           /\ next \in Migrating \ {"upgrade", "schema"} => u.shape = "v3"
           /\ next = "applied" => u.hashed /\ Moded(u)
           /\ next \in {"filestate", "recheck", "PASSED"} => u.ledger = "APPLIED"
           /\ next \in {"recheck", "PASSED"} => u.pending = PendingLines(u) /\ u.fsVersion = u.version
      BY <2>3, <2>5, <2>7, <2>8
    <2> QED
      BY <1>1, <1>2, <1>3, <2>2, <2>3, <2>5, <2>9, <2>10, Rewritten
  <1>18. CASE FileStateGate
    <2>1. t.shape = "v3" /\ t.ledger = "APPLIED" /\ t.hashed /\ Moded(t)
      BY <1>5, <1>18 DEF FileStateGate, Is, Migrating
    <2>2. CASE /\ WriteTarget([TargetDatabase EXCEPT
                     !.pending = PendingLines(TargetDatabase), !.fsVersion = TargetDatabase.version])
               /\ Go("recheck")
      <3>1. PICK u : u = [t EXCEPT !.pending = PendingLines(t), !.fsVersion = t.version]
        OBVIOUS
      <3>2. data'["target"] = u /\ UNCHANGED <<live, owner, conf>>
        BY <1>3, <1>8, <2>2, <3>1
      <3>3. /\ DOMAIN u = DOMAIN SourceDatabase /\ u.report = t.report /\ u.shape = t.shape /\ u.hashed = t.hashed
            /\ u.ledger = t.ledger /\ u.pending = PendingLines(t) /\ u.fsVersion = t.version
        BY <1>3, <3>1, AllFields
      <3>4. /\ u.scan = t.scan /\ u.record = t.record /\ u.block = t.block /\ u.link = t.link
            /\ u.rejection = t.rejection /\ u.version = t.version /\ u.current = t.current
        BY <1>3, <3>1, AllFields
      <3>5. /\ Authoritative(u) = Authoritative(t) /\ (Moded(u) <=> Moded(t))
            /\ PendingLines(u) = PendingLines(t)
        BY <3>3, <3>4, Patched
      <3>6. lane' = [lane EXCEPT !.place = "recheck"] /\ "recheck" \in Migrating
        BY <2>2 DEF Go, Migrating
      <3>8. PICK next : next = "recheck"
        OBVIOUS
      <3>9. /\ next \in Migrating \cup {"PASSED", "cleanup", "FAILED"} /\ next # "PASSED"
           /\ lane' = [lane EXCEPT !.place = next]
        BY <3>6, <3>8
      <3>10. /\ u.ledger = "APPLIED" => u.hashed /\ u.shape = "v3" /\ Moded(u)
             /\ next \in Migrating \ {"upgrade", "schema"} => u.shape = "v3"
             /\ next = "applied" => u.hashed /\ Moded(u)
             /\ next \in {"filestate", "recheck", "PASSED"} => u.ledger = "APPLIED"
             /\ next \in {"recheck", "PASSED"} => u.pending = PendingLines(u) /\ u.fsVersion = u.version
        BY <2>1, <3>3, <3>4, <3>5, <3>8
      <3> QED
        BY <1>1, <1>2, <1>3, <3>2, <3>3, <3>5, <3>9, <3>10, Rewritten
    <2> QED
      BY <1>9, <1>18, <2>2 DEF FileStateGate
  <1>19. CASE CompareAfter
    <2>1. t.ledger = "APPLIED" /\ t.pending = PendingLines(t) /\ t.fsVersion = t.version
      BY <1>5, <1>19 DEF CompareAfter, Is, Migrating
    <2>2. CASE Continue("PASSED") /\ SameFacts(lane.view, t)
      BY <1>7, <2>1, <2>2 DEF Continue, Migrating
    <2> QED
      BY <1>3, <1>9, <1>19, <2>2 DEF CompareAfter
  <1> QED
    BY <1>11, <1>12, <1>13, <1>14, <1>15, <1>16, <1>17, <1>18, <1>19 DEF ApplyV3

LEMMA WitnessUpgrade ==
  ASSUME LaneInv, WitnessInv, UpgradeStep
  PROVE  WitnessInv'
  <1>1. LaneTypes /\ ViewInv
    BY DEF LaneInv, WitnessInv
  <1>2. ASSUME UNCHANGED <<live, owner, data, conf>>, lane'.place \in {"idle", "separate", "witness", "FAILED"}
        PROVE  WitnessInv'
    <2>1. ViewInv'
      BY <1>1, <1>2, ViewForgotten DEF Dumped, Creating, Migrating
    <2>2. ~Restored'
      BY <1>2 DEF Restored, Migrating
    <2> QED
      BY <1>1, <1>2, <2>1, <2>2, Quiet DEF Migrating
  <1>3. CASE BeginUpgrade
    <2>1. PICK d : lane' = [Fresh EXCEPT !.ddl = d,
                              !.place = IF conf.mode = "supplied" THEN "separate" ELSE "witness"]
      BY <1>3 DEF BeginUpgrade
    <2>2. lane'.place \in {"separate", "witness"}
      BY <2>1 DEF Fresh
    <2> QED
      BY <1>2, <1>3, <2>2 DEF BeginUpgrade
  <1>4. CASE ProbeSupplied
    BY <1>1, <1>2, <1>4 DEF ProbeSupplied, Continue, Go, LaneTypes
  <1>5. CASE Dies
    BY <1>2, <1>5 DEF Dies, Fresh
  <1> QED
    BY <1>3, <1>4, <1>5, WitnessBackup, WitnessCreate, WitnessCleanup, WitnessMigrate DEF UpgradeStep

(* A write of the serving release moves the data version. *)
LEMMA WrittenLike ==
  ASSUME NEW db, SourceLike(db), NEW next, DOMAIN next = DOMAIN db,
         next.scan = db.scan, next.block = db.block, next.link = db.link, next.report = db.report,
         next.current = db.current, next.ledger = db.ledger, next.version = db.version + 1,
         next.record = [i \in {1} |-> next.record[1]],
         next.rejection = <<>> \/ next.rejection = [j \in {1} |-> 2]
  PROVE  SourceLike(next) /\ next.version # 0 /\ \A old : ReadBefore(old, db) => ReadBefore(old, next)
  <1>1. db.version \in Nat /\ next.version \in Nat /\ next.version # 0
    BY DEF SourceLike
  <1>2. SourceLike(next)
    BY <1>1 DEF SourceLike
  <1>3. ASSUME NEW old, ReadBefore(old, db)
        PROVE  ReadBefore(old, next)
    <2>1. SourceLike(old) /\ old.version \in Nat /\ old.version <= db.version
      BY <1>3 DEF ReadBefore, SourceLike
    <2>2. old.version <= next.version /\ old.version # next.version
      BY <1>1, <2>1
    <2> QED
      BY <2>1, <2>2 DEF ReadBefore
  <1> QED
    BY <1>1, <1>2, <1>3

LEMMA WitnessOthers ==
  ASSUME LaneInv, WitnessInv, OthersStep
  PROVE  WitnessInv'
  <1>1. LaneTypes /\ ViewInv /\ HoldsInv /\ SchemaInv
    BY DEF LaneInv, WitnessInv
  <1>2. SourceLike(live) /\ DOMAIN live = DOMAIN SourceDatabase
    BY <1>1 DEF ViewInv, SourceLike
  <1>3. ASSUME UNCHANGED <<owner, data, conf, lane>>, SourceLike(live'),
               \A old : ReadBefore(old, live) => ReadBefore(old, live')
        PROVE  WitnessInv'
    <2>1. ViewInv'
      BY <1>1, <1>3 DEF ViewInv
    <2>2. HoldsInv'
      BY <1>1, <1>3 DEF HoldsInv, Supplied, Restored
    <2>3. SchemaInv'
      BY <1>1, <1>3 DEF SchemaInv, Supplied, Restored
    <2> QED
      BY <2>1, <2>2, <2>3 DEF WitnessInv
  <1>4. ASSUME NEW r \in Ids, EditRecord(r)
        PROVE  WitnessInv'
    <2>1. /\ r \in DOMAIN live.record /\ UNCHANGED <<owner, data, conf, lane>>
          /\ live' = Written([live EXCEPT !.record[r] = <<"edited", writes>>])
      BY <1>4 DEF EditRecord
    <2>2. live.record = [i \in {1} |-> live.record[1]]
      BY <1>2 DEF SourceLike
    <2>3. r = 1
      BY <2>1, <2>2
    <2>4. PICK db : db = [live EXCEPT !.record[r] = <<"edited", writes>>]
      OBVIOUS
    <2>5. DOMAIN db = DOMAIN live /\ db.record = [i \in {1} |-> <<"edited", writes>>]
      BY <1>2, <2>2, <2>3, <2>4, AllFields
    <2>6. /\ db.scan = live.scan /\ db.block = live.block /\ db.link = live.link /\ db.report = live.report
          /\ db.current = live.current /\ db.ledger = live.ledger /\ db.version = live.version
          /\ db.rejection = live.rejection
      BY <1>2, <2>4, AllFields
    <2>7. live' = Written(db)
      BY <2>1, <2>4
    <2>8. /\ DOMAIN live' = DOMAIN live /\ live'.version = live.version + 1
          /\ live'.scan = live.scan /\ live'.block = live.block /\ live'.link = live.link
          /\ live'.report = live.report /\ live'.current = live.current /\ live'.ledger = live.ledger
          /\ live'.rejection = live.rejection /\ live'.record = db.record
      BY <1>2, <2>5, <2>6, <2>7, AllFields DEF Written
    <2>9. /\ live'.record = [i \in {1} |-> live'.record[1]]
          /\ live'.rejection = <<>> \/ live'.rejection = [j \in {1} |-> 2]
      BY <1>2, <2>5, <2>8 DEF SourceLike
    <2>10. SourceLike(live') /\ \A old : ReadBefore(old, live) => ReadBefore(old, live')
      BY <1>2, <2>8, <2>9, WrittenLike
    <2> QED
      BY <1>3, <2>1, <2>10
  <1>5. ASSUME NEW k \in Ids, RejectLine(k)
        PROVE  WitnessInv'
    <2>1. /\ k \in DOMAIN live.link /\ live.link[k].origin # 0 /\ UNCHANGED <<owner, data, conf, lane>>
          /\ live' = Written([live EXCEPT !.rejection = [j \in {1} |-> k]])
      BY <1>5 DEF RejectLine
    <2>2. live.link = SourceDatabase.link
      BY <1>2 DEF SourceLike
    <2>3. k = 2
      BY <2>1, <2>2, SourceLinks
    <2>4. PICK db : db = [live EXCEPT !.rejection = [j \in {1} |-> k]]
      OBVIOUS
    <2>5. DOMAIN db = DOMAIN live /\ db.rejection = [j \in {1} |-> 2]
      BY <1>2, <2>3, <2>4, AllFields
    <2>6. /\ db.scan = live.scan /\ db.block = live.block /\ db.link = live.link /\ db.report = live.report
          /\ db.current = live.current /\ db.ledger = live.ledger /\ db.version = live.version
          /\ db.record = live.record
      BY <1>2, <2>4, AllFields
    <2>7. live' = Written(db)
      BY <2>1, <2>4
    <2>8. /\ DOMAIN live' = DOMAIN live /\ live'.version = live.version + 1
          /\ live'.scan = live.scan /\ live'.block = live.block /\ live'.link = live.link
          /\ live'.report = live.report /\ live'.current = live.current /\ live'.ledger = live.ledger
          /\ live'.rejection = db.rejection /\ live'.record = live.record
      BY <1>2, <2>5, <2>6, <2>7, AllFields DEF Written
    <2>9. live'.record = [i \in {1} |-> live'.record[1]]
      BY <1>2, <2>8 DEF SourceLike
    <2>10. SourceLike(live') /\ \A old : ReadBefore(old, live) => ReadBefore(old, live')
      BY <1>2, <2>5, <2>8, <2>9, WrittenLike
    <2> QED
      BY <1>3, <2>1, <2>10
  <1>6. CASE OperatorChangesGrants
    <2>1. UNCHANGED <<live, owner, data, conf, lane>>
      BY <1>6 DEF OperatorChangesGrants
    <2>2. SourceLike(live') /\ \A old : ReadBefore(old, live) => ReadBefore(old, live')
      BY <1>2, <2>1
    <2> QED
      BY <1>3, <2>1, <2>2
  <1>7. ASSUME NEW n \in Names, OperatorTakesName(n)
        PROVE  WitnessInv'
    <2>1. /\ owner[n] = Nil /\ owner' = [owner EXCEPT ![n] = "operator"] /\ data' = [data EXCEPT ![n] = live]
          /\ UNCHANGED <<live, conf, lane>>
      BY <1>7 DEF OperatorTakesName
    <2>2. ViewInv'
      BY <1>1, <2>1, ViewStays
    <2>3. CASE n = "target"
      <3>1. owner["target"] = Nil /\ Nil # "run" /\ Nil # "operator"
        BY <2>1, <2>3, NilAssumption
      <3>2. ~Supplied /\ lane.place # "PASSED"
        BY <1>1, <3>1 DEF HoldsInv
      <3>3. lane.place \notin Creating \cup Migrating
        BY <3>1, <3>2 DEF LaneInv, OwnInv
      <3>4. ~Restored'
        BY <2>1, <3>2, <3>3 DEF Restored, Creating
      <3> QED
        BY <1>1, <2>1, <2>2, <3>2, <3>3, <3>4, Quiet DEF Migrating
    <2>4. CASE n = "scratch"
      <3>1. data'["target"] = data["target"] /\ owner'["target"] = owner["target"]
        BY <1>1, <2>1, <2>4 DEF LaneTypes, Names
      <3>2. HoldsInv'
        BY <1>1, <2>1, <3>1 DEF HoldsInv, Supplied, Restored
      <3>3. SchemaInv'
        BY <1>1, <2>1, <3>1 DEF SchemaInv, Supplied, Restored
      <3> QED
        BY <2>2, <3>2, <3>3 DEF WitnessInv
    <2> QED
      BY <2>3, <2>4 DEF Names
  <1> QED
    BY <1>4, <1>5, <1>6, <1>7 DEF OthersStep

LEMMA WitnessStep ==
  ASSUME LaneInv, WitnessInv, [ExistingNext]_laneVars
  PROVE  WitnessInv'
  <1>1. CASE UNCHANGED laneVars
    <2>1. UNCHANGED <<live, owner, data, conf, lane>>
      BY <1>1 DEF laneVars
    <2>2. ViewInv'
      BY <2>1, ViewStays DEF WitnessInv
    <2>3. HoldsInv'
      BY <2>1 DEF WitnessInv, HoldsInv, Supplied, Restored
    <2>4. SchemaInv'
      BY <2>1 DEF WitnessInv, SchemaInv, Supplied, Restored
    <2> QED
      BY <2>2, <2>3, <2>4 DEF WitnessInv
  <1> QED
    BY <1>1, WitnessUpgrade, WitnessOthers DEF ExistingNext

LEMMA WitnessBegins == ExistingInit => WitnessInv
  <1> SUFFICES ASSUME ExistingInit PROVE WitnessInv
    OBVIOUS
  <1>1. live = SourceDatabase /\ lane = Fresh /\ conf \in Configurations /\ lane.place = "idle"
    BY DEF ExistingInit, Fresh
  <1>2. SourceLike(SourceDatabase)
    BY SourceRows DEF SourceLike
  <1>3. ViewInv
    BY <1>1, <1>2 DEF ViewInv, Dumped, Creating, Migrating
  <1>4. lane.place \notin Migrating \cup {"PASSED", "grant", "probe", "connect"}
    BY <1>1 DEF Migrating
  <1>5. ~Restored
    BY <1>4 DEF Restored
  <1>6. ASSUME Supplied
        PROVE  /\ owner["target"] = "operator"
               /\ \E d \in Copies(SourceDatabase) : Carries(data["target"], d)
               /\ data["target"].ledger = Nil
    <2>1. PICK s \in SuppliedTargets : data = [n \in Names |-> IF n = "target" THEN s ELSE Nil]
      BY <1>6 DEF ExistingInit, Supplied
    <2>2. PICK d \in Copies(SourceDatabase), c \in {"absent", "nullable", "other"} : s = [d EXCEPT !.column = c]
      BY DEF SuppliedTargets
    <2>3. data["target"] = s /\ owner["target"] = "operator"
      BY <1>6, <2>1 DEF ExistingInit, Supplied, Names
    <2>4. /\ DOMAIN d = DOMAIN SourceDatabase /\ d.ledger = Nil
          /\ \A r \in DOMAIN d.report : DOMAIN d.report[r] = {"scan", "mode"}
      <3>1. CASE \E p \in Renamings : d = Renamed(p, SourceDatabase)
        <4>1. PICK p \in Renamings : d = Renamed(p, SourceDatabase)
          BY <3>1
        <4>2. Numbered(SourceDatabase, 1, 2, SourceDatabase.record[1], FALSE, SourceDatabase.version)
          BY <1>2, SourceRows, SourceNumbered
        <4>3. 1 \in Ids /\ 2 \in Ids /\ 1 # 2
          BY SourceAssumption
        <4>4. Numbered(d, p[1], p[2], SourceDatabase.record[1], FALSE, SourceDatabase.version)
          BY <4>1, <4>2, <4>3, RenamedNumbered
        <4>5. d.ledger = Nil
          BY <4>1, SourceRows, RenamedState
        <4> QED
          BY <4>4, <4>5 DEF Numbered
      <3>2. CASE d \in {[SourceDatabase EXCEPT !.link = Without(@, 2)],
                        [SourceDatabase EXCEPT !.link[2].origin = 0], [SourceDatabase EXCEPT !.current = 0]}
        <4>1. DOMAIN d = DOMAIN SourceDatabase /\ d.ledger = Nil /\ d.report = SourceDatabase.report
          BY <3>2, SourceRows, AllFields
        <4> QED
          BY <4>1, SourceRows
      <3> QED
        BY <3>1, <3>2 DEF Copies
    <2>5. /\ DOMAIN s = DOMAIN SourceDatabase /\ s.ledger = Nil /\ s.report = d.report
          /\ s.scan = d.scan /\ s.record = d.record /\ s.block = d.block /\ s.link = d.link
          /\ s.rejection = d.rejection /\ s.version = d.version /\ s.current = d.current
      BY <2>2, <2>4, AllFields
    <2>6. Authoritative(s) = Authoritative(d)
      BY <2>5, Patched
    <2>7. Carries(s, d)
      BY <2>4, <2>5, <2>6 DEF Carries
    <2> QED
      BY <2>3, <2>5, <2>7
  <1>7. HoldsInv
    BY <1>4, <1>5, <1>6 DEF HoldsInv
  <1>8. SchemaInv
    BY <1>1, <1>4, <1>5, <1>6, NilAssumption DEF SchemaInv
  <1> QED
    BY <1>3, <1>7, <1>8 DEF WitnessInv

-----------------------------------------------------------------------------
(* The rehearsal *)

Contents == {Nil, "production", "fixture", "newer", "part", "theirs"}
Verdicts == {"PASSED", "INCOMPLETE"}
Looked == {"idle", "validate", "exists", "create_source"}
Trying == {"restore", "migrate", "again", "decide"}
Ending == {"drop_target", "drop_source", "output", "manifest", "rewrite", "done"}

RehearsalState ==
    [place : Looked \cup {"create_target"} \cup Trying \cup Ending,
     created : SUBSET Disposable, restored : Contents, first : Contents,
     second : Contents, ready : BOOLEAN, status : Verdicts]
Databases == [Disposable -> [owner : {Nil, "rehearsal", "operator"}, holds : Contents]]
Outputs == [output : Verdicts \cup {Nil}, manifest : Verdicts \cup {Nil}]

RehearsalTypes ==
    /\ backup \in [holds : {"production", "fixture", "newer"}, named : {"production", "fixture"},
                   attested : {"production", "fixture"}, replaced : BOOLEAN,
                   class : {"production_backup", "synthetic"}]
    /\ schema \in Databases
    /\ rehearsal \in RehearsalState
    /\ verdict \in Outputs

(* Until it is dropped, a database this rehearsal made is its own. *)
MadeInv ==
    /\ rehearsal.place \in Looked => rehearsal.created = {}
    /\ rehearsal.place = "create_target" => rehearsal.created = {"source"}
    /\ rehearsal.place \in Trying => rehearsal.created = Disposable
    /\ "source" \in rehearsal.created
          /\ rehearsal.place \in {"create_target", "drop_target", "drop_source"} \cup Trying
       => schema["source"].owner = "rehearsal"
    /\ "target" \in rehearsal.created /\ rehearsal.place \in {"drop_target"} \cup Trying
       => schema["target"].owner = "rehearsal"

Attested(contents) == ~backup.replaced => contents = backup.attested

(* What is migrated is what was restored, and that what was attested. *)
RestoredInv ==
    /\ rehearsal.place \in {"exists", "create_source", "create_target", "restore"} => Attested(backup.holds)
    /\ rehearsal.place \in {"migrate", "again", "decide"} =>
          /\ schema["source"].holds = rehearsal.restored
          /\ rehearsal.restored # Nil /\ Attested(rehearsal.restored)

(* PASSED is decided at the end, and taken back when a drop fails. *)
DecidedInv ==
    /\ rehearsal.status = "PASSED" =>
          /\ rehearsal.place \in Ending
          /\ rehearsal.restored # Nil /\ Attested(rehearsal.restored)
          /\ rehearsal.first = rehearsal.restored /\ rehearsal.second = rehearsal.restored
          /\ rehearsal.place # "drop_target" /\ "target" \in rehearsal.created
                => schema["target"].owner # "rehearsal"
          /\ rehearsal.place \notin {"drop_target", "drop_source"} /\ "source" \in rehearsal.created
                => schema["source"].owner # "rehearsal"
    /\ rehearsal.place = "done" => verdict.output = rehearsal.status

RehearsalInv == RehearsalTypes /\ MadeInv /\ RestoredInv /\ DecidedInv

LeavesTheirs ==
    \A n \in Disposable : schema[n].owner = "operator" => schema'[n] = schema[n]

LEMMA RehearsalBegins == RehearsalInit => RehearsalInv
  <1> SUFFICES ASSUME RehearsalInit PROVE RehearsalInv
    OBVIOUS
  <1>1. rehearsal = NotStarted /\ schema = [n \in Disposable |-> Absent]
    BY DEF RehearsalInit
  <1>2. RehearsalTypes
    BY
       DEF RehearsalInit, RehearsalTypes, RehearsalState, Databases, Outputs, NotStarted, Absent, Contents, Verdicts, Looked
  <1> QED
    BY <1>1, <1>2 DEF RehearsalInv, MadeInv, RestoredInv, DecidedInv, NotStarted, Looked, Trying, Ending

LEMMA RehearsalMoves ==
  ASSUME RehearsalTypes, NEW place \in Looked \cup {"create_target"} \cup Trying \cup Ending, Turn(place)
  PROVE  /\ rehearsal' \in RehearsalState
         /\ rehearsal'.place = place /\ rehearsal'.created = rehearsal.created
         /\ rehearsal'.restored = rehearsal.restored /\ rehearsal'.first = rehearsal.first
         /\ rehearsal'.second = rehearsal.second /\ rehearsal'.status = rehearsal.status
  BY DEF RehearsalTypes, RehearsalState, Databases, Outputs, Turn

(* Steps that change neither a database nor the verdict. *)
LEMMA RehearsalLooks ==
  ASSUME RehearsalInv, NEW place \in Looked \cup {"create_target"} \cup Trying \cup Ending,
         Turn(place), UNCHANGED schema, Keeps,
         \/ rehearsal.place = "validate" /\ place = "exists" /\ DumpIsValid /\ ProvenanceHolds
         \/ rehearsal.place = "exists" /\ place = "create_source"
         \/ rehearsal.place \in Looked \cup {"create_target"} \cup Trying /\ place = "drop_target"
         \/ rehearsal.place = "drop_target" /\ place = "drop_source" /\ "target" \notin rehearsal.created
         \/ rehearsal.place = "drop_source" /\ place = "output" /\ "source" \notin rehearsal.created
  PROVE  RehearsalInv' /\ LeavesTheirs
  <1>1. RehearsalTypes
    BY DEF RehearsalInv
  <1>2. RehearsalTypes'
    BY <1>1, RehearsalMoves DEF RehearsalTypes, Keeps
  <1>3. /\ rehearsal'.place = place /\ rehearsal'.created = rehearsal.created
        /\ rehearsal'.restored = rehearsal.restored /\ rehearsal'.first = rehearsal.first
        /\ rehearsal'.second = rehearsal.second /\ rehearsal'.status = rehearsal.status
        /\ UNCHANGED <<backup, verdict, schema>>
    BY <1>1, RehearsalMoves DEF Keeps
  <1>4. MadeInv'
    BY <1>3 DEF RehearsalInv, MadeInv, Looked, Trying, Ending, Disposable
  <1>5. RestoredInv'
    BY <1>3 DEF RehearsalInv, RestoredInv, Attested, Looked, Trying, Ending, ProvenanceHolds
  <1>6. DecidedInv'
    BY <1>3 DEF RehearsalInv, DecidedInv, Attested, Looked, Trying, Ending
  <1> QED
    BY <1>2, <1>3, <1>4, <1>5, <1>6 DEF RehearsalInv, LeavesTheirs

LEMMA MakesOne ==
  ASSUME RehearsalInv, NEW n \in Disposable, schema[n] = Absent,
         NEW place, NEW next,
         rehearsal.place = place,
         \/ n = "source" /\ place = "create_source" /\ next = "create_target"
         \/ n = "target" /\ place = "create_target" /\ next = "restore",
         schema' = [schema EXCEPT ![n].owner = "rehearsal"],
         rehearsal' = [rehearsal EXCEPT !.created = @ \cup {n}, !.place = next],
         Keeps
  PROVE  RehearsalInv' /\ LeavesTheirs
  <1>1. RehearsalTypes
    BY DEF RehearsalInv
  <1>2. /\ schema' \in Databases
        /\ schema'[n].owner = "rehearsal" /\ \A m \in Disposable \ {n} : schema'[m] = schema[m]
    BY <1>1 DEF RehearsalTypes, RehearsalState, Databases, Outputs
  <1>3. rehearsal' \in RehearsalState
    BY <1>1 DEF RehearsalTypes, RehearsalState, Databases, Outputs, Trying
  <1>4. /\ rehearsal'.place = next /\ rehearsal'.created = rehearsal.created \cup {n}
        /\ rehearsal'.restored = rehearsal.restored /\ rehearsal'.status = rehearsal.status
        /\ UNCHANGED <<backup, verdict>>
    BY <1>1 DEF RehearsalTypes, RehearsalState, Databases, Outputs, Keeps
  <1>5. RehearsalTypes'
    BY <1>1, <1>2, <1>3, <1>4 DEF RehearsalTypes
  <1>6. MadeInv'
    BY <1>2, <1>4 DEF RehearsalInv, MadeInv, Looked, Trying, Disposable
  <1>7. RestoredInv'
    BY <1>4 DEF RehearsalInv, RestoredInv, Attested
  <1>8. DecidedInv'
    BY <1>4 DEF RehearsalInv, DecidedInv, Ending
  <1>9. LeavesTheirs
    BY <1>2, NilAssumption DEF LeavesTheirs, Absent
  <1> QED
    BY <1>5, <1>6, <1>7, <1>8, <1>9 DEF RehearsalInv

LEMMA DropsOne ==
  ASSUME RehearsalInv, NEW n \in Disposable, n \in rehearsal.created, NEW next,
         \/ n = "target" /\ rehearsal.place = "drop_target" /\ next = "drop_source"
         \/ n = "source" /\ rehearsal.place = "drop_source" /\ next = "output",
         \/ schema' = [schema EXCEPT ![n] = Absent] /\ Turn(next)
         \/ /\ rehearsal' = [rehearsal EXCEPT !.status = "INCOMPLETE", !.place = next]
            /\ UNCHANGED schema,
         Keeps
  PROVE  RehearsalInv' /\ LeavesTheirs
  <1>1. RehearsalTypes /\ next \in Ending
    BY DEF RehearsalInv, Ending
  <1>2. UNCHANGED <<backup, verdict>>
    BY DEF Keeps
  <1>3. CASE schema' = [schema EXCEPT ![n] = Absent] /\ Turn(next)
    <2>1. /\ rehearsal' \in RehearsalState
          /\ rehearsal'.place = next /\ rehearsal'.created = rehearsal.created
          /\ rehearsal'.restored = rehearsal.restored /\ rehearsal'.first = rehearsal.first
          /\ rehearsal'.second = rehearsal.second /\ rehearsal'.status = rehearsal.status
      BY <1>1, <1>3, RehearsalMoves
    <2>2. /\ schema' \in Databases
          /\ schema'[n].owner = Nil /\ \A m \in Disposable \ {n} : schema'[m] = schema[m]
      BY <1>1, <1>3 DEF RehearsalTypes, RehearsalState, Databases, Outputs, Absent, Contents
    <2>3. RehearsalTypes'
      BY <1>1, <1>2, <2>1, <2>2 DEF RehearsalTypes
    <2>4. MadeInv'
      BY <2>1, <2>2 DEF RehearsalInv, MadeInv, Looked, Trying, Disposable
    <2>5. RestoredInv'
      BY <2>1 DEF RestoredInv
    <2>6. DecidedInv'
      BY <1>2, <2>1, <2>2, NilAssumption DEF RehearsalInv, DecidedInv, Attested, Ending, Disposable
    <2>7. LeavesTheirs
      BY <2>2 DEF LeavesTheirs, RehearsalInv, MadeInv
    <2> QED
      BY <2>3, <2>4, <2>5, <2>6, <2>7 DEF RehearsalInv
  <1>4. CASE /\ rehearsal' = [rehearsal EXCEPT !.status = "INCOMPLETE", !.place = next]
             /\ UNCHANGED schema
    <2>1. rehearsal' \in RehearsalState
      BY <1>1, <1>4 DEF RehearsalTypes, RehearsalState, Databases, Outputs, Verdicts
    <2>2. /\ rehearsal'.place = next /\ rehearsal'.created = rehearsal.created
          /\ rehearsal'.status = "INCOMPLETE"
      BY <1>1, <1>4 DEF RehearsalTypes, RehearsalState, Databases, Outputs
    <2>3. RehearsalTypes'
      BY <1>1, <1>2, <1>4, <2>1 DEF RehearsalTypes
    <2> QED
      BY <1>4, <2>2, <2>3
         DEF RehearsalInv, MadeInv, RestoredInv, DecidedInv, LeavesTheirs, Looked, Trying
  <1> QED
    BY <1>3, <1>4

LEMMA TriesStep ==
  ASSUME RehearsalInv, RestoreSource \/ MigrateOnce \/ MigrateAgain \/ Decide
  PROVE  RehearsalInv' /\ LeavesTheirs
  <1>1. RehearsalTypes
    BY DEF RehearsalInv
  <1>2. rehearsal.place \in Trying /\ UNCHANGED <<backup, verdict>>
    BY DEF RestoreSource, MigrateOnce, MigrateAgain, Decide, During, Trying, Keeps
  <1>3. /\ schema["source"].owner = "rehearsal" /\ schema["target"].owner = "rehearsal"
        /\ rehearsal.created = Disposable /\ rehearsal.status # "PASSED"
    BY <1>2 DEF RehearsalInv, MadeInv, DecidedInv, Disposable, Trying, Ending
  <1>4. "part" \in Contents /\ backup.holds \in Contents \ {Nil}
    BY <1>1, NilAssumption DEF RehearsalTypes, RehearsalState, Databases, Outputs, Contents
  <1>5. ASSUME NEW n \in Disposable, NEW facts \in Contents,
               schema' = [schema EXCEPT ![n].holds = facts]
        PROVE  /\ schema' \in Databases
               /\ schema'["source"].owner = "rehearsal" /\ schema'["target"].owner = "rehearsal"
               /\ schema'[n].holds = facts
               /\ n # "source" => schema'["source"] = schema["source"]
               /\ LeavesTheirs
    <2>1. /\ schema' \in Databases
          /\ schema'[n].holds = facts
          /\ \A m \in Disposable : schema'[m].owner = schema[m].owner
          /\ \A m \in Disposable \ {n} : schema'[m] = schema[m]
      BY <1>1, <1>5 DEF RehearsalTypes, RehearsalState, Databases, Outputs
    <2> QED
      BY <1>3, <2>1 DEF Disposable, LeavesTheirs
  (* What a step that goes on or gives up has to leave. *)
  <1>6. ASSUME rehearsal' \in RehearsalState,
               schema' \in Databases,
               schema'["source"].owner = "rehearsal", schema'["target"].owner = "rehearsal",
               rehearsal'.created = Disposable, rehearsal'.status # "PASSED",
               \/ rehearsal'.place = "drop_target"
               \/ /\ rehearsal'.place \in {"migrate", "again", "decide"}
                  /\ schema'["source"].holds = rehearsal'.restored
                  /\ rehearsal'.restored # Nil /\ Attested(rehearsal'.restored)
        PROVE  RehearsalInv'
    <2>1. RehearsalTypes'
      BY <1>1, <1>2, <1>6 DEF RehearsalTypes
    <2>2. MadeInv'
      BY <1>6 DEF MadeInv, Looked, Trying
    <2>3. RestoredInv'
      BY <1>2, <1>6 DEF RestoredInv, Attested
    <2>4. DecidedInv'
      BY <1>6 DEF DecidedInv
    <2> QED
      BY <2>1, <2>2, <2>3, <2>4 DEF RehearsalInv
  <1>7. ASSUME Turn("drop_target"),
               schema' \in Databases,
               schema'["source"].owner = "rehearsal", schema'["target"].owner = "rehearsal"
        PROVE  RehearsalInv'
    BY <1>1, <1>3, <1>6, <1>7, RehearsalMoves DEF Ending
  <1>8. CASE RestoreSource
    <2>1. CASE schema' = [schema EXCEPT !["source"].holds = "part"] /\ Turn("drop_target")
      BY <1>4, <1>5, <1>7, <2>1 DEF Disposable
    <2>2. CASE schema' = [schema EXCEPT !["source"].holds = backup.holds] /\ Turn("drop_target")
      BY <1>4, <1>5, <1>7, <2>2 DEF Disposable
    <2>3. CASE /\ schema' = [schema EXCEPT !["source"].holds = backup.holds]
               /\ rehearsal' = [rehearsal EXCEPT !.restored = backup.holds, !.place = "migrate"]
      <3>1. /\ rehearsal' \in RehearsalState
            /\ rehearsal'.place = "migrate" /\ rehearsal'.restored = backup.holds
            /\ rehearsal'.created = Disposable /\ rehearsal'.status # "PASSED"
        BY <1>1, <1>3, <1>4, <2>3 DEF RehearsalTypes, RehearsalState, Databases, Outputs, Trying
      <3>2. Attested(backup.holds)
        BY <1>8 DEF RehearsalInv, RestoredInv, RestoreSource, During
      <3>3. /\ schema' \in Databases
            /\ schema'["source"].owner = "rehearsal" /\ schema'["target"].owner = "rehearsal"
            /\ schema'["source"].holds = backup.holds /\ LeavesTheirs
        BY <1>4, <1>5, <2>3 DEF Disposable
      <3> QED
        BY <1>4, <1>6, <3>1, <3>2, <3>3
    <2> QED
      BY <1>8, <2>1, <2>2, <2>3 DEF RestoreSource
  <1>9. CASE MigrateOnce
    <2>1. /\ schema["source"].holds = rehearsal.restored
          /\ rehearsal.restored # Nil /\ Attested(rehearsal.restored)
          /\ schema["source"].holds \in Contents
      BY <1>1, <1>9
         DEF RehearsalInv, RestoredInv, MigrateOnce, During, RehearsalTypes, RehearsalState, Databases, Outputs, Disposable
    <2>2. CASE schema' = [schema EXCEPT !["target"].holds = "part"] /\ Turn("drop_target")
      BY <1>4, <1>5, <1>7, <2>2 DEF Disposable
    <2>3. ASSUME NEW facts \in {schema["source"].holds, "part"}, NEW ready \in BOOLEAN,
                 schema' = [schema EXCEPT !["target"].holds = facts],
                 rehearsal' = [rehearsal EXCEPT !.first = facts, !.ready = ready, !.place = "again"]
          PROVE  RehearsalInv' /\ LeavesTheirs
      <3>1. facts \in Contents
        BY <1>4, <2>1, <2>3
      <3>2. /\ rehearsal' \in RehearsalState
            /\ rehearsal'.place = "again" /\ rehearsal'.restored = rehearsal.restored
            /\ rehearsal'.created = Disposable /\ rehearsal'.status # "PASSED"
        BY <1>1, <1>3, <2>3, <3>1 DEF RehearsalTypes, RehearsalState, Databases, Outputs, Trying
      <3>3. /\ schema' \in Databases
            /\ schema'["source"].owner = "rehearsal" /\ schema'["target"].owner = "rehearsal"
            /\ schema'["source"] = schema["source"] /\ LeavesTheirs
        BY <1>5, <2>3, <3>1 DEF Disposable
      <3> QED
        BY <1>6, <2>1, <3>2, <3>3
    <2> QED
      BY <1>9, <2>2, <2>3 DEF MigrateOnce
  <1>10. CASE MigrateAgain
    <2>1. /\ schema["source"].holds = rehearsal.restored
          /\ rehearsal.restored # Nil /\ Attested(rehearsal.restored)
          /\ schema["source"].holds \in Contents /\ schema["target"].holds \in Contents
      BY <1>1, <1>10
         DEF RehearsalInv, RestoredInv, MigrateAgain, During, RehearsalTypes, RehearsalState, Databases, Outputs, Disposable
    <2>2. CASE GiveUp
      BY <1>1, <1>3, <1>7, <2>2
         DEF GiveUp, RehearsalTypes, RehearsalState, Databases, Outputs, LeavesTheirs
    <2>3. ASSUME NEW facts \in {schema["target"].holds, schema["source"].holds, "part"}, NEW ready \in BOOLEAN,
                 schema' = [schema EXCEPT !["target"].holds = facts],
                 rehearsal' = [rehearsal EXCEPT
                                 !.second = facts, !.ready = @ /\ ready, !.place = "decide"]
          PROVE  RehearsalInv' /\ LeavesTheirs
      <3>1. facts \in Contents
        BY <1>4, <2>1, <2>3
      <3>2. (rehearsal.ready /\ ready) \in BOOLEAN
        BY Zenon
      <3>3. PICK both \in BOOLEAN :
               rehearsal' = [rehearsal EXCEPT !.second = facts, !.ready = both, !.place = "decide"]
        BY <2>3, <3>2
      <3>4. /\ rehearsal' \in RehearsalState
            /\ rehearsal'.place = "decide" /\ rehearsal'.restored = rehearsal.restored
            /\ rehearsal'.created = Disposable /\ rehearsal'.status # "PASSED"
        BY <1>1, <1>3, <3>1, <3>3 DEF RehearsalTypes, RehearsalState, Databases, Outputs, Trying
      <3>5. /\ schema' \in Databases
            /\ schema'["source"].owner = "rehearsal" /\ schema'["target"].owner = "rehearsal"
            /\ schema'["source"] = schema["source"] /\ LeavesTheirs
        BY <1>5, <2>3, <3>1 DEF Disposable
      <3> QED
        BY <1>6, <2>1, <3>4, <3>5
    <2> QED
      BY <1>10, <2>2, <2>3 DEF MigrateAgain
  <1>11. CASE Decide
    <2>1. /\ schema["source"].holds = rehearsal.restored
          /\ rehearsal.restored # Nil /\ Attested(rehearsal.restored) /\ UNCHANGED schema
      BY <1>11 DEF RehearsalInv, RestoredInv, Decide, During
    <2>2. PICK status \in Verdicts :
             /\ rehearsal' = [rehearsal EXCEPT !.place = "drop_target", !.status = status]
             /\ status = "PASSED" => /\ rehearsal.first = schema["source"].holds
                                     /\ rehearsal.second = rehearsal.first
      <3>1. PICK status : status = IF /\ rehearsal.first = schema["source"].holds
                                      /\ rehearsal.second = rehearsal.first
                                      /\ rehearsal.ready
                                   THEN "PASSED" ELSE rehearsal.status
        OBVIOUS
      <3> QED
        BY <1>1, <1>3, <1>11, <3>1
           DEF Decide, RehearsalTypes, RehearsalState, Databases, Outputs, Verdicts
    <2>3. /\ rehearsal' \in RehearsalState
          /\ rehearsal'.place = "drop_target" /\ rehearsal'.restored = rehearsal.restored
          /\ rehearsal'.created = Disposable /\ rehearsal'.status = status
          /\ rehearsal'.first = rehearsal.first /\ rehearsal'.second = rehearsal.second
      BY <1>1, <1>3, <2>2 DEF RehearsalTypes, RehearsalState, Databases, Outputs, Ending
    <2>4. RehearsalTypes'
      BY <1>1, <1>2, <2>1, <2>3 DEF RehearsalTypes
    <2>5. MadeInv' /\ RestoredInv'
      BY <1>3, <2>1, <2>3 DEF MadeInv, RestoredInv, Looked, Trying
    <2>6. DecidedInv'
      BY <1>2, <2>1, <2>2, <2>3 DEF DecidedInv, Attested, Ending
    <2> QED
      BY <2>1, <2>4, <2>5, <2>6 DEF RehearsalInv, LeavesTheirs
  <1> QED
    BY <1>8, <1>9, <1>10, <1>11

LEMMA WritesStep ==
  ASSUME RehearsalInv, WriteOutput \/ RecordManifest \/ RewriteOutput
  PROVE  RehearsalInv' /\ LeavesTheirs
  <1>1. RehearsalTypes /\ rehearsal.status \in Verdicts
    BY DEF RehearsalInv, RehearsalTypes, RehearsalState, Databases, Outputs
  <1>2. UNCHANGED <<backup, schema>> /\ rehearsal.place \in {"output", "manifest", "rewrite"}
    BY DEF WriteOutput, RecordManifest, RewriteOutput, During
  <1>3. verdict' \in Outputs
    <2>1. /\ [verdict EXCEPT !.output = rehearsal.status] \in Outputs
          /\ [verdict EXCEPT !.manifest = rehearsal.status] \in Outputs
          /\ verdict \in Outputs
      BY <1>1 DEF RehearsalTypes, RehearsalState, Databases, Outputs
    <2> QED
      BY <2>1 DEF WriteOutput, RecordManifest, RewriteOutput
  <1>4. PICK place \in {"manifest", "rewrite", "done"}, status \in Verdicts :
           /\ rehearsal' = [rehearsal EXCEPT !.status = status, !.place = place]
           /\ status = "PASSED" => rehearsal.status = "PASSED"
           /\ place = "done" => verdict'.output = status
    <2>1. ASSUME NEW place \in {"manifest", "rewrite", "done"}, Turn(place)
          PROVE  rehearsal' = [rehearsal EXCEPT !.status = rehearsal.status, !.place = place]
      BY <1>1, <2>1 DEF Turn, RehearsalTypes, RehearsalState, Databases, Outputs
    <2>2. CASE WriteOutput
      <3>1. verdict'.output = rehearsal.status /\ (Turn("manifest") \/ Turn("done"))
        BY <1>1, <2>2 DEF WriteOutput, RehearsalTypes, RehearsalState, Databases, Outputs
      <3> QED
        BY <1>1, <2>1, <3>1
    <2>3. CASE RecordManifest
      <3>1. \/ Turn("rewrite")
            \/ rehearsal' = [rehearsal EXCEPT !.status = "INCOMPLETE", !.place = "rewrite"]
        BY <2>3 DEF RecordManifest
      <3> QED
        BY <1>1, <2>1, <3>1 DEF Verdicts
    <2>4. CASE RewriteOutput
      <3>1. verdict'.output = rehearsal.status /\ Turn("done")
        BY <1>1, <2>4 DEF RewriteOutput, RehearsalTypes, RehearsalState, Databases, Outputs
      <3> QED
        BY <1>1, <2>1, <3>1
    <2> QED
      BY <2>2, <2>3, <2>4
  <1>5. /\ rehearsal' \in RehearsalState
        /\ rehearsal'.place = place /\ rehearsal'.created = rehearsal.created
        /\ rehearsal'.restored = rehearsal.restored /\ rehearsal'.first = rehearsal.first
        /\ rehearsal'.second = rehearsal.second /\ rehearsal'.status = status
    BY <1>1, <1>4 DEF RehearsalTypes, RehearsalState, Databases, Outputs, Ending
  <1>6. RehearsalTypes'
    BY <1>1, <1>2, <1>3, <1>5 DEF RehearsalTypes
  <1>7. MadeInv' /\ RestoredInv'
    BY <1>5 DEF MadeInv, RestoredInv, Looked, Trying
  <1>8. DecidedInv'
    BY <1>2, <1>4, <1>5 DEF RehearsalInv, DecidedInv, Attested, Ending
  <1> QED
    BY <1>2, <1>6, <1>7, <1>8 DEF RehearsalInv, LeavesTheirs

LEMMA RehearsalKeeps ==
  ASSUME RehearsalInv, RehearsalStep
  PROVE  RehearsalInv' /\ LeavesTheirs
  <1>1. RehearsalTypes
    BY DEF RehearsalInv
  <1>2. ASSUME rehearsal' = NotStarted \/ rehearsal' = [NotStarted EXCEPT !.place = "validate"],
               UNCHANGED <<backup, schema, verdict>>
        PROVE  RehearsalInv' /\ LeavesTheirs
    <2>1. /\ rehearsal' \in RehearsalState
          /\ rehearsal'.place \in {"idle", "validate"} /\ rehearsal'.created = {}
          /\ rehearsal'.status = "INCOMPLETE"
      <3>1. CASE rehearsal' = NotStarted
        BY <3>1 DEF RehearsalState, NotStarted, Looked, Contents, Verdicts
      <3>2. CASE rehearsal' = [NotStarted EXCEPT !.place = "validate"]
        BY <3>2 DEF RehearsalState, NotStarted, Looked, Contents, Verdicts
      <3> QED
        BY <1>2, <3>1, <3>2
    <2>2. RehearsalTypes'
      BY <1>1, <1>2, <2>1 DEF RehearsalTypes
    <2> QED
      BY <1>2, <2>1, <2>2 DEF RehearsalInv, MadeInv, RestoredInv, DecidedInv, LeavesTheirs, Trying
  <1>3. CASE StartRehearsal
    BY <1>2, <1>3 DEF StartRehearsal
  <1>4. CASE RehearsalDies
    BY <1>2, <1>4 DEF RehearsalDies
  <1>5. CASE ValidateInputs
    BY <1>5, RehearsalLooks DEF ValidateInputs, During, Looked, Ending
  <1>6. CASE CheckBothAbsent
    BY <1>6, RehearsalLooks DEF CheckBothAbsent, During, Looked, Ending
  <1>7. ASSUME GiveUp, Keeps, rehearsal.place \in {"create_source", "create_target"}
        PROVE  RehearsalInv' /\ LeavesTheirs
    BY <1>7, RehearsalLooks DEF GiveUp, Looked, Ending
  <1>8. CASE CreateSource
    BY <1>7, <1>8, MakesOne DEF CreateSource, Create, During, Disposable
  <1>9. CASE CreateEmptyTarget
    BY <1>7, <1>9, MakesOne DEF CreateEmptyTarget, Create, During, Disposable
  <1>10. CASE DropTarget
    <2>1. CASE "target" \in rehearsal.created
      BY <1>10, <2>1, DropsOne DEF DropTarget, DropOwn, During, Disposable
    <2>2. CASE "target" \notin rehearsal.created
      BY <1>10, <2>2, RehearsalLooks DEF DropTarget, DropOwn, During, Ending
    <2> QED
      BY <2>1, <2>2
  <1>11. CASE DropSource
    <2>1. CASE "source" \in rehearsal.created
      BY <1>11, <2>1, DropsOne DEF DropSource, DropOwn, During, Disposable
    <2>2. CASE "source" \notin rehearsal.created
      BY <1>11, <2>2, RehearsalLooks DEF DropSource, DropOwn, During, Ending
    <2> QED
      BY <2>1, <2>2
  <1> QED
    BY <1>3, <1>4, <1>5, <1>6, <1>8, <1>9, <1>10, <1>11, TriesStep, WritesStep DEF RehearsalStep

LEMMA RehearsalInvStep == RehearsalInv /\ [RehearsalNext]_rehearsalVars => RehearsalInv'
  <1> SUFFICES ASSUME RehearsalInv, [RehearsalNext]_rehearsalVars PROVE RehearsalInv'
    OBVIOUS
  <1>1. RehearsalTypes
    BY DEF RehearsalInv
  <1>2. CASE UNCHANGED rehearsalVars
    BY <1>2 DEF rehearsalVars, RehearsalInv, RehearsalTypes, MadeInv, RestoredInv, DecidedInv, Attested
  <1>3. ASSUME NEW n \in Disposable, SomebodyTakes(n)
        PROVE  RehearsalInv'
    <2>1. /\ schema[n].owner = Nil /\ UNCHANGED <<backup, rehearsal, verdict>>
          /\ schema' = [schema EXCEPT ![n] = [owner |-> "operator", holds |-> "theirs"]]
      BY <1>3 DEF SomebodyTakes, Absent
    <2>2. /\ schema' \in Databases
          /\ schema'[n].owner = "operator" /\ \A m \in Disposable \ {n} : schema'[m] = schema[m]
      BY <1>1, <2>1 DEF RehearsalTypes, RehearsalState, Databases, Outputs, Contents
    <2>3. \A m \in Disposable : /\ schema[m].owner = "rehearsal" => schema'[m] = schema[m]
                                /\ schema'[m].owner = "rehearsal" => schema[m].owner = "rehearsal"
      BY <2>1, <2>2, NilAssumption
    <2>4. RehearsalTypes'
      BY <1>1, <2>1, <2>2 DEF RehearsalTypes
    <2>5. MadeInv'
      BY <2>1, <2>3 DEF RehearsalInv, MadeInv, Disposable
    <2>6. RestoredInv'
      BY <2>1, <2>3 DEF RehearsalInv, MadeInv, RestoredInv, Attested, Disposable, Trying
    <2>7. DecidedInv'
      BY <2>1, <2>3 DEF RehearsalInv, DecidedInv, Attested, Disposable
    <2> QED
      BY <2>4, <2>5, <2>6, <2>7 DEF RehearsalInv
  <1>4. CASE SomebodyReplacesDump
    <2>1. UNCHANGED <<schema, rehearsal, verdict>> /\ backup' = [backup EXCEPT !.holds = "newer", !.replaced = TRUE]
      BY <1>4 DEF SomebodyReplacesDump
    <2>2. backup'.replaced = TRUE /\ RehearsalTypes'
      BY <1>1, <2>1 DEF RehearsalTypes
    <2> QED
      BY <2>1, <2>2 DEF RehearsalInv, MadeInv, RestoredInv, DecidedInv, Attested
  <1> QED
    BY <1>2, <1>3, <1>4, RehearsalKeeps DEF RehearsalNext

-----------------------------------------------------------------------------
(* What the migration promises *)

MigrationInv == LegacyInv /\ LaneInv /\ RehearsalInv

LEMMA MigrationInvariant == MigrationSpec => []MigrationInv
  <1>1. MigrationInit => MigrationInv
    BY Beginnings, LegacyInit, LaneBegins, RehearsalBegins DEF MigrationInv
  <1>2. MigrationInv /\ [MigrationNext]_migrationVars => MigrationInv'
    BY Parts, LegacyInvStep, LaneInvStep, RehearsalInvStep DEF MigrationInv
  <1> QED
    BY <1>1, <1>2, PTL DEF MigrationSpec

(* A Legacy migration publishes every project from one snapshot of the live *)
(* source or none, each scan sealed, complete and with a file state of its  *)
(* own data version, wherever earlier runs into the same target crashed and *)
(* whatever reviewers changed in between (the final transaction of          *)
(* migrate_legacy).                                                         *)
THEOREM OneSnapshot == MigrationSpec => []PublishedIsOneSnapshot
  <1>1. MigrationInv => PublishedIsOneSnapshot
    BY DEF MigrationInv, LegacyInv, CopyInv
  <1> QED
    BY <1>1, MigrationInvariant, PTL

(* A Legacy run may be resumed at any point: a COMPLETED checkpoint has its *)
(* rows and its provenance, and no gate turns a later run on the same       *)
(* target away unless the source was edited or the target is not the        *)
(* migration's (assert_empty_vnext_target, the zero-loss gate, the          *)
(* predecessor check of the publication).                                   *)
THEOREM Resumable == MigrationSpec => []ResumeIsSound
  <1>1. MigrationInv => ResumeIsSound
    BY DEF MigrationInv, LegacyInv, CopyInv, ResumeInv, ResumeIsSound
  <1> QED
    BY <1>1, MigrationInvariant, PTL

(* A run that ends FAILED without naming a residue has dropped the database *)
(* it created and taken its grant back, and a rehearsal that reports PASSED *)
(* has dropped both of its databases (disposable_target.py, and the finally *)
(* clause of run_verified_backup_rehearsal.py).                             *)
THEOREM NothingLeft == MigrationSpec => []LeavesNothing
  <1>1. LaneInv => NoSilentResidue
    BY DEF LaneInv, UndoInv
  <1>2. RehearsalInv => PassedIsClean
    <2> SUFFICES ASSUME RehearsalInv, During("done"), verdict.output = "PASSED",
                        NEW n \in rehearsal.created
                 PROVE  schema[n].owner # "rehearsal"
      BY DEF PassedIsClean
    <2>1. n \in Disposable
      BY DEF RehearsalInv, RehearsalTypes, RehearsalState
    <2> QED
      BY <2>1 DEF RehearsalInv, DecidedInv, During, Disposable
  <1>3. MigrationInv => LeavesNothing
    BY <1>1, <1>2 DEF MigrationInv, LeavesNothing
  <1> QED
    BY <1>3, MigrationInvariant, PTL

(* A rehearsal that reports PASSED migrated what it restored, twice alike,  *)
(* and that is the attested backup unless somebody replaced the dump        *)
(* between the hash and the restore (_validate_dump and _restore_dump read  *)
(* the file separately).                                                    *)
THEOREM Rehearsed == MigrationSpec => []PassedIsRehearsed
  <1>1. MigrationInv => PassedIsRehearsed
    BY DEF MigrationInv, RehearsalInv, DecidedInv, Attested, PassedIsRehearsed, During
  <1> QED
    BY <1>1, MigrationInvariant, PTL

(* What a migration reports PASSED is exactly what it read, row by row up to *)
(* the numbering of ids, and a rehearsal that reports PASSED migrated what   *)
(* it restored.                                                              *)
THEOREM MigratedExact == MigrationSpec => []MigratedIsExact
  <1>1. MigrationInit => WitnessInv
    BY Beginnings, WitnessBegins
  <1>2. MigrationInv /\ WitnessInv /\ [MigrationNext]_migrationVars => WitnessInv'
    BY Parts, WitnessStep DEF MigrationInv
  <1>3. MigrationInv /\ WitnessInv => MigratedIsWitness
    BY WitnessKept DEF MigrationInv, LaneInv
  <1>4. MigratedIsWitness /\ PassedIsRehearsed => MigratedIsExact
    BY DEF MigratedIsExact
  <1> QED
    BY <1>1, <1>2, <1>3, <1>4, MigrationInvariant, Rehearsed, PTL DEF MigrationSpec

(* No command writes to a database that is not its own: a target with       *)
(* tables no ledger accounts for, the live source, a database another       *)
(* administrator created under the name the run is about to use, or one     *)
(* made under a name of the rehearsal.                                      *)
THEOREM OthersAreKept == MigrationSpec => OthersKept
  <1>1. MigrationInv /\ [MigrationNext]_migrationVars
           => [(target \in ForeignTargets) => target' = target]_vars
    <2> SUFFICES ASSUME MigrationInv, [MigrationNext]_migrationVars,
                        ~UNCHANGED vars, target \in ForeignTargets
                 PROVE  target' = target
      OBVIOUS
    <2> QED
      BY Parts, ForeignStep DEF MigrationInv
  <1>2. MigrationInv /\ [MigrationNext]_migrationVars
           => [UpgradeStep =>
                  /\ live' = live
                  /\ conf.mode # "supplied" =>
                        \A n \in Names : owner[n] = "operator"
                            => owner'[n] = "operator" /\ data'[n] = data[n]]_laneVars
    BY UpgradeKeeps DEF MigrationInv, KeepsOthers, Supplied
  <1>3. MigrationInv /\ [MigrationNext]_migrationVars
           => [RehearsalStep => \A n \in Disposable :
                  schema[n].owner = "operator" => schema'[n] = schema[n]]_rehearsalVars
    BY RehearsalKeeps DEF MigrationInv, LeavesTheirs
  <1> QED
    BY <1>1, <1>2, <1>3, MigrationInvariant, PTL
       DEF MigrationSpec, OthersKept, ForeignTargetUntouched, OthersDatabasesKept, RehearsalKeepsOthers

==============================================================================
