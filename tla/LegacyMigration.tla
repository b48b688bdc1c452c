--------------------------- MODULE LegacyMigration ---------------------------
(***************************************************************************)
(* scripts/upgrade/migration_runner.py: apply_schema followed by           *)
(* migrate_legacy, the two calls run_upgrade makes for a LEGACY source,    *)
(* run again and again into one target while the source stays in service.  *)
(*                                                                         *)
(* A hash is modelled by the value it is taken of: a file's fragment is    *)
(* its content, a project's fragment the contents of its files, and the    *)
(* migration id ("legacy-v3-" and the semantic hash) the whole snapshot.   *)
(* Each action is one commit on the target, so a crash between any two of  *)
(* them leaves exactly what the database would keep.                       *)
(***************************************************************************)
EXTENDS Naturals, FiniteSets

CONSTANTS Projects, Files, Jobs, Statements,
          MaxEdits, MaxRuns, None

ASSUME ConstantsAssumption ==
    /\ IsFiniteSet(Projects) /\ IsFiniteSet(Files) /\ IsFiniteSet(Jobs)
    /\ Statements \in Nat \ {0} /\ MaxEdits \in Nat /\ MaxRuns \in Nat

(* None is no data version and no state of the schema ledger. *)
ASSUME NoneAssumption ==
    None \notin Nat \cup {"PREFLIGHTED", "STARTED", "FAILED", "APPLIED"}

VARIABLES
    source,   \* the legacy database: file contents, data versions, jobs
    target,   \* the VNext database
    run,      \* the runner process: its place and what it holds in memory
    edits,    \* how often the live source changed
    runs      \* how often the runner was started

vars == <<source, target, run, edits, runs>>

------------------------------------------------------------------------------
(* The source, read through one connection without autocommit: every read  *)
(* of a run sees the snapshot its first read opened.                       *)

Units == Projects \X Files

Content == 0 .. MaxEdits

Source == [file : [Units -> Content], version : [Projects -> Content],
           job : [Jobs -> {"running", "completed"}]]

Fragment(s, p) == [f \in Files |-> s.file[<<p, f>>]]

ScanKey(s, p) == <<p, Fragment(s, p)>>

JobState(state) == IF state = "running" THEN "interrupted" ELSE state

(* The source's contribution to the component legacy_provenance. *)
SourceProvenance(s) ==
    {<<"file", u, s.file[u]>> : u \in Units}
        \cup {<<"project_state", p, s.version[p]>> : p \in Projects}
        \cup {<<"job", j, s.job[j]>> : j \in Jobs}

(* A reviewer saves an analysis through the legacy runtime. *)
EditSource(u) ==
    /\ edits < MaxEdits
    /\ source' = [source EXCEPT !.file[u] = edits + 1,
                                !.version[u[1]] = @ + 1]
    /\ edits' = edits + 1
    /\ UNCHANGED <<target, run, runs>>

(* A background job of the legacy runtime ends. *)
FinishJob(j) ==
    /\ edits < MaxEdits
    /\ source.job[j] = "running"
    /\ source' = [source EXCEPT !.job[j] = "completed"]
    /\ edits' = edits + 1
    /\ UNCHANGED <<target, run, runs>>

------------------------------------------------------------------------------
(* The target. *)

EmptyTarget ==
    [ledger |-> None, marker |-> FALSE, ddl |-> 0,
     version |-> [p \in Projects |-> None],
     building |-> {}, sealed |-> {}, rows |-> {}, domain |-> {},
     provenance |-> {}, job |-> [j \in Jobs |-> None],
     checkpoint |-> {}, fileState |-> [p \in Projects |-> None],
     current |-> [p \in Projects |-> None]]

(* What an operator may supply as a target by mistake: a database in use,   *)
(* or one whose business tables no ledger accounts for.                     *)
ForeignTargets ==
    {[EmptyTarget EXCEPT !.ddl = Statements, !.version = [p \in Projects |-> 0]],
     [EmptyTarget EXCEPT !.ddl = Statements]}

BusinessRows(t) ==
    \/ t.building \cup t.sealed \cup t.rows \cup t.provenance # {}
    \/ \E p \in Projects : t.version[p] # None
    \/ \E j \in Jobs : t.job[j] # None

(* assert_empty_vnext_target *)
AssertEmpty(t) ==
    /\ ~BusinessRows(t)
    /\ t.ddl > 0 => t.ledger \in {"PREFLIGHTED", "STARTED", "FAILED"}

(* assert_applied_vnext_target: the ledger's checksum is the file's. *)
AssertApplied(t) == t.ledger = "APPLIED" /\ t.marker

Accepts(t) == IF t.ledger = "APPLIED" THEN AssertApplied(t) ELSE AssertEmpty(t)

(* A checkpoint names a phase, an entity of it and its semantic fragment.   *)
CheckpointDone(t, id, of) ==
    [id |-> id, of |-> of, state |-> "COMPLETED"] \in t.checkpoint

Checkpoint(t, id, of, state) ==
    {c \in t.checkpoint : ~(c.id = id /\ c.of[1] = of[1] /\ c.of[2] = of[2])}
        \cup {[id |-> id, of |-> of, state |-> state]}

(* _stream_vnext_semantic_contract against the source's descriptor, taken   *)
(* component by component.  Lines are those of EVERY scan in the target,    *)
(* and each component is a multiset: a fact held twice is a difference.     *)
SameLines(t, s) ==
    /\ {<<r.scan[1], r.file, r.content>> : r \in t.rows}
           = {<<u[1], u[2], s.file[u]>> : u \in Units}
    /\ Cardinality(t.rows) = Cardinality(Units)

SameProvenance(t, s) ==
    /\ {p.fact : p \in t.provenance} = SourceProvenance(s)
    /\ Cardinality(t.provenance) = Cardinality(SourceProvenance(s))

SameJobs(t, s) == \A j \in Jobs : t.job[j] = JobState(s.job[j])

SameVersions(t, s) == \A p \in Projects : t.version[p] = s.version[p]

SemanticMatch(t, s) ==
    /\ SameLines(t, s)
    /\ SameProvenance(t, s)
    /\ SameJobs(t, s)
    /\ SameVersions(t, s)

------------------------------------------------------------------------------
(* The runner.  `place` is the statement it is at, `snap` the spooled       *)
(* source, `todo` what is left of the loop it is in.                        *)

Idle == [place |-> "idle", snap |-> None, todo |-> {}, project |-> None]

Terminal == {"PASSED", "FAILED", "REFUSED", "SCHEMA_FAILED"}

At(place) == run.place = place

(* The sorted orders the loops use: any fixed order will do. *)
First(S) == CHOOSE x \in S : TRUE

Goto(place) == run' = [run EXCEPT !.place = place]

Commit(t) ==
    /\ target' = t
    /\ UNCHANGED <<source, edits, runs>>

Stop(place) ==
    /\ run' = [Idle EXCEPT !.place = place]
    /\ UNCHANGED <<source, target, edits, runs>>

(* A run starts on a fresh target, after a crash, or again after an end.    *)
Begin ==
    /\ run.place \in {"idle"} \cup Terminal
    /\ runs < MaxRuns
    /\ runs' = runs + 1
    /\ run' = [Idle EXCEPT !.place = "preflight"]
    /\ UNCHANGED <<source, target, edits>>

(* The process dies: what it held in memory is gone, the open transaction  *)
(* is rolled back.                                                         *)
Crash ==
    /\ run.place \notin {"idle"} \cup Terminal
    /\ runs < MaxRuns
    /\ Stop("idle")

------------------------------------------------------------------------------
(* apply_schema *)

Preflight ==
    /\ At("preflight")
    /\ \/ /\ Accepts(target)
          /\ Commit(target)
          /\ Goto(IF target.ledger = "APPLIED" THEN "read" ELSE "ledger")
       \/ ~Accepts(target) /\ Stop("REFUSED")

(* The ledger exists before the first business table does. *)
RecordPreflight ==
    /\ At("ledger")
    /\ Commit([target EXCEPT !.ledger = "PREFLIGHTED"])
    /\ Goto("start")

StartSchema ==
    /\ At("start")
    /\ Commit([target EXCEPT !.ledger = "STARTED"])
    /\ run' = [run EXCEPT !.place = "ddl", !.todo = 1 .. Statements]

(* MariaDB commits every statement by itself; each is IF NOT EXISTS. *)
RunStatement ==
    /\ At("ddl") /\ run.todo # {}
    /\ LET k == Statements + 1 - Cardinality(run.todo)
       IN  /\ Commit([target EXCEPT !.ddl = IF k > @ THEN k ELSE @])
           /\ run' = [run EXCEPT !.todo = @ \ {k}]

StatementFails ==
    /\ At("ddl")
    /\ runs < MaxRuns
    /\ Commit([target EXCEPT !.ledger = "FAILED"])
    /\ run' = [Idle EXCEPT !.place = "SCHEMA_FAILED"]

MarkApplied ==
    /\ At("ddl") /\ run.todo = {}
    /\ Commit([target EXCEPT !.ledger = "APPLIED", !.marker = TRUE])
    /\ Goto("read")

ApplySchema ==
    \/ Preflight
    \/ RecordPreflight
    \/ StartSchema
    \/ RunStatement
    \/ StatementFails
    \/ MarkApplied

------------------------------------------------------------------------------
(* migrate_legacy *)

(* One pass spools the snapshot and takes its semantic hash. *)
ReadSource ==
    /\ At("read")
    /\ run' = [run EXCEPT !.place = "projects", !.snap = source, !.todo = Projects]
    /\ UNCHANGED <<source, target, edits, runs>>

ScanOf(p) == ScanKey(run.snap, p)

(* Provenance rows are keyed by migration id, entity and source identity. *)
UpsertProvenance(fact) == target.provenance \cup {[id |-> run.snap, fact |-> fact]}

(* setup_project: create_scan finds a scan of the same fragment, and        *)
(* state_repo.ensure leaves an existing project state as it is.             *)
SetupProject ==
    /\ At("projects") /\ run.todo # {}
    /\ LET p == First(run.todo)
           new == ScanOf(p) \notin target.sealed
       IN  /\ Commit([target EXCEPT
                  !.building = IF new THEN @ \cup {ScanOf(p)} ELSE @,
                  !.version[p] = IF new /\ @ = None THEN run.snap.version[p] ELSE @])
           /\ run' = [run EXCEPT !.place = "files", !.project = p,
                                 !.todo = @ \ {p}]

FileFact(p, f) == <<"file", <<p, f>>, run.snap.file[<<p, f>>]>>

FilesLeft == {f \in Files : ~CheckpointDone(target, run.snap, FileFact(run.project, f))}

(* Mutant: the checkpoint is committed before the rows are written. *)
PersistCheckpointOnly ==
    /\ At("files") /\ FilesLeft # {}
    /\ ScanOf(run.project) \in target.building
    /\ LET fact == FileFact(run.project, First(FilesLeft))
       IN  Commit([target EXCEPT
               !.checkpoint = Checkpoint(target, run.snap, fact, "COMPLETED")])
    /\ UNCHANGED run

(* _persist_legacy_context and the checkpoint, in one transaction.          *)
PersistFile ==
    /\ At("files") /\ FilesLeft # {}
    /\ ScanOf(run.project) \in target.building
    /\ LET p == run.project
           f == First(FilesLeft)
           row == [scan |-> ScanOf(p), file |-> f, content |-> run.snap.file[<<p, f>>]]
       IN  Commit([target EXCEPT
               !.rows = @ \cup {row},
               !.provenance = UpsertProvenance(FileFact(p, f)),
               !.checkpoint = Checkpoint(target, run.snap, FileFact(p, f), "COMPLETED")])
    /\ UNCHANGED run

(* ensure_files refuses a scan that is sealed: the run raises. *)
SealedScanRefused ==
    /\ At("files") /\ FilesLeft # {}
    /\ ScanOf(run.project) \notin target.building
    /\ Stop("FAILED")

ProjectFact(p) == <<"project", p, Fragment(run.snap, p)>>

(* The project's provenance and its READY_TO_PUBLISH checkpoint. *)
ProjectReady ==
    /\ At("files") /\ FilesLeft = {}
    /\ LET p == run.project
       IN  Commit([target EXCEPT
               !.provenance = UpsertProvenance(<<"project_state", p, run.snap.version[p]>>),
               !.checkpoint = Checkpoint(target, run.snap, ProjectFact(p),
                                         "READY_TO_PUBLISH")])
    /\ run' = [run EXCEPT !.place = "projects"]

BeginJobs ==
    /\ At("projects") /\ run.todo = {}
    /\ run' = [run EXCEPT !.place = "jobs", !.project = None]
    /\ UNCHANGED <<source, target, edits, runs>>

JobFact(j) == <<"job", j, run.snap.job[j]>>

JobsLeft == {j \in Jobs : ~CheckpointDone(target, run.snap, JobFact(j))}

(* Active legacy work becomes interrupted; it is never queued again. *)
RestoreJob ==
    /\ At("jobs") /\ JobsLeft # {}
    /\ LET j == First(JobsLeft)
       IN  Commit([target EXCEPT
               !.job[j] = JobState(run.snap.job[j]),
               !.provenance = UpsertProvenance(JobFact(j)),
               !.checkpoint = Checkpoint(target, run.snap, JobFact(j), "COMPLETED")])
    /\ UNCHANGED run

(* apply_analysis_domain: backfill every row, then audit the backfill. *)
AnalysisDomain ==
    /\ At("jobs") /\ JobsLeft = {}
    /\ Commit([target EXCEPT !.domain = target.rows])
    /\ Goto("gate")

SemanticGate ==
    /\ At("gate")
    /\ \/ /\ SemanticMatch(target, run.snap)
          /\ run' = [run EXCEPT !.place = "filestate", !.todo = Projects]
          /\ UNCHANGED <<source, target, edits, runs>>
       \/ ~SemanticMatch(target, run.snap) /\ Stop("FAILED")

(* rebuild_validate_and_mark_ready and the explicit conditions. *)
FileStateReady ==
    /\ At("filestate") /\ run.todo # {}
    /\ LET p == First(run.todo)
       IN  /\ Commit([target EXCEPT
                  !.fileState[p] = run.snap.version[p],
                  !.checkpoint = Checkpoint(target, run.snap, ProjectFact(p),
                                            "READY_TO_PUBLISH")])
           /\ run' = [run EXCEPT !.todo = @ \ {p}]

(* The final transaction: every project is sealed and made CURRENT, or none *)
(* is.  A project with another CURRENT fails PREDECESSOR_MISMATCH.          *)
MayPublish == \A p \in Projects : target.current[p] \in {None, ScanOf(p)}

(* Mutant: a transaction for each project. *)
PublishedOne(t) ==
    LET p == First(Projects)
    IN  [t EXCEPT !.sealed = @ \cup {ScanOf(p)}, !.building = @ \ {ScanOf(p)},
                  !.current[p] = ScanOf(p)]

Published(t) ==
    [t EXCEPT
        !.sealed = @ \cup {ScanOf(p) : p \in Projects},
        !.building = @ \ {ScanOf(p) : p \in Projects},
        !.current = [p \in Projects |-> ScanOf(p)],
        !.checkpoint = {c \in @ : ~(c.id = run.snap /\ c.of[1] = "project")}
            \cup {[id |-> run.snap, of |-> ProjectFact(p), state |-> "PUBLISHED"] :
                  p \in Projects}]

Publish ==
    /\ At("filestate") /\ run.todo = {}
    /\ Commit(IF MayPublish THEN Published(target) ELSE target)
    /\ run' = [Idle EXCEPT !.place = IF MayPublish THEN "PASSED" ELSE "FAILED"]

MigrateLegacy ==
    \/ ReadSource
    \/ SetupProject
    \/ PersistFile
    \/ SealedScanRefused
    \/ ProjectReady
    \/ BeginJobs
    \/ RestoreJob
    \/ AnalysisDomain
    \/ SemanticGate
    \/ FileStateReady
    \/ Publish

------------------------------------------------------------------------------
Init ==
    /\ source = [file |-> [u \in Units |-> 0], version |-> [p \in Projects |-> 0],
                 job |-> [j \in Jobs |-> "running"]]
    /\ target \in {EmptyTarget} \cup ForeignTargets
    /\ run = Idle
    /\ edits = 0
    /\ runs = 0

Runner == ApplySchema \/ MigrateLegacy

Next ==
    \/ \E u \in Units : EditSource(u)
    \/ \E j \in Jobs : FinishJob(j)
    \/ Begin
    \/ Crash
    \/ Runner

(* The operator's process runs to its end once started. *)
Spec == Init /\ [][Next]_vars /\ WF_vars(Runner)

------------------------------------------------------------------------------
(* Every variable ranges over its type. *)
Rows ==
    [scan : Projects \X [Files -> Content], file : Files, content : Content]

TypeOK ==
    /\ source \in Source
    /\ target.ledger \in {None, "PREFLIGHTED", "STARTED", "FAILED", "APPLIED"}
    /\ target.marker \in BOOLEAN /\ target.ddl \in 0 .. Statements
    /\ target.rows \subseteq Rows /\ target.domain \subseteq target.rows
    /\ target.building \cap target.sealed = {}
    /\ run.snap # None => run.snap \in Source
    /\ edits \in 0 .. MaxEdits /\ runs \in 0 .. MaxRuns

(* A checkpoint is never ahead of its rows: whatever a crash interrupts,    *)
(* a COMPLETED file or job of a migration has its business rows and its     *)
(* provenance in the target (the transactions of 3893-3905 and 3940-3984).  *)
CheckpointIsTrue ==
    \A c \in target.checkpoint :
        c.state = "COMPLETED" =>
            /\ [id |-> c.id, fact |-> c.of] \in target.provenance
            /\ c.of[1] = "file" =>
                  \E r \in target.rows :
                      /\ r.scan = ScanKey(c.id, c.of[2][1])
                      /\ r.file = c.of[2][2] /\ r.content = c.of[3]

(* Nothing is half published: as soon as one project has a CURRENT scan,    *)
(* every project has, all from one snapshot of the live source, and each    *)
(* scan is sealed and holds all of that snapshot's files, with the          *)
(* snapshot's data version and a file state of that version.                *)
PublishedFrom(s) ==
    \A p \in Projects :
        /\ target.current[p] = ScanKey(s, p)
        /\ ScanKey(s, p) \in target.sealed
        /\ \A f \in Files : \E r \in target.domain :
               r.scan = ScanKey(s, p) /\ r.file = f /\ r.content = s.file[<<p, f>>]
        /\ target.version[p] = s.version[p]
        /\ target.fileState[p] = s.version[p]

PublishedIsOneSnapshot ==
    \/ target.sealed = {} /\ \A p \in Projects : target.current[p] = None
    \/ \E c \in target.checkpoint : c.of[1] = "project" /\ PublishedFrom(c.id)

(* Resuming cannot wedge: however often the runner crashed or a DDL         *)
(* statement failed, no gate of a later run on the same target (the empty   *)
(* target gate, the sealed scan, the zero-loss gate, the publication's      *)
(* predecessor check) turns it away unless the source itself has changed.   *)
UnchangedSourceNeverRefused ==
    run.place \in {"FAILED", "REFUSED"} => edits > 0 \/ target \in ForeignTargets

(* Both: a run may be resumed at any point, and resumes where it stopped.   *)
ResumeIsSound == CheckpointIsTrue /\ UnchangedSourceNeverRefused

(* A database in use, or one whose tables no ledger accounts for, is never  *)
(* written to (assert_empty_vnext_target).                                  *)
ForeignTargetUntouched ==
    [][(target \in ForeignTargets) => target' = target]_vars
==============================================================================
