------------------------ MODULE LegacyRuntimeProofs ------------------------
(***************************************************************************)
(* What the legacy runtime promises for any number of files, reviewers,    *)
(* jobs, injections, failures and restarts.                                *)
(***************************************************************************)
EXTENDS LegacyRuntime, TLAPS

-----------------------------------------------------------------------------
(* The facts and their aggregate *)

SaverState == [pc : {"idle", "wrote", "advanced", "rebuilt"}, file : Files \union {None}, ver : Nat]
InjectorState == [pc : {"idle", "sync", "increment", "rebuild"}, todo : SUBSET Files,
                  active : SUBSET Files, ver : Nat]

FactTypes ==
    /\ dv \in Nat /\ fsv \in Nat /\ idx \in [Files -> Nat]
    /\ cache \in Nat \union {None} /\ polled \in Nat \union {None}
    /\ saver \in [Savers -> SaverState] /\ inj \in InjectorState

(* A row of the project state that is not there has no marker, and rows at  *)
(* the version the marker names are those of the facts.                     *)
FactInv ==
    /\ FactTypes
    /\ dv = 0 => fsv = 0
    /\ AggregateReady => fs = Derived(dv, idx, ana)

LEMMA FactsBegin == Init => FactInv
  <1> SUFFICES ASSUME Init PROVE FactInv
    OBVIOUS
  <1>1. FactTypes
    BY DEF Init, FactTypes, Idle, SaverState, Resting, InjectorState
  <1> QED
    BY <1>1 DEF Init, FactInv

LEMMA MarkerIs ==
  ASSUME NEW v \in Nat, NEW i
  PROVE  Marker(v, i) \in {v, 0}
  BY DEF Marker

(* Steps that leave the facts and their aggregate alone. *)
LEMMA FactsAlone ==
  ASSUME FactInv, FactTypes', UNCHANGED facts
  PROVE  FactInv'
  <1>1. UNCHANGED <<dv, fsv, idx, ana, fs>>
    BY DEF facts
  <1> QED
    BY <1>1 DEF FactInv, AggregateReady, Derived

(* Steps that take the marker away: nothing is ready after them. *)
LEMMA FactsStale ==
  ASSUME FactTypes', fsv' = 0
  PROVE  FactInv'
  BY DEF FactInv, AggregateReady, FactTypes

LEMMA SaveFacts ==
  ASSUME FactInv, NEW s \in Savers, Save(s)
  PROVE  FactInv'
  <1>1. FactTypes
    BY DEF FactInv
  <1>2. CASE \E f \in Files : SaveRecord(s, f)
    <2>1. PICK f \in Files : SaveRecord(s, f)
      BY <1>2
    <2>2. [pc |-> "wrote", file |-> f, ver |-> 0] \in SaverState
      BY DEF SaverState
    <2>3. FactTypes' /\ UNCHANGED facts
      BY <1>1, <2>1, <2>2 DEF SaveRecord, FactTypes, facts
    <2> QED
      BY <2>3, FactsAlone
  <1>3. CASE AdvanceVersion(s)
    <2>1. /\ saver' = [saver EXCEPT ![s].pc = "advanced", ![s].ver = dv + 1]
          /\ UNCHANGED <<facts, cache, polled, inj>>
      BY <1>3 DEF AdvanceVersion
    <2>2. PICK r : r = [saver[s] EXCEPT !.pc = "advanced", !.ver = dv + 1]
      OBVIOUS
    <2>3. saver[s] \in SaverState /\ dv + 1 \in Nat
      BY <1>1 DEF FactTypes
    <2>4. r \in SaverState
      BY <2>2, <2>3 DEF SaverState
    <2>5. saver' = [saver EXCEPT ![s] = r]
      BY <1>1, <2>1, <2>2, <2>3 DEF FactTypes, SaverState
    <2>6. saver' \in [Savers -> SaverState]
      BY <1>1, <2>4, <2>5 DEF FactTypes
    <2> QED
      BY <1>1, <2>1, <2>6, FactsAlone DEF FactTypes, facts
  <1>4. CASE RebuildInPlace(s)
    <2>1. /\ saver' = [saver EXCEPT ![s].pc = "rebuilt"] /\ cache' = saver[s].ver
          /\ UNCHANGED <<facts, polled, inj>>
      BY <1>4 DEF RebuildInPlace
    <2>2. saver' \in [Savers -> SaverState] /\ cache' \in Nat
      BY <1>1, <2>1 DEF FactTypes, SaverState
    <2> QED
      BY <1>1, <2>1, <2>2, FactsAlone DEF FactTypes, facts
  <1>5. CASE CommitSave(s)
    <2>1. saver[s].ver \in Nat
      BY <1>1 DEF FactTypes, SaverState
    <2>2. /\ dv' = saver[s].ver /\ fsv' = Marker(saver[s].ver, idx) /\ ana' = Saved(s)
          /\ fs' = Derived(saver[s].ver, idx, Saved(s))
          /\ saver' = [saver EXCEPT ![s] = Idle] /\ UNCHANGED <<idx, cache, polled, inj>>
      BY <1>5 DEF CommitSave
    <2>3. fsv' \in {saver[s].ver, 0}
      BY <2>1, <2>2, MarkerIs
    <2>4. FactTypes'
      BY <1>1, <2>1, <2>2, <2>3 DEF FactTypes, Idle, SaverState
    <2>5. fs' = Derived(dv', idx', ana')
      BY <2>2
    <2> QED
      BY <2>2, <2>3, <2>4, <2>5 DEF FactInv
  <1>6. ASSUME NEW t \in Savers, Rollback(t), UNCHANGED <<facts, cache, polled, inj>>
        PROVE  FactInv'
    <2>1. saver' \in [Savers -> SaverState]
      BY <1>1, <1>6 DEF Rollback, FactTypes, Idle, SaverState
    <2> QED
      BY <1>1, <1>6, <2>1, FactsAlone DEF FactTypes, facts
  <1>7. CASE SaveFails(s)
    BY <1>6, <1>7 DEF SaveFails
  <1>8. CASE \E t \in Savers : SaveDeadlock(s, t)
    BY <1>6, <1>8 DEF SaveDeadlock
  <1> QED
    BY <1>2, <1>3, <1>4, <1>5, <1>7, <1>8 DEF Save

LEMMA InjectFacts ==
  ASSUME FactInv, Inject
  PROVE  FactInv'
  <1>1. FactTypes
    BY DEF FactInv
  <1>2. CASE \E report \in SUBSET Files : InjectStart(report)
    <2>1. PICK report \in SUBSET Files : InjectStart(report)
      BY <1>2
    <2>2. inj' \in InjectorState
      BY <2>1 DEF InjectStart, InjectorState
    <2> QED
      BY <1>1, <2>1, <2>2, FactsStale DEF InjectStart, MarkStale, FactTypes
  <1>3. CASE \E f \in Files, uncovered \in BOOLEAN : SyncLineIndex(f, uncovered)
    <2>1. PICK f \in Files, uncovered \in BOOLEAN : SyncLineIndex(f, uncovered)
      BY <1>3
    <2>2. inj' \in InjectorState
      BY <1>1, <2>1 DEF SyncLineIndex, FactTypes, InjectorState
    <2>3. idx' \in [Files -> Nat]
      BY <1>1, <2>1 DEF SyncLineIndex, FactTypes
    <2> QED
      BY <1>1, <2>1, <2>2, <2>3, FactsStale DEF SyncLineIndex, MarkStale, FactTypes
  <1>4. CASE \E f \in Files : SyncSkipped(f)
    <2>1. PICK f \in Files : SyncSkipped(f)
      BY <1>4
    <2>2. inj' \in InjectorState
      BY <1>1, <2>1 DEF SyncSkipped, FactTypes, InjectorState
    <2> QED
      BY <1>1, <2>1, <2>2, FactsAlone DEF SyncSkipped, FactTypes, facts
  <1>5. CASE PruneLineIndex
    <2>1. inj' \in InjectorState
      BY <1>1, <1>5 DEF PruneLineIndex, FactTypes, InjectorState
    <2>2. idx' \in [Files -> Nat]
      BY <1>1, <1>5 DEF PruneLineIndex, FactTypes
    <2> QED
      BY <1>1, <1>5, <2>1, <2>2, FactsStale DEF PruneLineIndex, MarkStale, FactTypes
  <1>6. CASE IncrementVersion
    <2>1. inj' \in InjectorState
      <3>1. inj \in InjectorState /\ dv + 1 \in Nat
        BY <1>1 DEF FactTypes
      <3>2. inj' = [inj EXCEPT !.pc = "rebuild", !.ver = dv + 1]
        BY <1>6 DEF IncrementVersion
      <3> QED
        BY <3>1, <3>2 DEF InjectorState
    <2> QED
      BY <1>1, <1>6, <2>1, FactsStale DEF IncrementVersion, FactTypes
  <1>7. CASE RebuildProjectFileState
    <2>1. /\ fs' = Derived(inj.ver, idx, ana) /\ inj' = Resting
          /\ IF dv = inj.ver THEN fsv' = Marker(dv, idx) ELSE fsv' \in {fsv, 0}
          /\ UNCHANGED <<idx, ana, dv, cache, polled, saver>>
      BY <1>7 DEF RebuildProjectFileState
    <2>2. fsv' \in {dv, fsv, 0}
      BY <1>1, <2>1, MarkerIs DEF FactTypes
    <2>3. FactTypes'
      BY <1>1, <2>1, <2>2 DEF FactTypes, Resting, InjectorState
    <2>4. dv' = 0 => fsv' = 0
      BY <2>1, <2>2 DEF FactInv
    <2>5. ASSUME AggregateReady'
          PROVE  dv = inj.ver
      <3>1. PICK f \in Files : fs'[f] # None /\ fs'[f].ver = dv
        BY <2>1, <2>5 DEF AggregateReady
      <3>2. fs'[f] = [ver |-> inj.ver, idx |-> idx[f], ana |-> ana[f]]
        BY <2>1, <3>1 DEF Derived
      <3> QED
        BY <3>1, <3>2
    <2> QED
      BY <2>1, <2>3, <2>4, <2>5 DEF FactInv
  <1>8. CASE InjectAbandoned
    <2>1. inj' \in InjectorState
      BY <1>8 DEF InjectAbandoned, Resting, InjectorState
    <2> QED
      BY <1>1, <1>8, <2>1, FactsAlone DEF InjectAbandoned, FactTypes, facts
  <1> QED
    BY <1>2, <1>3, <1>4, <1>5, <1>6, <1>7, <1>8 DEF Inject

(* A version that is read may insert the missing row; the marker is 0 then. *)
LEMMA VersionFacts ==
  ASSUME FactInv, GetVersion, UNCHANGED <<polled, saver, inj>>
  PROVE  FactInv' /\ Version \in Nat
  <1>1. FactTypes
    BY DEF FactInv
  <1>2. Version \in Nat
    BY <1>1 DEF Version, FactTypes
  <1>3. FactTypes'
    BY <1>1, <1>2 DEF GetVersion, FactTypes
  <1>4. CASE cache = None /\ dv = 0
    <2>1. fsv' = 0
      BY <1>4 DEF FactInv, GetVersion
    <2> QED
      BY <1>2, <1>3, <2>1, FactsStale
  <1>5. CASE ~(cache = None /\ dv = 0)
    <2>1. UNCHANGED facts
      BY <1>5 DEF GetVersion, facts
    <2> QED
      BY <1>2, <1>3, <2>1, FactsAlone
  <1> QED
    BY <1>4, <1>5

LEMMA JobFacts ==
  ASSUME FactInv, NEW j \in JobIds, Job(j)
  PROVE  FactInv' /\ UNCHANGED <<polled, saver, inj>>
  <1>1. UNCHANGED <<polled, saver, inj>>
    BY DEF Job, Work, StartJob, SubmitJob, RunJob, UpdateJob, ReadFacts, ReplacePart, FinishCompleted,
           FinishFailed, CancelJob, ExecutorRecords, ReadFails, PollJob, RetireJob, RetireRow
  <1>2. GetVersion \/ UNCHANGED <<facts, cache>>
    BY DEF Job, Work, StartJob, SubmitJob, RunJob, UpdateJob, ReadFacts, ReplacePart, FinishCompleted,
           FinishFailed, CancelJob, ExecutorRecords, ReadFails, PollJob, RetireJob, RetireRow
  <1>3. CASE UNCHANGED <<facts, cache>>
    BY <1>1, <1>3, FactsAlone DEF FactInv, FactTypes, facts
  <1> QED
    BY <1>1, <1>2, <1>3, VersionFacts

LEMMA FactStep == FactInv /\ [Next]_vars => FactInv'
  <1> SUFFICES ASSUME FactInv, [Next]_vars PROVE FactInv'
    OBVIOUS
  <1>1. FactTypes
    BY DEF FactInv
  <1>2. CASE UNCHANGED vars
    BY <1>1, <1>2, FactsAlone DEF vars, facts, FactTypes
  <1>3. CASE CacheExpires \/ PollReads \/ PollStores
    BY <1>1, <1>3, FactsAlone DEF CacheExpires, PollReads, PollStores, facts, FactTypes
  <1>4. CASE Restart
    <2>1. UNCHANGED <<facts, inj>> /\ cache' = None /\ polled' = None /\ saver' = [s \in Savers |-> Idle]
      BY <1>4 DEF Restart
    <2>2. saver' \in [Savers -> SaverState]
      BY <2>1 DEF Idle, SaverState
    <2> QED
      BY <1>1, <2>1, <2>2, FactsAlone DEF facts, FactTypes
  <1> QED
    BY <1>2, <1>3, <1>4, SaveFacts, InjectFacts, JobFacts DEF Next

-----------------------------------------------------------------------------
(* The jobs *)

Running == {"queued", "read", "update", "replace", "finish", "fail", "cancel", "returned"}
RunState == [pc : {"none", "new", "done"} \union Running, kind : Kinds \union {None}, ver : Nat,
             reads : Nat]
States == {"queued", "running"} \union Terminal
JobState == [kind : Kinds \union {None}, ver : Nat, st : States, path : BOOLEAN]
RowState == [kind : Kinds \union {None}, ver : Nat, st : States, path : BOOLEAN, old : BOOLEAN,
             fin : BOOLEAN]

JobTypes ==
    /\ run \in [JobIds -> RunState] /\ file \in [JobIds -> SUBSET {"part", "out"}]
    /\ job \in [JobIds -> JobState \union {None}] /\ row \in [JobIds -> RowState \union {None}]

(* The thread r of a job, its entry m in memory, its row w and its files f: *)
(* all three are of one kind and version, and a result is offered only when *)
(* the thread is through and the file is there, or the row is past its time.*)
Agrees(r, m, w, f) ==
    /\ r.pc = "none" => m = None /\ w = None
    /\ r.pc # "none" => r.kind \in Kinds
    /\ m # None => m.kind = r.kind /\ m.ver = r.ver
    /\ w # None => w.kind = r.kind /\ w.ver = r.ver
    /\ (m # None /\ m.path) => r.pc \in {"returned", "done"} /\ "out" \in f
    /\ (w # None /\ w.path) => /\ r.pc \in {"returned", "done"} /\ w.st = "completed"
                               /\ w.old \/ "out" \in f
    /\ (r.pc = "finish" /\ r.kind # "progress") => "out" \in f

JobInv ==
    /\ JobTypes
    /\ \A j \in JobIds : Agrees(run[j], job[j], row[j], file[j])
    /\ OneRunnerPerType

LEMMA JobsBegin == Init => JobInv
  <1> SUFFICES ASSUME Init PROVE JobInv
    OBVIOUS
  <1>1. NoRun \in RunState /\ NoRun.pc = "none"
    BY DEF NoRun, RunState
  <1>2. JobTypes
    BY <1>1 DEF Init, JobTypes
  <1>3. \A j \in JobIds : run[j] = NoRun /\ job[j] = None /\ row[j] = None
    BY DEF Init
  <1> QED
    BY <1>1, <1>2, <1>3 DEF JobInv, Agrees, OneRunnerPerType, Working

LEMMA WorkingIs ==
  ASSUME JobTypes, NEW j \in JobIds
  PROVE  run[j] \in RunState /\ (Working(j) <=> run[j].pc \in Running)
  <1>1. run[j] \in RunState
    BY DEF JobTypes
  <1> QED
    BY <1>1 DEF Working, RunState, Running

(* A step of one job. *)
LEMMA OneJob ==
  ASSUME JobInv, NEW j \in JobIds,
         NEW r \in RunState, NEW m \in JobState \union {None}, NEW w \in RowState \union {None},
         NEW f \in SUBSET {"part", "out"},
         run' = [run EXCEPT ![j] = r], job' = [job EXCEPT ![j] = m],
         row' = [row EXCEPT ![j] = w], file' = [file EXCEPT ![j] = f],
         Agrees(r, m, w, f),
         r.pc \in Running => \/ run[j].pc \in Running /\ r.kind = run[j].kind /\ r.ver = run[j].ver
                             \/ ~LiveType(r.kind, r.ver, {j})
  PROVE  JobInv'
  <1>1. JobTypes
    BY DEF JobInv
  <1>2. JobTypes'
    BY <1>1 DEF JobTypes
  <1>3. /\ run'[j] = r /\ job'[j] = m /\ row'[j] = w /\ file'[j] = f
        /\ \A i \in JobIds \ {j} : /\ run'[i] = run[i] /\ job'[i] = job[i]
                                   /\ row'[i] = row[i] /\ file'[i] = file[i]
    BY <1>1 DEF JobTypes
  <1>4. ASSUME NEW i \in JobIds
        PROVE  Agrees(run'[i], job'[i], row'[i], file'[i])
    <2>1. CASE i = j
      BY <1>3, <2>1
    <2>2. CASE i # j
      <3>1. Agrees(run[i], job[i], row[i], file[i])
        BY DEF JobInv
      <3> QED
        BY <1>3, <2>2, <3>1
    <2> QED
      BY <2>1, <2>2
  <1>5. ASSUME NEW i \in JobIds, i # j, run[i].pc \in Running, r.pc \in Running
        PROVE  ~(run[i].kind = r.kind /\ run[i].ver = r.ver)
    <2>1. CASE run[j].pc \in Running /\ r.kind = run[j].kind /\ r.ver = run[j].ver
      BY <1>1, <1>5, <2>1, WorkingIs DEF JobInv, OneRunnerPerType
    <2>2. CASE ~LiveType(r.kind, r.ver, {j})
      BY <1>5, <2>2 DEF LiveType, Running
    <2> QED
      BY <1>5, <2>1, <2>2
  <1>6. ASSUME NEW i \in JobIds, NEW k \in JobIds, i # k,
               run'[i].pc \in Running, run'[k].pc \in Running
        PROVE  ~(run'[i].kind = run'[k].kind /\ run'[i].ver = run'[k].ver)
    <2>1. CASE i = j
      BY <1>3, <1>5, <1>6, <2>1
    <2>2. CASE k = j
      BY <1>3, <1>5, <1>6, <2>2
    <2>3. CASE i # j /\ k # j
      BY <1>1, <1>3, <1>6, <2>3, WorkingIs DEF JobInv, OneRunnerPerType
    <2> QED
      BY <2>1, <2>2, <2>3
  <1>7. \A i \in JobIds : run'[i].pc \in {"none", "new", "done"} \union Running
    BY <1>2 DEF JobTypes, RunState
  <1>8. OneRunnerPerType'
    BY <1>6, <1>7 DEF OneRunnerPerType, Working, Running
  <1> QED
    BY <1>2, <1>4, <1>8 DEF JobInv


LEMMA JobHere ==
  ASSUME JobInv, NEW j \in JobIds
  PROVE  /\ run[j] \in RunState /\ job[j] \in JobState \union {None}
         /\ row[j] \in RowState \union {None} /\ file[j] \in SUBSET {"part", "out"}
         /\ Agrees(run[j], job[j], row[j], file[j])
         /\ job = [job EXCEPT ![j] = job[j]] /\ row = [row EXCEPT ![j] = row[j]]
         /\ file = [file EXCEPT ![j] = file[j]] /\ run = [run EXCEPT ![j] = run[j]]
  BY DEF JobInv, JobTypes

LEMMA RunTo ==
  ASSUME JobInv, NEW j \in JobIds, NEW pc \in {"none", "new", "done"} \union Running
  PROVE  \E r \in RunState : /\ [run EXCEPT ![j].pc = pc] = [run EXCEPT ![j] = r]
                             /\ r.pc = pc /\ r.kind = run[j].kind /\ r.ver = run[j].ver
  <1>1. run[j] \in RunState
    BY JobHere
  <1>2. PICK r : r = [run[j] EXCEPT !.pc = pc]
    OBVIOUS
  <1>3. r \in RunState /\ r.pc = pc /\ r.kind = run[j].kind /\ r.ver = run[j].ver
    BY <1>1, <1>2 DEF RunState
  <1>4. [run EXCEPT ![j].pc = pc] = [run EXCEPT ![j] = r]
    BY <1>1, <1>2 DEF JobInv, JobTypes
  <1> QED
    BY <1>3, <1>4

LEMMA StartsJob ==
  ASSUME JobInv, NEW j \in JobIds, NEW k \in Kinds, StartJob(k, j), Version \in Nat
  PROVE  JobInv'
  <1>1. PICK v \in Nat : v = Version
    OBVIOUS
  <1>2. PICK r : r = [pc |-> "new", kind |-> k, ver |-> v, reads |-> 0]
    OBVIOUS
  <1>3. PICK m : m = Fresh(k, v)
    OBVIOUS
  <1>4. PICK w : w = RowOf(j, m, "running", FALSE)
    OBVIOUS
  <1>5. /\ run' = [run EXCEPT ![j] = r] /\ job' = [job EXCEPT ![j] = m]
        /\ row' = [row EXCEPT ![j] = w] /\ file' = file
    BY <1>1, <1>2, <1>3, <1>4 DEF StartJob
  <1>6. r \in RunState /\ r.pc = "new" /\ r.kind = k /\ r.ver = v
    BY <1>2 DEF RunState
  <1>7. m \in JobState /\ m.kind = k /\ m.ver = v /\ m.path = FALSE
    BY <1>3 DEF Fresh, JobState, States
  <1>8. w \in RowState /\ w.kind = k /\ w.ver = v /\ ~w.path
    <2>1. "running" \in States /\ m.kind \in Kinds \union {None} /\ m.ver \in Nat
      BY <1>7 DEF States
    <2>2. (row[j] # None /\ (row[j].fin \/ "running" \in Terminal)) \in BOOLEAN
      OBVIOUS
    <2>3. w \in RowState
      BY <1>4, <2>1, <2>2 DEF RowOf, RowState
    <2>4. w.kind = m.kind /\ w.ver = m.ver /\ ~w.path
      BY <1>4 DEF RowOf
    <2> QED
      BY <1>7, <2>3, <2>4
  <1>9. Agrees(r, m, w, file[j])
    BY <1>6, <1>7, <1>8 DEF Agrees
  <1> QED
    BY <1>5, <1>6, <1>7, <1>8, <1>9, JobHere, OneJob DEF Running

(* A thread that goes on, with the row rewritten or not. *)
LEMMA GoesOn ==
  ASSUME JobInv, NEW j \in JobIds, NEW r \in RunState, run' = [run EXCEPT ![j] = r],
         r.kind = run[j].kind, r.ver = run[j].ver, run[j].pc \notin {"none", "returned", "done"},
         r.pc # "none", NEW f \in SUBSET {"part", "out"}, file' = [file EXCEPT ![j] = f],
         r.pc = "finish" /\ r.kind # "progress" => "out" \in f,
         r.pc \in Running => run[j].pc \in Running \/ ~LiveType(r.kind, r.ver, {j}),
         NEW m \in JobState \union {None}, job' = [job EXCEPT ![j] = m],
         m # None => m.kind = r.kind /\ m.ver = r.ver /\ ~m.path,
         NEW w \in RowState \union {None}, row' = [row EXCEPT ![j] = w],
         w = row[j] \/ (w.kind = r.kind /\ w.ver = r.ver /\ ~w.path)
  PROVE  JobInv'
  <1>1. Agrees(run[j], job[j], row[j], file[j])
    BY JobHere
  <1>2. Agrees(r, m, w, f)
    BY <1>1 DEF Agrees
  <1> QED
    BY <1>2, JobHere, OneJob

LEMMA NotOffered ==
  ASSUME JobInv, NEW j \in JobIds, run[j].pc \notin {"none", "returned", "done"}
  PROVE  /\ run[j].kind \in Kinds /\ run[j].ver \in Nat
         /\ job[j] # None => job[j].kind = run[j].kind /\ job[j].ver = run[j].ver /\ ~job[j].path
  BY JobHere DEF Agrees, RunState

LEMMA SubmitsJob ==
  ASSUME JobInv, NEW j \in JobIds, SubmitJob(j) \/ RunJob(j)
  PROVE  JobInv'
  <1>1. job' = job /\ file' = file /\ run[j].pc \in {"new", "queued"}
    BY DEF SubmitJob, RunJob
  <1>2. PICK pc \in {"done", "queued", "read", "update"} :
           /\ run' = [run EXCEPT ![j].pc = pc]
           /\ pc \in Running => run[j].pc \in Running \/ ~LiveType(run[j].kind, run[j].ver, {j})
    BY DEF SubmitJob, RunJob, Running
  <1>3. PICK w \in RowState \union {None} :
           /\ row' = [row EXCEPT ![j] = w]
           /\ w = row[j] \/ (w.kind = run[j].kind /\ w.ver = run[j].ver /\ ~w.path)
    <2>1. CASE row' = row
      BY <2>1, JobHere
    <2>2. ASSUME NEW st \in {"queued", "running"}, NEW w, w = RowOf(j, run[j], st, FALSE),
                 row' = [row EXCEPT ![j] = w]
          PROVE  \E x \in RowState \union {None} :
                    /\ row' = [row EXCEPT ![j] = x]
                    /\ x = row[j] \/ (x.kind = run[j].kind /\ x.ver = run[j].ver /\ ~x.path)
      <3>1. st \in States /\ run[j].kind \in Kinds \union {None} /\ run[j].ver \in Nat
        BY <2>2, JobHere DEF States, RunState
      <3>2. (row[j] # None /\ (row[j].fin \/ st \in Terminal)) \in BOOLEAN
        OBVIOUS
      <3>3. w \in RowState
        BY <2>2, <3>1, <3>2 DEF RowOf, RowState
      <3>4. w.kind = run[j].kind /\ w.ver = run[j].ver /\ ~w.path
        BY <2>2 DEF RowOf
      <3> QED
        BY <2>2, <3>3, <3>4
    <2> QED
      BY <2>1, <2>2 DEF SubmitJob, RunJob
  <1>4. PICK r \in RunState : /\ run' = [run EXCEPT ![j] = r]
                              /\ r.pc = pc /\ r.kind = run[j].kind /\ r.ver = run[j].ver
    <2>1. pc \in {"none", "new", "done"} \union Running
      BY <1>2 DEF Running
    <2> QED
      <3>1. PICK r \in RunState : /\ [run EXCEPT ![j].pc = pc] = [run EXCEPT ![j] = r]
                                  /\ r.pc = pc /\ r.kind = run[j].kind /\ r.ver = run[j].ver
        BY <2>1, RunTo
      <3> QED
        BY <1>2, <3>1
  <1>5. PICK m \in JobState \union {None} :
           /\ job' = [job EXCEPT ![j] = m]
           /\ m # None => m.kind = r.kind /\ m.ver = r.ver /\ ~m.path
    BY <1>1, <1>4, JobHere, NotOffered
  <1>6. PICK f \in SUBSET {"part", "out"} : file' = [file EXCEPT ![j] = f]
    BY <1>1, JobHere
  <1>7. /\ r.pc \notin {"none", "finish"} /\ run[j].pc \notin {"none", "returned", "done"}
        /\ r.pc \in Running => run[j].pc \in Running \/ ~LiveType(r.kind, r.ver, {j})
    BY <1>1, <1>2, <1>4
  <1> QED
    BY <1>3, <1>4, <1>5, <1>6, <1>7, GoesOn

(* A job function's own steps, until it returns. *)
LEMMA UpdatesJob ==
  ASSUME JobInv, NEW j \in JobIds, UpdateJob(j)
  PROVE  JobInv'
  <1>1. file' = file /\ run[j].pc = "update"
    BY DEF UpdateJob
  <1>2. run[j].pc \in Running /\ run[j].pc \notin {"none", "returned", "done"}
    BY <1>1 DEF Running
  <1>3. file[j] \in SUBSET {"part", "out"} /\ file' = [file EXCEPT ![j] = file[j]]
    BY <1>1, JobHere
  <1>4. PICK pc \in {"cancel", "read", "finish", "replace"} :
           /\ run' = [run EXCEPT ![j].pc = pc]
           /\ pc = "finish" => run[j].kind = "progress"
    BY DEF UpdateJob, AfterUpdate
  <1>5. PICK r \in RunState : /\ run' = [run EXCEPT ![j] = r]
                              /\ r.pc = pc /\ r.kind = run[j].kind /\ r.ver = run[j].ver
    <2>1. pc \in {"none", "new", "done"} \union Running
      BY <1>4 DEF Running
    <2>2. PICK r \in RunState : /\ [run EXCEPT ![j].pc = pc] = [run EXCEPT ![j] = r]
                                /\ r.pc = pc /\ r.kind = run[j].kind /\ r.ver = run[j].ver
      BY <2>1, RunTo
    <2> QED
      BY <1>4, <2>2
  <1>6. PICK m \in JobState \union {None} :
           /\ job' = [job EXCEPT ![j] = m]
           /\ m # None => m.kind = r.kind /\ m.ver = r.ver /\ ~m.path
    <2>1. job[j] # None => job[j].kind = r.kind /\ job[j].ver = r.ver /\ ~job[j].path
      BY <1>2, <1>5, NotOffered
    <2>2. CASE job' = job
      BY <2>1, <2>2, JobHere
    <2>3. CASE job' = [job EXCEPT ![j].st = "cancelled"] /\ job[j] # None
      <3>1. PICK m : m = [job[j] EXCEPT !.st = "cancelled"]
        OBVIOUS
      <3>2. job[j] \in JobState
        BY <2>3, JobHere
      <3>3. m \in JobState /\ m.kind = job[j].kind /\ m.ver = job[j].ver
        BY <3>1, <3>2 DEF JobState, States, Terminal
      <3>4. ~m.path
        BY <2>1, <2>3, <3>1, <3>2 DEF JobState
      <3>5. job' = [job EXCEPT ![j] = m]
        BY <2>3, <3>1 DEF JobInv, JobTypes
      <3> QED
        BY <2>1, <2>3, <3>3, <3>4, <3>5
    <2> QED
      BY <2>2, <2>3 DEF UpdateJob
  <1>7. PICK w \in RowState \union {None} :
           /\ row' = [row EXCEPT ![j] = w]
           /\ w = row[j] \/ (w.kind = r.kind /\ w.ver = r.ver /\ ~w.path)
    <2>1. CASE row' = row
      BY <2>1, JobHere
    <2>2. CASE job[j] # None /\ row' = [row EXCEPT ![j] = RowOf(j, job[j], "running", FALSE)]
      <3>1. PICK w : w = RowOf(j, job[j], "running", FALSE)
        OBVIOUS
      <3>2. /\ job[j].kind = r.kind /\ job[j].ver = r.ver /\ "running" \in States
            /\ r.kind \in Kinds \union {None} /\ r.ver \in Nat
        BY <1>2, <1>5, <2>2, NotOffered DEF States
      <3>3. (row[j] # None /\ (row[j].fin \/ "running" \in Terminal)) \in BOOLEAN
        OBVIOUS
      <3>4. w \in RowState
        BY <3>1, <3>2, <3>3 DEF RowOf, RowState
      <3>5. w.kind = r.kind /\ w.ver = r.ver /\ ~w.path
        BY <3>1, <3>2 DEF RowOf
      <3> QED
        BY <2>2, <3>1, <3>4, <3>5
    <2> QED
      BY <2>1, <2>2 DEF UpdateJob
  <1> QED
    BY <1>2, <1>3, <1>4, <1>5, <1>6, <1>7, GoesOn, ZenonT(60)

LEMMA ReadsFacts ==
  ASSUME JobInv, NEW j \in JobIds, ReadFacts(j) \/ ReadFails(j) \/ ReplacePart(j)
  PROVE  JobInv'
  <1>1. job' = job /\ row' = row /\ run[j].pc \in {"read", "replace"}
    BY DEF ReadFacts, ReadFails, ReplacePart
  <1>2. run[j].pc \in Running /\ run[j].pc \notin {"none", "returned", "done"}
    BY <1>1 DEF Running
  <1>3. PICK f \in SUBSET {"part", "out"} :
           file' = [file EXCEPT ![j] = f] /\ (ReplacePart(j) => "out" \in f)
    <2>1. file[j] \in SUBSET {"part", "out"}
      BY JobHere
    <2>2. CASE ReadFacts(j)
      BY <2>1, <2>2 DEF ReadFacts, ReplacePart
    <2>3. CASE ReadFails(j)
      BY <2>1, <2>3 DEF ReadFails, ReplacePart
    <2>4. CASE ReplacePart(j)
      BY <2>4 DEF ReplacePart
    <2> QED
      BY <2>2, <2>3, <2>4
  <1>4. PICK r \in RunState : /\ run' = [run EXCEPT ![j] = r] /\ r.pc \in {"update", "fail", "finish"}
                              /\ r.pc = "finish" => ReplacePart(j)
                              /\ r.kind = run[j].kind /\ r.ver = run[j].ver
    <2>1. CASE ReadFacts(j)
      <3>1. PICK r : r = [run[j] EXCEPT !.pc = "update", !.reads = @ + 1]
        OBVIOUS
      <3>2. run[j] \in RunState
        BY JobHere
      <3>3. r \in RunState /\ r.pc = "update" /\ r.kind = run[j].kind /\ r.ver = run[j].ver
        <4>1. run[j].reads + 1 \in Nat
          BY <3>2 DEF RunState
        <4> QED
          BY <3>1, <3>2, <4>1 DEF RunState, Running
      <3>4. run' = [run EXCEPT ![j] = r]
        <4>1. run' = [run EXCEPT ![j].pc = "update", ![j].reads = @ + 1]
          BY <2>1 DEF ReadFacts
        <4>2. run \in [JobIds -> RunState]
          BY DEF JobInv, JobTypes
        <4> QED
          BY <3>1, <3>2, <4>1, <4>2 DEF RunState
      <3> QED
        BY <3>3, <3>4
    <2>2. ASSUME NEW pc \in {"fail", "finish"}, run' = [run EXCEPT ![j].pc = pc],
                 pc = "finish" => ReplacePart(j)
          PROVE  \E r \in RunState :
                              /\ run' = [run EXCEPT ![j] = r] /\ r.pc \in {"update", "fail", "finish"}
                              /\ r.pc = "finish" => ReplacePart(j)
                              /\ r.kind = run[j].kind /\ r.ver = run[j].ver
      <3>1. pc \in {"none", "new", "done"} \union Running
        BY <2>2 DEF Running
      <3>2. PICK r \in RunState : /\ [run EXCEPT ![j].pc = pc] = [run EXCEPT ![j] = r]
                                  /\ r.pc = pc /\ r.kind = run[j].kind /\ r.ver = run[j].ver
        BY <3>1, RunTo
      <3> QED
        BY <2>2, <3>2
    <2> QED
      BY <2>1, <2>2 DEF ReadFails, ReplacePart
  <1>5. /\ job[j] \in JobState \union {None} /\ job' = [job EXCEPT ![j] = job[j]]
        /\ row[j] \in RowState \union {None} /\ row' = [row EXCEPT ![j] = row[j]]
        /\ job[j] # None => job[j].kind = r.kind /\ job[j].ver = r.ver /\ ~job[j].path
    BY <1>1, <1>2, <1>4, JobHere, NotOffered
  <1> QED
    BY <1>2, <1>3, <1>4, <1>5, GoesOn

(* A job function that ends: a result is offered only with its file. *)
LEMMA EndsJob ==
  ASSUME JobInv, NEW j \in JobIds, NEW r \in RunState, run' = [run EXCEPT ![j] = r],
         r.kind = run[j].kind, r.ver = run[j].ver, r.pc \in {"returned", "done"},
         run[j].pc \in Running, NEW f \in SUBSET {"part", "out"}, file' = [file EXCEPT ![j] = f],
         NEW m \in JobState \union {None}, job' = [job EXCEPT ![j] = m],
         m # None => m.kind = r.kind /\ m.ver = r.ver,
         (m # None /\ m.path) => "out" \in f,
         NEW w \in RowState \union {None}, row' = [row EXCEPT ![j] = w],
         w # None => w.kind = r.kind /\ w.ver = r.ver,
         (w # None /\ w.path) => w.st = "completed" /\ "out" \in f
  PROVE  JobInv'
  <1>1. Agrees(run[j], job[j], row[j], file[j]) /\ run[j].pc # "none"
    BY JobHere DEF Running
  <1>2. Agrees(r, m, w, f)
    BY <1>1 DEF Agrees
  <1>3. r.pc \in Running => \/ run[j].pc \in Running /\ r.kind = run[j].kind /\ r.ver = run[j].ver
                            \/ ~LiveType(r.kind, r.ver, {j})
    OBVIOUS
  <1> QED
    BY <1>2, <1>3, OneJob

LEMMA Returns ==
  ASSUME JobInv, NEW j \in JobIds, NEW pc \in {"returned", "done"}, run' = [run EXCEPT ![j].pc = pc]
  PROVE  \E r \in RunState : /\ run' = [run EXCEPT ![j] = r] /\ r.pc = pc
                             /\ r.kind = run[j].kind /\ r.ver = run[j].ver
  <1>1. pc \in {"none", "new", "done"} \union Running
    BY DEF Running
  <1>2. PICK r \in RunState : /\ [run EXCEPT ![j].pc = pc] = [run EXCEPT ![j] = r]
                              /\ r.pc = pc /\ r.kind = run[j].kind /\ r.ver = run[j].ver
    BY <1>1, RunTo
  <1> QED
    BY <1>2

LEMMA FinishesJob ==
  ASSUME JobInv, NEW j \in JobIds, FinishCompleted(j) \/ FinishFailed(j) \/ CancelJob(j)
  PROVE  JobInv'
  <1>1. run[j].pc \in {"finish", "fail", "cancel"}
    BY DEF FinishCompleted, FinishFailed, CancelJob
  <1>2. run[j].pc \in Running /\ run[j].pc \notin {"none", "returned", "done"}
    BY <1>1 DEF Running
  <1>3. /\ run[j] \in RunState /\ file[j] \in SUBSET {"part", "out"}
        /\ Agrees(run[j], job[j], row[j], file[j])
    BY JobHere
  <1>4. PICK r \in RunState : /\ run' = [run EXCEPT ![j] = r] /\ r.pc = "returned"
                              /\ r.kind = run[j].kind /\ r.ver = run[j].ver
    <2>1. run' = [run EXCEPT ![j].pc = "returned"]
      BY DEF FinishCompleted, FinishFailed, CancelJob, Finish
    <2> QED
      BY <2>1, Returns
  <1>5. PICK f \in SUBSET {"part", "out"} :
           /\ file' = [file EXCEPT ![j] = f]
           /\ (FinishCompleted(j) /\ job[j] # None) => "out" \in f
    <2>1. CASE FinishCompleted(j)
      <3>1. PICK f : f = IF job[j] # None /\ run[j].kind = "progress" THEN {"out"} ELSE file[j]
        OBVIOUS
      <3>2. file' = [file EXCEPT ![j] = f]
        BY <2>1, <3>1 DEF FinishCompleted, JobInv, JobTypes
      <3>3. run[j].pc = "finish"
        BY <2>1 DEF FinishCompleted
      <3>4. f \in SUBSET {"part", "out"} /\ (job[j] # None => "out" \in f)
        BY <1>3, <3>1, <3>3 DEF Agrees
      <3> QED
        BY <3>2, <3>4
    <2>2. CASE FinishFailed(j)
      BY <1>3, <2>2, JobHere DEF FinishFailed, FinishCompleted
    <2>3. CASE CancelJob(j)
      <3>1. PICK f : f = IF run[j].kind = "progress" THEN file[j] ELSE {}
        OBVIOUS
      <3>2. file' = [file EXCEPT ![j] = f]
        BY <2>3, <3>1 DEF CancelJob, JobInv, JobTypes
      <3>3. f \in SUBSET {"part", "out"} /\ ~FinishCompleted(j)
        BY <1>3, <2>3, <3>1 DEF CancelJob, FinishCompleted
      <3> QED
        BY <3>2, <3>3
    <2> QED
      BY <2>1, <2>2, <2>3
  <1>6. CASE job[j] = None
    <2>1. job' = job /\ row' = row
      BY <1>6 DEF FinishCompleted, FinishFailed, CancelJob, Finish
    <2>2. PICK m \in JobState \union {None} : m = None /\ job' = [job EXCEPT ![j] = m]
      BY <1>6, <2>1, JobHere
    <2>3. PICK w \in RowState \union {None} :
             /\ row' = [row EXCEPT ![j] = w]
             /\ w # None => w.kind = r.kind /\ w.ver = r.ver /\ ~w.path
      BY <1>2, <1>3, <1>4, <2>1, JobHere DEF Agrees
    <2> QED
      BY <1>2, <1>4, <1>5, <2>2, <2>3, EndsJob
  <1>7. CASE job[j] # None
    <2>1. PICK st \in Terminal, path \in BOOLEAN :
             /\ job' = [job EXCEPT ![j].st = st, ![j].path = path]
             /\ row' = [row EXCEPT ![j] = RowOf(j, job[j], st, path)]
             /\ path => st = "completed" /\ FinishCompleted(j)
      <3>1. CASE FinishCompleted(j)
        BY <1>7, <3>1 DEF FinishCompleted, Finish, Terminal
      <3>2. CASE FinishFailed(j)
        BY <1>7, <3>2 DEF FinishFailed, Finish, Terminal
      <3>3. CASE CancelJob(j)
        BY <1>7, <3>3 DEF CancelJob, Finish, Terminal
      <3> QED
        BY <3>1, <3>2, <3>3
    <2>2. job[j] \in JobState /\ st \in States
      BY <1>7, JobHere DEF States
    <2>3. job[j].kind = r.kind /\ job[j].ver = r.ver
      BY <1>3, <1>4, <1>7 DEF Agrees
    <2>4. PICK m : m = [job[j] EXCEPT !.st = st, !.path = path]
      OBVIOUS
    <2>5. m \in JobState
      BY <2>2, <2>4 DEF JobState
    <2>6. m.kind = r.kind /\ m.ver = r.ver
      BY <2>2, <2>3, <2>4 DEF JobState
    <2>7. m.path = path
      BY <2>2, <2>4 DEF JobState
    <2>8. job' = [job EXCEPT ![j] = m]
      BY <2>1, <2>2, <2>4 DEF JobInv, JobTypes, JobState
    <2>9. PICK w : w = RowOf(j, job[j], st, path)
      OBVIOUS
    <2>10. (row[j] # None /\ (row[j].fin \/ st \in Terminal)) \in BOOLEAN
      OBVIOUS
    <2>11. job[j].kind \in Kinds \union {None} /\ job[j].ver \in Nat
      BY <2>2 DEF JobState
    <2>12. w \in RowState
      BY <2>2, <2>9, <2>10, <2>11 DEF RowOf, RowState
    <2>13. w.kind = r.kind /\ w.ver = r.ver /\ w.st = st
      BY <2>3, <2>9 DEF RowOf
    <2>14. w.path = path
      BY <2>9 DEF RowOf
    <2>15. (m # None /\ m.path) => "out" \in f
      BY <1>5, <1>7, <2>1, <2>7
    <2>16. (w # None /\ w.path) => w.st = "completed" /\ "out" \in f
      BY <1>5, <1>7, <2>1, <2>13, <2>14
    <2>17. row' = [row EXCEPT ![j] = w]
      BY <2>1, <2>9
    <2> QED
      BY <1>2, <1>4, <1>5, <2>5, <2>6, <2>8, <2>12, <2>13, <2>15, <2>16, <2>17, EndsJob
  <1> QED
    BY <1>6, <1>7

LEMMA RecordsJob ==
  ASSUME JobInv, NEW j \in JobIds, ExecutorRecords(j)
  PROVE  JobInv'
  <1>1. run[j].pc \in Running /\ job' = job /\ file' = file
    BY DEF ExecutorRecords, Running
  <1>2. Agrees(run[j], job[j], row[j], file[j]) /\ run[j] \in RunState
    BY JobHere
  <1>3. PICK r \in RunState : /\ run' = [run EXCEPT ![j] = r] /\ r.pc = "done"
                              /\ r.kind = run[j].kind /\ r.ver = run[j].ver
    <2>1. run' = [run EXCEPT ![j].pc = "done"]
      BY DEF ExecutorRecords
    <2> QED
      BY <2>1, Returns
  <1>4. PICK f \in SUBSET {"part", "out"} : file' = [file EXCEPT ![j] = f] /\ f = file[j]
    BY <1>1, JobHere
  <1>5. PICK m \in JobState \union {None} : job' = [job EXCEPT ![j] = m] /\ m = job[j]
    BY <1>1, JobHere
  <1>6. m # None => m.kind = r.kind /\ m.ver = r.ver
    BY <1>2, <1>3, <1>5 DEF Agrees
  <1>7. (m # None /\ m.path) => "out" \in f
    BY <1>2, <1>4, <1>5 DEF Agrees
  <1>8. (job[j] # None /\ job[j].path) \in BOOLEAN
    OBVIOUS
  <1>9. PICK w : w = RowOf(j, run[j], "completed", job[j] # None /\ job[j].path)
    OBVIOUS
  <1>10. row' = [row EXCEPT ![j] = w]
    BY <1>9 DEF ExecutorRecords
  <1>11. (row[j] # None /\ (row[j].fin \/ "completed" \in Terminal)) \in BOOLEAN
    OBVIOUS
  <1>12. run[j].kind \in Kinds \union {None} /\ run[j].ver \in Nat /\ "completed" \in States
    BY <1>2 DEF RunState, States, Terminal
  <1>13. w \in RowState
    BY <1>8, <1>9, <1>11, <1>12 DEF RowOf, RowState
  <1>14. w.kind = r.kind /\ w.ver = r.ver /\ w.st = "completed"
    BY <1>3, <1>9 DEF RowOf
  <1>15. w.path => job[j] # None /\ job[j].path
    BY <1>8, <1>9, Zenon DEF RowOf
  <1>16. (w # None /\ w.path) => w.st = "completed" /\ "out" \in f
    BY <1>5, <1>7, <1>14, <1>15
  <1>17. file' = [file EXCEPT ![j] = f] /\ job' = [job EXCEPT ![j] = m]
    BY <1>4, <1>5
  <1>18. r.pc \in {"returned", "done"}
    BY <1>3
  <1> QED
    BY <1>1, <1>3, <1>6, <1>7, <1>10, <1>13, <1>14, <1>16, <1>17, <1>18, EndsJob

(* A thread's own entry, row and files change while it goes on as it was. *)
LEMMA KeptRun ==
  ASSUME JobInv, NEW j \in JobIds, run' = run,
         NEW m \in JobState \union {None}, job' = [job EXCEPT ![j] = m],
         NEW w \in RowState \union {None}, row' = [row EXCEPT ![j] = w],
         NEW f \in SUBSET {"part", "out"}, file' = [file EXCEPT ![j] = f],
         Agrees(run[j], m, w, f)
  PROVE  JobInv'
  <1>1. PICK r \in RunState : r = run[j] /\ run' = [run EXCEPT ![j] = r]
    BY JobHere
  <1>2. /\ Agrees(r, m, w, f) /\ run' = [run EXCEPT ![j] = r]
        /\ r.pc \in Running => \/ run[j].pc \in Running /\ r.kind = run[j].kind /\ r.ver = run[j].ver
                               \/ ~LiveType(r.kind, r.ver, {j})
    BY <1>1
  <1> QED
    BY <1>2, OneJob

(* An entry that is forgotten takes its file along only when it is offered. *)
LEMMA ForgetsFile ==
  ASSUME JobInv, NEW j \in JobIds, NEW m, Forget(j, m),
         m.path => run[j].pc \in {"returned", "done"}
  PROVE  \E f \in SUBSET {"part", "out"} :
            /\ file' = [file EXCEPT ![j] = f]
            /\ (run[j].pc = "finish" /\ run[j].kind # "progress") => "out" \in f
  <1>1. PICK f : f = IF m.path THEN {} ELSE file[j]
    OBVIOUS
  <1>2. file[j] \in SUBSET {"part", "out"} /\ Agrees(run[j], job[j], row[j], file[j])
    BY JobHere
  <1>3. file' = [file EXCEPT ![j] = f]
    BY <1>1 DEF Forget, JobInv, JobTypes
  <1>4. f \in SUBSET {"part", "out"}
    BY <1>1, <1>2
  <1>5. (run[j].pc = "finish" /\ run[j].kind # "progress") => "out" \in f
    BY <1>1, <1>2 DEF Agrees
  <1> QED
    BY <1>3, <1>4, <1>5

LEMMA PollsJob ==
  ASSUME JobInv, NEW j \in JobIds, PollJob(j)
  PROVE  JobInv'
  <1>1. /\ job[j] \in JobState \union {None} /\ row[j] \in RowState \union {None}
        /\ Agrees(run[j], job[j], row[j], file[j])
    BY JobHere
  <1>2. run' = run /\ (job[j] # None \/ row[j] # None)
    BY DEF PollJob
  <1>3. run[j].pc # "none" /\ run[j].kind \in Kinds
    BY <1>1, <1>2 DEF Agrees
  <1>4. PICK m : m = Loaded(j)
    OBVIOUS
  <1>5. m \in JobState
    <2>1. CASE job[j] # None
      BY <1>1, <1>4, <2>1 DEF Loaded
    <2>2. CASE job[j] = None
      <3>1. row[j] \in RowState
        BY <1>1, <1>2, <2>2
      <3>2. m = [kind |-> row[j].kind, ver |-> row[j].ver, st |-> row[j].st, path |-> row[j].path]
        BY <1>4, <2>2 DEF Loaded
      <3> QED
        BY <3>1, <3>2 DEF RowState, JobState
    <2> QED
      BY <2>1, <2>2
  <1>6. m.kind = run[j].kind /\ m.ver = run[j].ver
    BY <1>1, <1>2, <1>4 DEF Loaded, Agrees
  <1>7. m.path => /\ run[j].pc \in {"returned", "done"}
                  /\ "out" \in file[j] \/ (job[j] = None /\ row[j].old)
    <2>1. CASE job[j] # None
      BY <1>1, <1>4, <2>1 DEF Loaded, Agrees
    <2>2. CASE job[j] = None
      <3>1. row[j] \in RowState
        BY <1>1, <1>2, <2>2
      <3>2. m = [kind |-> row[j].kind, ver |-> row[j].ver, st |-> row[j].st, path |-> row[j].path]
        BY <1>4, <2>2 DEF Loaded
      <3>3. m.path => row[j].path
        BY <3>1, <3>2 DEF RowState
      <3>4. row[j].path => run[j].pc \in {"returned", "done"} /\ (row[j].old \/ "out" \in file[j])
        BY <1>1, <1>2, <2>2 DEF Agrees
      <3> QED
        BY <2>2, <3>3, <3>4
    <2> QED
      BY <2>1, <2>2
  <1>8. CASE m.ver # Version \/ (job[j] = None /\ row[j].old)
    <2>1. Forget(j, m) /\ row' = [row EXCEPT ![j] = None]
      BY <1>4, <1>8 DEF PollJob
    <2>2. PICK f \in SUBSET {"part", "out"} :
             /\ file' = [file EXCEPT ![j] = f]
             /\ (run[j].pc = "finish" /\ run[j].kind # "progress") => "out" \in f
      BY <1>7, <2>1, ForgetsFile
    <2>3. job' = [job EXCEPT ![j] = None]
      BY <2>1 DEF Forget
    <2>4. Agrees(run[j], None, None, f)
      BY <1>3, <2>2 DEF Agrees
    <2> QED
      BY <1>2, <2>1, <2>2, <2>3, <2>4, KeptRun
  <1>9. CASE ~(m.ver # Version \/ (job[j] = None /\ row[j].old))
    <2>1. job' = [job EXCEPT ![j] = m] /\ row' = row /\ file' = file
      BY <1>4, <1>9 DEF PollJob
    <2>2. (m # None /\ m.path) => run[j].pc \in {"returned", "done"} /\ "out" \in file[j]
      BY <1>7, <1>9
    <2>3. Agrees(run[j], m, row[j], file[j])
      BY <1>1, <1>3, <1>6, <2>2 DEF Agrees
    <2> QED
      BY <1>2, <1>5, <2>1, <2>3, JobHere, KeptRun
  <1> QED
    BY <1>8, <1>9

LEMMA RetiresJob ==
  ASSUME JobInv, NEW j \in JobIds, RetireJob(j) \/ RetireRow(j)
  PROVE  JobInv'
  <1>1. Agrees(run[j], job[j], row[j], file[j]) /\ row[j] \in RowState \union {None}
    BY JobHere
  <1>2. run' = run /\ run[j].pc = "done"
    BY DEF RetireJob, RetireRow
  <1>3. CASE RetireJob(j)
    <2>1. Forget(j, job[j]) /\ job' = [job EXCEPT ![j] = None]
      BY <1>3 DEF RetireJob, Forget
    <2>2. PICK f \in SUBSET {"part", "out"} : file' = [file EXCEPT ![j] = f]
      BY <1>2, <2>1, ForgetsFile
    <2>3. PICK w : w = IF row[j] = None THEN row[j] ELSE [row[j] EXCEPT !.old = TRUE]
      OBVIOUS
    <2>4. row' = [row EXCEPT ![j] = w]
      BY <1>3, <2>3 DEF RetireJob, JobInv, JobTypes
    <2>5. w \in RowState \union {None}
      BY <1>1, <2>3 DEF RowState
    <2>6. Agrees(run[j], None, w, f)
      <3>1. CASE row[j] = None
        BY <1>1, <1>2, <2>3, <3>1 DEF Agrees
      <3>2. CASE row[j] # None
        <4>1. row[j] \in RowState /\ w = [row[j] EXCEPT !.old = TRUE]
          BY <1>1, <2>3, <3>2
        <4>2. w.kind = row[j].kind /\ w.ver = row[j].ver /\ w.st = row[j].st
          BY <4>1 DEF RowState
        <4>3. w.old /\ (w.path => row[j].path)
          BY <4>1 DEF RowState
        <4> QED
          BY <1>1, <1>2, <3>2, <4>2, <4>3 DEF Agrees
      <3> QED
        BY <3>1, <3>2
    <2> QED
      BY <1>2, <2>1, <2>2, <2>4, <2>5, <2>6, KeptRun
  <1>4. CASE RetireRow(j)
    <2>1. row' = [row EXCEPT ![j] = None] /\ job' = job /\ file' = file /\ job[j] = None
      BY <1>4 DEF RetireRow
    <2>2. Agrees(run[j], job[j], None, file[j])
      BY <1>1, <1>2, <2>1 DEF Agrees
    <2> QED
      BY <1>2, <2>1, <2>2, JobHere, KeptRun
  <1> QED
    BY <1>3, <1>4

(* A restart: the unfinished rows carry no result, and of the rows of one   *)
(* kind and version one is queued.                                          *)
LEMMA RecoversJobs ==
  ASSUME JobInv, RecoverJobs
  PROVE  JobInv'
  <1>1. PICK first, last \in [Kinds -> JobIds \union {None}] :
          /\ \A k \in Kinds :
               IF Current(k) = {} THEN first[k] = None /\ last[k] = None
               ELSE /\ {first[k], last[k]} \subseteq Current(k)
                    /\ Cardinality(Current(k)) > 1 => first[k] # last[k]
          /\ job' = [j \in JobIds |->
                       IF \E k \in Kinds : j \in Current(k)
                       THEN Fresh(row[j].kind, row[j].ver) ELSE None]
          /\ key' = [p \in DOMAIN key |-> IF p[2] = dv THEN last[p[1]] ELSE None]
          /\ run' = [j \in JobIds |->
                       IF \E k \in Kinds : first[k] = j
                       THEN [run[j] EXCEPT !.pc = "queued", !.reads = 0]
                       ELSE IF run[j].pc = "none" THEN NoRun
                       ELSE [run[j] EXCEPT !.pc = "done"]]
          /\ row' = [j \in JobIds |->
                       IF \E k \in Kinds : first[k] = j THEN [row[j] EXCEPT !.st = "queued"]
                       ELSE IF j \in Unfinished /\ row[j].ver # dv
                       THEN [row[j] EXCEPT !.st = "failed", !.fin = TRUE]
                       ELSE row[j]]
          /\ file' = [j \in JobIds |->
                        IF j \in Unfinished /\ row[j].ver # dv THEN {} ELSE file[j]]
    BY DEF RecoverJobs
  <1>2. ASSUME NEW k \in Kinds, NEW j \in JobIds, first[k] = j
        PROVE  j \in Unfinished /\ row[j].kind = k /\ row[j].ver = dv
    <2>1. j # None
      BY NoneAssumption
    <2>2. Current(k) # {}
      BY <1>1, <1>2, <2>1
    <2> QED
      BY <1>1, <1>2, <2>2 DEF Current
  <1>3. ASSUME NEW j \in JobIds
        PROVE  /\ run[j] \in RunState /\ job[j] \in JobState \union {None}
               /\ row[j] \in RowState \union {None} /\ file[j] \in SUBSET {"part", "out"}
               /\ Agrees(run[j], job[j], row[j], file[j])
    BY JobHere
  <1>4. ASSUME NEW j \in Unfinished
        PROVE  /\ j \in JobIds /\ row[j] \in RowState /\ ~row[j].path
               /\ run[j].pc # "none" /\ run[j].kind = row[j].kind /\ run[j].ver = row[j].ver
    <2>1. j \in JobIds /\ row[j] # None /\ row[j].st # "completed"
      BY DEF Unfinished
    <2> QED
      BY <1>3, <2>1 DEF Agrees
  <1>5. ASSUME NEW j \in JobIds
        PROVE  /\ run'[j] \in RunState /\ job'[j] \in JobState \union {None}
               /\ row'[j] \in RowState \union {None} /\ file'[j] \in SUBSET {"part", "out"}
               /\ Agrees(run'[j], job'[j], row'[j], file'[j])
               /\ run'[j].pc \in Running => /\ first[run'[j].kind] = j /\ run'[j].kind \in Kinds
    <2>1. file'[j] \in SUBSET {"part", "out"}
      BY <1>1, <1>3
    <2>2. PICK m : m = job'[j]
      OBVIOUS
    <2>3. /\ m \in JobState \union {None}
          /\ m # None => j \in Unfinished /\ m.kind = row[j].kind /\ m.ver = row[j].ver /\ ~m.path
      <3>1. CASE \E k \in Kinds : j \in Current(k)
        <4>1. m = Fresh(row[j].kind, row[j].ver) /\ j \in Unfinished
          BY <1>1, <2>2, <3>1 DEF Current
        <4>2. row[j].kind \in Kinds \union {None} /\ row[j].ver \in Nat
          BY <1>4, <4>1 DEF RowState
        <4> QED
          BY <4>1, <4>2 DEF Fresh, JobState, States
      <3>2. CASE ~\E k \in Kinds : j \in Current(k)
        BY <1>1, <2>2, <3>2
      <3> QED
        BY <3>1, <3>2
    <2>4. CASE \E k \in Kinds : first[k] = j
      <3>1. PICK k \in Kinds : first[k] = j
        BY <2>4
      <3>2. j \in Unfinished /\ row[j].kind = k
        BY <1>2, <3>1
      <3>3. run'[j] = [run[j] EXCEPT !.pc = "queued", !.reads = 0]
        BY <1>1, <2>4
      <3>4. /\ run'[j] \in RunState /\ run'[j].pc = "queued"
            /\ run'[j].kind = run[j].kind /\ run'[j].ver = run[j].ver
        <4>1. PICK r : r = run[j]
          OBVIOUS
        <4>2. r \in RunState /\ run'[j] = [r EXCEPT !.pc = "queued", !.reads = 0]
          BY <1>3, <3>3, <4>1
        <4>3. run'[j] = [pc |-> "queued", kind |-> r.kind, ver |-> r.ver, reads |-> 0]
          BY <4>2 DEF RunState
        <4>4. r.kind \in Kinds \union {None} /\ r.ver \in Nat /\ "queued" \in Running
          BY <4>2 DEF RunState, Running
        <4> QED
          BY <4>1, <4>3, <4>4 DEF RunState
      <3>5. row'[j] = [row[j] EXCEPT !.st = "queued"]
        BY <1>1, <2>4
      <3>6. row'[j] \in RowState /\ row'[j].kind = row[j].kind /\ row'[j].ver = row[j].ver
        BY <1>4, <3>2, <3>5 DEF RowState, States
      <3>7. ~row'[j].path
        BY <1>4, <3>2, <3>5 DEF RowState
      <3>8. Agrees(run'[j], job'[j], row'[j], file'[j])
        <4>1. run'[j].kind = row[j].kind /\ run'[j].ver = row[j].ver /\ run'[j].kind \in Kinds
          BY <1>4, <3>2, <3>4
        <4> QED
          BY <2>2, <2>3, <3>4, <3>6, <3>7, <4>1 DEF Agrees
      <3>9. run'[j].kind = k
        BY <1>4, <3>2, <3>4
      <3> QED
        BY <2>1, <2>2, <2>3, <3>1, <3>4, <3>6, <3>8, <3>9
    <2>5. CASE ~(\E k \in Kinds : first[k] = j) /\ run[j].pc = "none"
      <3>1. row[j] = None /\ j \notin Unfinished
        BY <1>3, <2>5 DEF Agrees, Unfinished
      <3>2. m = None
        BY <2>3, <3>1
      <3>3. run'[j] = NoRun /\ row'[j] = None
        BY <1>1, <2>5, <3>1
      <3>4. NoRun \in RunState /\ NoRun.pc = "none" /\ "none" \notin Running
        BY DEF NoRun, RunState, Running
      <3> QED
        BY <2>1, <2>2, <3>2, <3>3, <3>4 DEF Agrees
    <2>6. CASE ~(\E k \in Kinds : first[k] = j) /\ run[j].pc # "none"
      <3>1. run'[j] = [run[j] EXCEPT !.pc = "done"]
        BY <1>1, <2>6
      <3>2. /\ run'[j] \in RunState /\ run'[j].pc = "done" /\ "done" \notin Running
            /\ run'[j].kind = run[j].kind /\ run'[j].ver = run[j].ver
        BY <1>3, <3>1 DEF RunState, Running
      <3>3. run[j].kind \in Kinds
        BY <1>3, <2>6 DEF Agrees
      <3>4. CASE j \in Unfinished /\ row[j].ver # dv
        <4>1. row'[j] = [row[j] EXCEPT !.st = "failed", !.fin = TRUE]
          BY <1>1, <2>6, <3>4
        <4>2. row'[j] \in RowState
          BY <1>4, <3>4, <4>1 DEF RowState, States, Terminal
        <4>3. row'[j].kind = row[j].kind /\ row'[j].ver = row[j].ver
          BY <1>4, <3>4, <4>1 DEF RowState
        <4>4. ~row'[j].path
          BY <1>4, <3>4, <4>1 DEF RowState
        <4>5. Agrees(run'[j], job'[j], row'[j], file'[j])
          BY <1>4, <2>2, <2>3, <3>2, <3>3, <3>4, <4>3, <4>4 DEF Agrees
        <4> QED
          BY <2>1, <2>2, <2>3, <3>2, <4>2, <4>5
      <3>5. CASE ~(j \in Unfinished /\ row[j].ver # dv)
        <4>1. row'[j] = row[j] /\ file'[j] = file[j]
          BY <1>1, <2>6, <3>5
        <4>2. m # None => m.kind = run[j].kind /\ m.ver = run[j].ver /\ ~m.path
          BY <1>4, <2>3
        <4>3. Agrees(run'[j], job'[j], row'[j], file'[j])
          BY <1>3, <2>2, <3>2, <3>3, <4>1, <4>2 DEF Agrees
        <4> QED
          BY <1>3, <2>1, <2>2, <2>3, <3>2, <4>1, <4>3
      <3> QED
        BY <3>4, <3>5
    <2> QED
      BY <2>4, <2>5, <2>6
  <1>6. JobTypes'
    BY <1>1, <1>5 DEF JobTypes
  <1>7. ASSUME NEW i \in JobIds, NEW j \in JobIds, i # j,
               run'[i].pc \in Running, run'[j].pc \in Running
        PROVE  run'[i].kind # run'[j].kind
    BY <1>5, <1>7
  <1>8. \A j \in JobIds : run'[j].pc \in {"none", "new", "done"} \union Running
    BY <1>6 DEF JobTypes, RunState
  <1>9. OneRunnerPerType'
    BY <1>7, <1>8 DEF OneRunnerPerType, Working, Running
  <1> QED
    BY <1>5, <1>6, <1>9 DEF JobInv

LEMMA JobStep ==
  ASSUME JobInv, FactInv, NEW j \in JobIds, Job(j)
  PROVE  JobInv'
  <1>1. CASE \E k \in Kinds : StartJob(k, j)
    <2>1. PICK k \in Kinds : StartJob(k, j)
      BY <1>1
    <2>2. Version \in Nat
      <3>1. GetVersion /\ UNCHANGED <<polled, saver, inj>>
        BY <2>1 DEF StartJob
      <3> QED
        BY <3>1, VersionFacts
    <2> QED
      BY <2>1, <2>2, StartsJob
  <1>2. CASE Work(j) \/ ReadFails(j)
    BY <1>2, SubmitsJob, UpdatesJob, ReadsFacts, FinishesJob, RecordsJob DEF Work
  <1>3. CASE PollJob(j) \/ RetireJob(j) \/ RetireRow(j)
    BY <1>3, PollsJob, RetiresJob
  <1> QED
    BY <1>1, <1>2, <1>3 DEF Job

LEMMA JobsAlone ==
  ASSUME JobInv, UNCHANGED <<job, row, file, run>>
  PROVE  JobInv'
  BY DEF JobInv, JobTypes, OneRunnerPerType, Working

LEMMA JobInvStep == JobInv /\ FactInv /\ [Next]_vars => JobInv'
  <1> SUFFICES ASSUME JobInv, FactInv, [Next]_vars PROVE JobInv'
    OBVIOUS
  <1>1. CASE UNCHANGED vars
    BY <1>1, JobsAlone DEF vars, jobs
  <1>2. CASE \E s \in Savers : Save(s)
    BY <1>2, JobsAlone DEF Save, SaveRecord, AdvanceVersion, RebuildInPlace, CommitSave, SaveFails,
                           SaveDeadlock, jobs
  <1>3. CASE Inject
    BY <1>3, JobsAlone DEF Inject, InjectStart, SyncLineIndex, SyncSkipped, PruneLineIndex,
                           IncrementVersion, RebuildProjectFileState, InjectAbandoned, jobs
  <1>4. CASE CacheExpires \/ PollReads \/ PollStores
    BY <1>4, JobsAlone DEF CacheExpires, PollReads, PollStores, jobs
  <1>5. CASE Restart
    BY <1>5, RecoversJobs DEF Restart
  <1> QED
    BY <1>1, <1>2, <1>3, <1>4, <1>5, JobStep DEF Next

-----------------------------------------------------------------------------
(* The legacy runtime *)

(* What a progress query answers is what the committed facts say: rows the   *)
(* readiness check of query_project_progress_aggregated accepts were derived *)
(* from them, for any number of saves, injections, rebuilds and failures.    *)
THEOREM ReadyExact == Spec => []ReadyIsExact
  <1>1. FactInv => ReadyIsExact
    BY DEF FactInv, ReadyIsExact, Progress
  <1> QED
    BY <1>1, FactsBegin, FactStep, PTL DEF Spec

(* Two threads never compute one kind of result for one version, whatever   *)
(* was submitted, expired, retired or recovered at start-up in between.     *)
THEOREM OneRunner == Spec => []OneRunnerPerType
  <1>1. JobInv => OneRunnerPerType
    BY DEF JobInv
  <1> QED
    BY <1>1, FactsBegin, FactStep, JobsBegin, JobInvStep, PTL DEF Spec

(* The file of a result a client is offered exists: the job's function has  *)
(* written it, and what expires, cancels or retires a job, or recovers it   *)
(* at start-up, stops offering the result before the file goes.             *)
THEOREM ResultThere == Spec => []ResultExists
  <1>1. JobInv => ResultExists
    BY DEF JobInv, Agrees, ResultExists
  <1> QED
    BY <1>1, FactsBegin, FactStep, JobsBegin, JobInvStep, PTL DEF Spec

==============================================================================
