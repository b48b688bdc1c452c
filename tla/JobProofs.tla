----------------------------- MODULE JobProofs ------------------------------
(***************************************************************************)
(* What background jobs promise.  First JobService, for any number of jobs *)
(* and processes, however processes overlap and die; then BoundedExecutor, *)
(* for any number of descriptors, callers, workers and buckets and any     *)
(* limits.  The two parts share no lemma.                                  *)
(***************************************************************************)
EXTENDS JobService, BoundedExecutor, FiniteSetTheorems, FunctionTheorems, SequenceTheorems, TLAPS

-----------------------------------------------------------------------------
(* Rows *)

(* A stamp is a heartbeat a row may carry. *)
LEMMA StampType ==
    ASSUME TypeOK
    PROVE  Stamp \in 0 .. MaxClock
  BY BoundAssumption DEF TypeOK, Stamp

(* The row after one of the transitions of job_repository.py. *)
LEMMA UpdatedRow ==
    ASSUME NEW r \in Row, NEW s \in {"interrupted"} \cup Live \cup Outcomes,
           NEW b \in 0 .. MaxClock
    PROVE  /\ [r EXCEPT !.state = s] \in Row
           /\ [r EXCEPT !.beat = b] \in Row
           /\ [r EXCEPT !.state = s, !.beat = b] \in Row
  <1> DEFINE t == [r EXCEPT !.state = s]
  <1>1. t \in Row
    BY DEF Row
  <1>2. [r EXCEPT !.beat = b] \in Row
    BY DEF Row
  <1> HIDE DEF t
  <1>3. [t EXCEPT !.beat = b] \in Row
    BY <1>1 DEF Row
  <1> QED
    BY <1>1, <1>2, <1>3 DEF t

(* transition_terminal keeps the type of the rows. *)
LEMMA TerminalType ==
    ASSUME TypeOK, NEW j \in Jobs, NEW owner, NEW s \in Outcomes,
           TransitionTerminal(j, owner, s)
    PROVE  row' \in [Jobs -> Row]
  <1>1. [row[j] EXCEPT !.state = s, !.beat = Stamp] \in Row
    BY StampType, UpdatedRow DEF TypeOK
  <1>2. row \in [Jobs -> Row]
    BY DEF TypeOK
  <1> QED
    BY <1>1, <1>2 DEF TransitionTerminal

(* A job that goes to a place of its process. *)
LEMMA GoesType ==
    ASSUME TypeOK, NEW p \in Procs, NEW j \in Jobs, NEW place \in Places, Goes(p, j, place)
    PROVE  at' \in [Procs -> [Jobs -> Places]]
  BY DEF TypeOK, Goes

-----------------------------------------------------------------------------
(* The inductive invariant *)

(* Rows are listed for recovery while they are live. *)
SeenIsLive ==
    \A p \in Procs : \A x \in seen[p] : x[2].state \in Live /\ x[2].owner # p

(* A callback about to report success has returned. *)
SuccessIsRecorded ==
    \A p \in Procs, j \in Jobs : at[p][j] = "completed" => <<p, j, "completed">> \in ran

Inv == TypeOK /\ SeenIsLive /\ SuccessIsRecorded /\ CompletedByOwner

(* Nothing has happened yet. *)
LEMMA InitInv == Init => Inv
  <1> SUFFICES ASSUME Init PROVE Inv
    OBVIOUS
  <1>1. TypeOK
    BY BoundAssumption DEF Init, TypeOK, Row, Places
  <1>2. SeenIsLive /\ SuccessIsRecorded /\ CompletedByOwner
    BY DEF Init, SeenIsLive, SuccessIsRecorded, CompletedByOwner
  <1> QED
    BY <1>1, <1>2 DEF Inv

(* Each step of the specification is one of these. *)
LEMMA Steps ==
    ASSUME Next
    PROVE  \/ \E p \in Procs :
                 \/ Start(p) \/ List(p) \/ Claim(p) \/ ListImports(p) \/ Resumed(p)
                 \/ Close(p) \/ Exit(p) \/ Crash(p)
           \/ \E p \in Procs, j \in Jobs :
                 \/ Submit(p, j) \/ CreateImport(p, j) \/ Heartbeat(p, j)
                 \/ EnqueueRecovered(p, j) \/ SubmitImport(p, j) \/ SubmitCreate(p, j)
                 \/ SubmitEnqueue(p, j) \/ FailEnqueue(p, j) \/ RejectImport(p, j)
                 \/ RunStart(p, j) \/ (\E o \in Outcomes : Callback(p, j, o)) \/ RunEnd(p, j)
                 \/ Drain(p, j)
           \/ Tick
  BY Zenon DEF Next, RecoveryStep, JobStep

(* The places and the phases the actions lead to. *)
LEMMA StepTypes ==
    ASSUME TypeOK, Next
    PROVE  TypeOK'
  <1> USE DEF TypeOK
  <1>1. ASSUME NEW p \in Procs, Start(p) PROVE TypeOK'
    BY <1>1 DEF Start
  <1>2. ASSUME NEW p \in Procs, Resumed(p) PROVE TypeOK'
    BY <1>2 DEF Resumed
  <1>3. ASSUME NEW p \in Procs, Close(p) PROVE TypeOK'
    BY <1>3 DEF Close
  <1>4. ASSUME NEW p \in Procs, List(p) PROVE TypeOK'
    BY <1>4 DEF List
  <1>5. ASSUME NEW p \in Procs, Claim(p) PROVE TypeOK'
    <2> DEFINE taken == {j \in Jobs : Unchanged(p, j)}
    <2>1. \A j \in Jobs : [row[j] EXCEPT !.state = "interrupted"] \in Row
      BY DEF Row
    <2>2. [state |-> "queued", owner |-> p, beat |-> Stamp] \in Row
      BY StampType DEF Row, Live
    <2> HIDE DEF taken
    <2>3. row' \in [Jobs -> Row]
      BY <1>5, <2>1, <2>2 DEF Claim, taken
    <2>4. at' \in [Procs -> [Jobs -> Places]]
      BY <1>5 DEF Claim, Places, taken
    <2>5. seen' \in [Procs -> SUBSET (Jobs \X Row)]
      BY <1>5 DEF Claim
    <2> QED
      BY <1>5, <2>3, <2>4, <2>5 DEF Claim
  <1>6. ASSUME NEW p \in Procs, ListImports(p) PROVE TypeOK'
    <2>1. at' \in [Procs -> [Jobs -> Places]]
      BY <1>6 DEF ListImports, Places
    <2> QED
      BY <1>6, <2>1 DEF ListImports
  <1>7. ASSUME NEW p \in Procs, Exit(p) \/ Crash(p) PROVE TypeOK'
    <2>1. at' \in [Procs -> [Jobs -> Places]]
      BY <1>7 DEF Exit, Crash, Dies, Places
    <2> QED
      BY <1>7, <2>1 DEF Exit, Crash, Dies
  <1>8. ASSUME NEW p \in Procs, NEW j \in Jobs, Submit(p, j) \/ SubmitImport(p, j) \/ SubmitEnqueue(p, j)
             \/ EnqueueRecovered(p, j) \/ Drain(p, j)
        PROVE TypeOK'
    <2>1. PICK place \in Places : Goes(p, j, place)
      BY <1>8 DEF Submit, SubmitImport, SubmitEnqueue, EnqueueRecovered, Drain,
                  Places, Submitting
    <2> QED
      BY <1>8, <2>1, GoesType
         DEF Submit, SubmitImport, SubmitEnqueue, EnqueueRecovered, Drain
  <1>9. ASSUME NEW p \in Procs, NEW j \in Jobs, CreateImport(p, j) PROVE TypeOK'
    <2>1. Created(ImportToken) \in Row
      BY BoundAssumption DEF Created, Row, Live
    <2>2. "import" \in Places
      BY DEF Places
    <2> QED
      BY <1>9, <2>1, <2>2, GoesType DEF CreateImport
  <1>10. ASSUME NEW p \in Procs, NEW j \in Jobs, SubmitCreate(p, j) PROVE TypeOK'
    <2>1. Created(p) \in Row
      BY BoundAssumption DEF Created, Row, Live
    <2>2. {"reject", "none", "enqueue", "done"} \subseteq Places
      BY DEF Places, Submitting
    <2>3. PICK place \in Places : Goes(p, j, place)
      BY <1>10, <2>2 DEF SubmitCreate
    <2> QED
      BY <1>10, <2>1, <2>3, GoesType DEF SubmitCreate
  <1>11. ASSUME NEW p \in Procs, NEW j \in Jobs, FailEnqueue(p, j) \/ RejectImport(p, j) PROVE TypeOK'
    <2>1. {"none", "lost"} \subseteq Places /\ "failed" \in Outcomes
      BY DEF Places, Outcomes
    <2>2. row' \in [Jobs -> Row]
      BY <1>11, <2>1, TerminalType DEF FailEnqueue, RejectImport, FailsRow
    <2> QED
      BY <1>11, <2>1, <2>2, GoesType DEF FailEnqueue, RejectImport
  <1>12. ASSUME NEW p \in Procs, NEW j \in Jobs, RunStart(p, j) PROVE TypeOK'
    <2>1. {"running", "none", "lost"} \subseteq Places /\ "running" \in Live
      BY DEF Places, Live
    <2>2. [row[j] EXCEPT !.state = "running", !.beat = Stamp] \in Row
      BY <2>1, StampType, UpdatedRow
    <2>3. row' \in [Jobs -> Row]
      BY <1>12, <2>2 DEF RunStart
    <2>4. at' \in [Procs -> [Jobs -> Places]]
      BY <1>12, <2>1, GoesType DEF RunStart
    <2> QED
      BY <1>12, <2>3, <2>4 DEF RunStart
  <1>13. ASSUME NEW p \in Procs, NEW j \in Jobs, NEW o \in Outcomes, Callback(p, j, o) PROVE TypeOK'
    <2>1. o \in Places
      BY DEF Places
    <2> QED
      BY <1>13, <2>1, GoesType DEF Callback
  <1>14. ASSUME NEW p \in Procs, NEW j \in Jobs, Heartbeat(p, j) PROVE TypeOK'
    <2>1. [row[j] EXCEPT !.beat = Stamp] \in Row
      BY StampType DEF Row
    <2> QED
      BY <1>14, <2>1 DEF Heartbeat
  <1>15. ASSUME NEW p \in Procs, NEW j \in Jobs, RunEnd(p, j) PROVE TypeOK'
    <2>1. {"done", "lost"} \subseteq Places
      BY DEF Places
    <2>2. row' \in [Jobs -> Row]
      BY <1>15, TerminalType DEF RunEnd
    <2> QED
      BY <1>15, <2>1, <2>2, GoesType DEF RunEnd
  <1>16. ASSUME Tick PROVE TypeOK'
    BY <1>16, BoundAssumption DEF Tick
  <1> QED
    BY Steps, <1>1, <1>2, <1>3, <1>4, <1>5, <1>6, <1>7, <1>8, <1>9, <1>10, <1>11, <1>12, <1>13, <1>14, <1>15, <1>16

(* What transition_terminal does to a row. *)
LEMMA TerminalRow ==
    ASSUME TypeOK, NEW i \in Jobs, NEW owner, NEW s \in Outcomes,
           TransitionTerminal(i, owner, s), NEW j \in Jobs
    PROVE  \/ row'[j] = row[j]
           \/ /\ j = i
              /\ row[j].state \notin Outcomes
              /\ row[j].owner = owner /\ row'[j].owner = owner
              /\ row'[j].state = s
  <1>1. row \in [Jobs -> Row]
    BY DEF TypeOK
  <1>2. CASE MayEnd(i, owner) /\ i = j
    <2>1. row'[j] = [row[j] EXCEPT !.state = s, !.beat = Stamp]
      BY <1>1, <1>2 DEF TransitionTerminal
    <2>2. row'[j].state = s /\ row'[j].owner = row[j].owner
      BY <1>1, <2>1 DEF Row
    <2> QED
      BY <1>2, <2>2 DEF MayEnd, Live, Outcomes
  <1>3. CASE ~(MayEnd(i, owner) /\ i = j)
    BY <1>1, <1>3 DEF TransitionTerminal
  <1> QED
    BY <1>2, <1>3

(* A row that has not ended moves on, to completed only for the process     *)
(* that owns it and whose callback has returned.                            *)
MovesOn(j) ==
    /\ row[j].state \notin Outcomes
    /\ row'[j].state = "completed" =>
         \E p \in Procs : at[p][j] = "completed" /\ row'[j].owner = p

(* What a step does to a row: nothing, a heartbeat, or it moves on. *)
LEMMA RowStep ==
    ASSUME TypeOK, SeenIsLive, Next, NEW j \in Jobs
    PROVE  \/ row'[j] = row[j]
           \/ row'[j].state = row[j].state /\ row'[j].owner = row[j].owner
           \/ MovesOn(j)
  <1> DEFINE Goal == \/ row'[j] = row[j]
                     \/ row'[j].state = row[j].state /\ row'[j].owner = row[j].owner
                     \/ MovesOn(j)
  <1> SUFFICES Goal
    OBVIOUS
  <1>0. row \in [Jobs -> Row]
    BY DEF TypeOK
  <1>1. ASSUME NEW p \in Procs,
               \/ Start(p) \/ List(p) \/ ListImports(p) \/ Resumed(p) \/ Close(p)
               \/ Exit(p) \/ Crash(p)
        PROVE  Goal
    BY <1>1 DEF Start, List, ListImports, Resumed, Close, Exit, Crash, Dies
  <1>2. ASSUME NEW p \in Procs, Claim(p) PROVE Goal
    <2>1. CASE Unchanged(p, j)
      <3>1. row[j].state \in Live
        BY <2>1 DEF Unchanged, SeenIsLive
      <3>2. row'[j].state \in {"queued", "interrupted"}
        BY <1>0, <1>2, <2>1 DEF Claim, Row
      <3> QED
        BY <3>1, <3>2 DEF MovesOn, Live, Outcomes
    <2>2. CASE ~Unchanged(p, j)
      BY <1>0, <1>2, <2>2 DEF Claim
    <2> QED
      BY <2>1, <2>2
  <1>3. ASSUME NEW p \in Procs, NEW i \in Jobs,
               \/ Submit(p, i) \/ SubmitImport(p, i) \/ SubmitEnqueue(p, i)
               \/ EnqueueRecovered(p, i) \/ Drain(p, i)
               \/ \E o \in Outcomes : Callback(p, i, o)
        PROVE  Goal
    BY <1>3 DEF Submit, SubmitImport, SubmitEnqueue, EnqueueRecovered, Drain, Callback
  <1>4. ASSUME NEW p \in Procs, NEW i \in Jobs, CreateImport(p, i) \/ SubmitCreate(p, i)
        PROVE  Goal
    <2>1. row' = row \/ (row[i].state = "none" /\ \E o : row' = [row EXCEPT ![i] = Created(o)])
      BY <1>4 DEF CreateImport, SubmitCreate, Exists
    <2>2. \A o : Created(o).state = "queued"
      BY DEF Created
    <2> QED
      BY <1>0, <2>1, <2>2 DEF MovesOn, Outcomes
  <1>5. ASSUME NEW p \in Procs, NEW i \in Jobs, Heartbeat(p, i) PROVE Goal
    <2>1. row' = [row EXCEPT ![i].beat = Stamp]
      BY <1>5 DEF Heartbeat
    <2> QED
      BY <1>0, <2>1 DEF Row
  <1>6. ASSUME NEW p \in Procs, NEW i \in Jobs, FailEnqueue(p, i) \/ RejectImport(p, i)
        PROVE  Goal
    <2>1. \/ row' = row
          \/ \E owner : TransitionTerminal(i, owner, "failed")
      BY <1>6 DEF FailEnqueue, RejectImport, FailsRow
    <2>2. CASE row' = row
      BY <2>2
    <2>3. CASE \E owner : TransitionTerminal(i, owner, "failed")
      <3>1. PICK owner : TransitionTerminal(i, owner, "failed")
        BY <2>3
      <3>2. "failed" \in Outcomes /\ "failed" # "completed"
        BY DEF Outcomes
      <3> QED
        BY <3>1, <3>2, TerminalRow DEF MovesOn
    <2> QED
      BY <2>1, <2>2, <2>3
  <1>7. ASSUME NEW p \in Procs, NEW i \in Jobs, RunStart(p, i) PROVE Goal
    <2>1. CASE row' = row
      BY <2>1
    <2>2. CASE /\ row[i].state = "queued"
               /\ row' = [row EXCEPT ![i].state = "running", ![i].beat = Stamp]
      <3>1. i # j => row'[j] = row[j]
        BY <1>0, <2>2
      <3>2. i = j => row'[j].state = "running"
        BY <1>0, <2>2 DEF Row
      <3> QED
        BY <2>2, <3>1, <3>2 DEF MovesOn, Outcomes
    <2> QED
      BY <1>7, <2>1, <2>2 DEF RunStart
  <1>8. ASSUME NEW p \in Procs, NEW i \in Jobs, RunEnd(p, i) PROVE Goal
    <2>1. CASE row' = row
      BY <2>1
    <2>2. CASE TransitionTerminal(i, p, at[p][i])
      BY <1>8, <2>2, TerminalRow DEF RunEnd, MovesOn
    <2> QED
      BY <1>8, <2>1, <2>2 DEF RunEnd
  <1>9. ASSUME Tick PROVE Goal
    BY <1>9 DEF Tick
  <1> HIDE DEF Goal
  <1> QED
    BY Steps, <1>1, <1>2, <1>3, <1>4, <1>5, <1>6, <1>7, <1>8, <1>9

(* The history only grows. *)
LEMMA RanGrows ==
    ASSUME Next
    PROVE  ran \subseteq ran'
  <1>1. ASSUME NEW p \in Procs,
               \/ Start(p) \/ List(p) \/ Claim(p) \/ ListImports(p) \/ Resumed(p)
               \/ Close(p) \/ Exit(p) \/ Crash(p)
        PROVE  ran' = ran
    BY <1>1 DEF Start, List, Claim, ListImports, Resumed, Close, Exit, Crash, Dies
  <1>2. ASSUME NEW p \in Procs, NEW j \in Jobs,
               \/ Submit(p, j) \/ CreateImport(p, j) \/ Heartbeat(p, j)
               \/ EnqueueRecovered(p, j) \/ SubmitImport(p, j) \/ SubmitCreate(p, j)
               \/ SubmitEnqueue(p, j) \/ FailEnqueue(p, j) \/ RejectImport(p, j)
               \/ RunStart(p, j) \/ RunEnd(p, j) \/ Drain(p, j)
        PROVE  ran' = ran
    BY <1>2 DEF Submit, CreateImport, Heartbeat, EnqueueRecovered, SubmitImport, SubmitCreate,
                SubmitEnqueue, FailEnqueue, RejectImport, RunStart, RunEnd, Drain
  <1>3. ASSUME NEW p \in Procs, NEW j \in Jobs, NEW o \in Outcomes, Callback(p, j, o)
        PROVE  ran \subseteq ran'
    BY <1>3 DEF Callback
  <1>4. ASSUME Tick PROVE ran' = ran
    BY <1>4 DEF Tick
  <1> QED
    BY Steps, <1>1, <1>2, <1>3, <1>4

(* A callback reports success only after it has returned. *)
LEMMA SuccessStep ==
    ASSUME TypeOK, SuccessIsRecorded, Next
    PROVE  SuccessIsRecorded'
  <1> SUFFICES ASSUME NEW q \in Procs, NEW i \in Jobs, at'[q][i] = "completed"
               PROVE  <<q, i, "completed">> \in ran'
    BY DEF SuccessIsRecorded
  <1>0. at \in [Procs -> [Jobs -> Places]]
    BY DEF TypeOK
  <1>1. CASE at[q][i] = "completed"
    BY <1>1, RanGrows DEF SuccessIsRecorded
  <1>2. CASE at[q][i] # "completed"
    <2>1. ASSUME NEW p \in Procs, Start(p) \/ List(p) \/ Resumed(p) \/ Close(p)
          PROVE  FALSE
      BY <1>2, <2>1 DEF Start, List, Resumed, Close
    <2>2. ASSUME NEW p \in Procs, Claim(p) \/ ListImports(p) \/ Exit(p) \/ Crash(p)
          PROVE  FALSE
      BY <1>0, <1>2, <2>2 DEF Claim, ListImports, Exit, Crash, Dies
    <2>3. ASSUME NEW p \in Procs, NEW j \in Jobs, NEW place, Goes(p, j, place),
                 place # "completed"
          PROVE  FALSE
      BY <1>0, <1>2, <2>3 DEF Goes
    <2>4. ASSUME NEW p \in Procs, NEW j \in Jobs,
                 \/ Submit(p, j) \/ CreateImport(p, j) \/ EnqueueRecovered(p, j)
                 \/ SubmitImport(p, j) \/ SubmitCreate(p, j) \/ SubmitEnqueue(p, j)
                 \/ FailEnqueue(p, j) \/ RejectImport(p, j) \/ RunStart(p, j)
                 \/ RunEnd(p, j) \/ Drain(p, j)
          PROVE  FALSE
      <3>1. \E place \in {"create", "import", "queued", "fail", "reject", "none", "enqueue",
                          "running", "done", "lost"} : Goes(p, j, place)
        BY <2>4 DEF Submit, CreateImport, EnqueueRecovered, SubmitImport, SubmitCreate,
                    SubmitEnqueue, FailEnqueue, RejectImport, RunStart, RunEnd, Drain
      <3> QED
        BY <2>3, <3>1
    <2>5. ASSUME NEW p \in Procs, NEW j \in Jobs, Heartbeat(p, j) PROVE FALSE
      BY <1>2, <2>5 DEF Heartbeat
    <2>6. ASSUME NEW p \in Procs, NEW j \in Jobs, NEW o \in Outcomes, Callback(p, j, o)
          PROVE  <<q, i, "completed">> \in ran'
      BY <1>0, <1>2, <2>6 DEF Callback, Goes
    <2>7. ASSUME Tick PROVE FALSE
      BY <1>2, <2>7 DEF Tick
    <2> QED
      BY Steps, <2>1, <2>2, <2>4, <2>5, <2>6, <2>7
  <1> QED
    BY <1>1, <1>2

(* Only live rows of other processes are ever listed. *)
LEMMA SeenStep ==
    ASSUME TypeOK, SeenIsLive, Next
    PROVE  SeenIsLive'
  <1> SUFFICES ASSUME NEW q \in Procs, NEW x \in seen'[q]
               PROVE  x[2].state \in Live /\ x[2].owner # q
    BY DEF SeenIsLive
  <1>0. seen \in [Procs -> SUBSET (Jobs \X Row)]
    BY DEF TypeOK
  <1>1. CASE seen'[q] \subseteq seen[q]
    BY <1>1 DEF SeenIsLive
  <1>2. ASSUME NEW p \in Procs, List(p)
        PROVE  \/ seen'[q] = seen[q]
               \/ \E i \in Jobs : Recoverable(q, i) /\ x = <<i, row[i]>>
    BY <1>0, <1>2 DEF List
  <1>3. ASSUME NEW p \in Procs, Claim(p) \/ Exit(p) \/ Crash(p)
        PROVE  seen'[q] \subseteq seen[q]
    BY <1>0, <1>3 DEF Claim, Exit, Crash, Dies
  <1>4. ASSUME NEW p \in Procs, Start(p) \/ ListImports(p) \/ Resumed(p) \/ Close(p)
        PROVE  seen' = seen
    BY <1>4 DEF Start, ListImports, Resumed, Close
  <1>5. ASSUME NEW p \in Procs, NEW j \in Jobs,
               \/ Submit(p, j) \/ CreateImport(p, j) \/ Heartbeat(p, j)
               \/ EnqueueRecovered(p, j) \/ SubmitImport(p, j) \/ SubmitCreate(p, j)
               \/ SubmitEnqueue(p, j) \/ FailEnqueue(p, j) \/ RejectImport(p, j)
               \/ RunStart(p, j) \/ (\E o \in Outcomes : Callback(p, j, o)) \/ RunEnd(p, j)
               \/ Drain(p, j)
        PROVE  seen' = seen
    BY <1>5 DEF Submit, CreateImport, Heartbeat, EnqueueRecovered, SubmitImport, SubmitCreate,
                SubmitEnqueue, FailEnqueue, RejectImport, RunStart, Callback, RunEnd, Drain
  <1>6. ASSUME Tick PROVE seen' = seen
    BY <1>6 DEF Tick
  <1>7. CASE \E i \in Jobs : Recoverable(q, i) /\ x = <<i, row[i]>>
    BY <1>7 DEF Recoverable
  <1> QED
    BY Steps, <1>1, <1>2, <1>3, <1>4, <1>5, <1>6, <1>7

(* Every step keeps the invariant. *)
LEMMA InvStep == Inv /\ [Next]_vars => Inv'
  <1> SUFFICES ASSUME Inv, [Next]_vars PROVE Inv'
    OBVIOUS
  <1>1. CASE Next
    <2>1. TypeOK' /\ SeenIsLive' /\ SuccessIsRecorded'
      BY <1>1, StepTypes, SeenStep, SuccessStep DEF Inv
    <2>2. CompletedByOwner'
      <3> SUFFICES ASSUME NEW j \in Jobs, row'[j].state = "completed"
                   PROVE  <<row'[j].owner, j, "completed">> \in ran'
        BY DEF CompletedByOwner
      <3>1. "completed" \in Outcomes
        BY DEF Outcomes
      <3>2. ran \subseteq ran'
        BY <1>1, RanGrows
      <3> QED
        BY <1>1, <3>1, <3>2, RowStep DEF Inv, MovesOn, CompletedByOwner, SuccessIsRecorded
    <2> QED
      BY <2>1, <2>2 DEF Inv
  <1>2. CASE UNCHANGED vars
    BY <1>2 DEF vars, Inv, TypeOK, SeenIsLive, SuccessIsRecorded, CompletedByOwner
  <1> QED
    BY <1>1, <1>2

-----------------------------------------------------------------------------
(* The theorems *)

(* Inv holds in every reachable state. *)
THEOREM Invariant == Spec => []Inv
  <1>1. Init => Inv
    BY InitInv
  <1>2. Inv /\ [Next]_vars => Inv'
    BY InvStep
  <1> QED
    BY <1>1, <1>2, PTL DEF Spec

(* Rows, places and phases keep their types. *)
THEOREM TypeCorrect == Spec => []TypeOK
  <1>1. Inv => TypeOK
    BY DEF Inv
  <1> QED
    BY <1>1, Invariant, PTL

(* A completed job was completed by the process that held its lease and     *)
(* whose callback had returned (_runner, transition_terminal), for any      *)
(* number of overlapping processes.                                         *)
THEOREM OwnerCompletes == Spec => []CompletedByOwner
  <1>1. Inv => CompletedByOwner
    BY DEF Inv
  <1> QED
    BY <1>1, Invariant, PTL

(* A job that has ended keeps its state, whatever recovery has listed and   *)
(* whatever callback or heartbeat comes late (the fences of                 *)
(* job_repository.py).                                                      *)
THEOREM JobsEndOnce == Spec => EndedIsFinal
  <1> DEFINE Stays == \A j \in Jobs : row[j].state \in Outcomes => row'[j].state = row[j].state
  <1>1. Inv /\ [Next]_vars => [Stays]_vars
    <2> SUFFICES ASSUME Inv, Next PROVE Stays
      OBVIOUS
    <2> QED
      BY RowStep DEF Inv, MovesOn
  <1>2. Spec => [][Stays]_vars
    <2> HIDE DEF Stays
    <2> QED
      BY <1>1, Invariant, PTL DEF Spec
  <1> QED
    BY <1>2 DEF EndedIsFinal

-----------------------------------------------------------------------------
(* Who serves the live jobs *)

(* The rows of imports belong to no process: they exist before an import is *)
(* submitted, and recovery lists none of them.                              *)
ImportsApart ==
    /\ \A j \in Imports : row[j].state # "none" => row[j].owner = ImportToken
    /\ \A p \in Procs, j \in Imports :
         at[p][j] \in {"import", "listed", "create"} => row[j].state # "none"
    /\ \A p \in Procs : \A x \in seen[p] : x[1] \notin Imports

(* A process that is neither closing nor dead has a callback, or is about   *)
(* to enqueue or fail one, for every live row under its lease.              *)
Behind(state, place) ==
    /\ state = "queued" => place \in {"claimed", "queued", "enqueue", "fail", "lost"}
    /\ state = "running" => place \in {"running", "lost"} \cup Outcomes

Served ==
    \A p \in Procs, j \in Jobs :
        proc[p] \notin {"closing", "dead"} /\ row[j].owner = p =>
            Behind(row[j].state, at[p][j])

(* Jobs stay claimed only until recovery has enqueued them. *)
ClaimedInRecovery == \A p \in Procs, j \in Jobs : at[p][j] = "claimed" => proc[p] = "enqueue"

ServedInv == ImportsApart /\ Served /\ ClaimedInRecovery

(* What a step does to one place. *)
LEMMA PlaceOf ==
    ASSUME TypeOK, NEW p \in Procs, NEW j \in Jobs, NEW place, Goes(p, j, place)
    PROVE  /\ at'[p][j] = place
           /\ \A q \in Procs, i \in Jobs : q # p \/ i # j => at'[q][i] = at[q][i]
  BY DEF TypeOK, Goes

(* What transition_terminal does to one row: ended if it may end. *)
LEMMA EndedRow ==
    ASSUME TypeOK, NEW j \in Jobs, NEW owner, NEW s \in Outcomes,
           TransitionTerminal(j, owner, s)
    PROVE  /\ \A i \in Jobs : i # j => row'[i] = row[i]
           /\ row'[j].owner = row[j].owner
           /\ row'[j] = row[j] \/ (row'[j].state = s /\ row[j].state # "none")
           /\ row[j].owner = owner /\ row[j].state \in Live => row'[j].state = s
  <1>1. row \in [Jobs -> Row] /\ row[j] \in Row
    BY DEF TypeOK
  <1>2. CASE MayEnd(j, owner)
    <2>1. row'[j] = [row[j] EXCEPT !.state = s, !.beat = Stamp] /\ row[j].state # "none"
      BY <1>1, <1>2 DEF TransitionTerminal, MayEnd, Live
    <2>2. row'[j].state = s /\ row'[j].owner = row[j].owner
      BY <1>1, <2>1 DEF Row
    <2>3. \A i \in Jobs : i # j => row'[i] = row[i]
      BY <1>1, <1>2 DEF TransitionTerminal
    <2> QED
      BY <2>1, <2>2, <2>3
  <1>3. CASE ~MayEnd(j, owner)
    BY <1>3 DEF TransitionTerminal, MayEnd
  <1> QED
    BY <1>2, <1>3

(* A started process, a listed job, a heartbeat: rows and places of the     *)
(* jobs stay.                                                               *)
SameState == \A j \in Jobs : row'[j].state = row[j].state /\ row'[j].owner = row[j].owner

(* The rows of imports keep their owner, and keep existing. *)
LEMMA ImportsStep ==
    ASSUME TypeOK, SeenIsLive, ImportsApart, Next
    PROVE  ImportsApart'
  <1>row. row \in [Jobs -> Row]
    BY DEF TypeOK
  <1>at. at \in [Procs -> [Jobs -> Places]]
    BY DEF TypeOK
  <1>seen. seen \in [Procs -> SUBSET (Jobs \X Row)]
    BY DEF TypeOK
  <1>jobs. Imports \subseteq Jobs
    BY JobsAssumption
  <1> DEFINE RowsOk == \A j \in Imports : /\ row[j].state # "none" => row'[j].state # "none"
                                          /\ row'[j].state # "none" => row'[j].owner = ImportToken
             PlacesOk == \A p \in Procs, j \in Imports :
                           at'[p][j] \in {"import", "listed", "create"} => row'[j].state # "none"
             SeenOk == \A p \in Procs : \A x \in seen'[p] : x[1] \notin Imports
  <1>q. RowsOk /\ PlacesOk /\ SeenOk => ImportsApart'
    BY DEF ImportsApart
  <1>r. /\ SameState => RowsOk
        /\ UNCHANGED row => RowsOk
        /\ UNCHANGED seen => SeenOk
        /\ RowsOk /\ UNCHANGED at => PlacesOk
    BY <1>jobs DEF ImportsApart, SameState
  <1>g. ASSUME NEW p \in Procs, NEW j \in Jobs, NEW place, Goes(p, j, place), RowsOk,
               j \in Imports /\ place \in {"import", "listed", "create"} => row'[j].state # "none"
        PROVE  PlacesOk
    <2> SUFFICES ASSUME NEW q \in Procs, NEW i \in Imports,
                        at'[q][i] \in {"import", "listed", "create"}
                 PROVE  row'[i].state # "none"
      OBVIOUS
    <2>1. CASE q = p /\ i = j
      BY <1>g, <2>1, PlaceOf
    <2>2. CASE ~(q = p /\ i = j)
      BY <1>g, <1>jobs, <2>2, PlaceOf DEF ImportsApart
    <2> QED
      BY <2>1, <2>2
  <1> HIDE DEF RowsOk, PlacesOk, SeenOk
  <1>1. ASSUME NEW p \in Procs, Start(p) \/ Resumed(p) \/ Close(p)
        PROVE  ImportsApart'
    BY <1>1, <1>q, <1>r DEF Start, Resumed, Close
  <1>2. ASSUME NEW p \in Procs, List(p)
        PROVE  ImportsApart'
    <2>1. SeenOk
      BY <1>2, <1>seen DEF List, Recoverable, ImportsApart, SeenOk
    <2> QED
      BY <1>2, <1>q, <1>r, <2>1 DEF List
  <1>3. ASSUME NEW p \in Procs, Claim(p)
        PROVE  ImportsApart'
    <2>1. \A j \in Imports : ~Unchanged(p, j)
      BY DEF Unchanged, ImportsApart
    <2>2. \A j \in Imports : row'[j] = row[j] /\ \A q \in Procs : at'[q][j] = at[q][j]
      BY <1>3, <1>row, <1>at, <1>jobs, <2>1 DEF Claim
    <2>3. SeenOk
      BY <1>3, <1>seen DEF Claim, ImportsApart, SeenOk
    <2> QED
      BY <1>q, <2>2, <2>3 DEF ImportsApart, RowsOk, PlacesOk
  <1>4. ASSUME NEW p \in Procs, ListImports(p)
        PROVE  ImportsApart'
    <2>1. PlacesOk
      BY <1>4, <1>at, <1>jobs DEF ListImports, Live, ImportsApart, PlacesOk
    <2> QED
      BY <1>4, <1>q, <1>r, <2>1 DEF ListImports
  <1>5. ASSUME NEW p \in Procs, Exit(p) \/ Crash(p)
        PROVE  ImportsApart'
    <2>1. PlacesOk
      BY <1>5, <1>at, <1>jobs DEF Exit, Crash, Dies, ImportsApart, PlacesOk
    <2>2. SeenOk
      BY <1>5, <1>seen DEF Exit, Crash, Dies, ImportsApart, SeenOk
    <2> QED
      BY <1>5, <1>q, <1>r, <2>1, <2>2 DEF Exit, Crash, Dies
  <1>6. ASSUME NEW p \in Procs, NEW j \in Jobs,
               \/ Submit(p, j) \/ EnqueueRecovered(p, j) \/ SubmitImport(p, j)
               \/ SubmitEnqueue(p, j) \/ Drain(p, j) \/ (\E o \in Outcomes : Callback(p, j, o))
        PROVE  ImportsApart'
    <2>1. /\ UNCHANGED <<row, seen>>
          /\ \E place : /\ Goes(p, j, place)
                        /\ j \in Imports /\ place \in {"import", "listed", "create"} =>
                             row[j].state # "none"
      BY <1>6 DEF Submit, EnqueueRecovered, SubmitImport, SubmitEnqueue, Drain, Callback,
                  Outcomes, ImportsApart
    <2> QED
      BY <1>q, <1>r, <1>g, <2>1
  <1>7. ASSUME NEW p \in Procs, NEW j \in Jobs, CreateImport(p, j)
        PROVE  ImportsApart'
    <2>1. Created(ImportToken).state = "queued" /\ Created(ImportToken).owner = ImportToken
      BY DEF Created
    <2>2. RowsOk
      BY <1>7, <1>row, <1>jobs, <2>1 DEF CreateImport, ImportsApart, RowsOk
    <2>3. row'[j].state # "none"
      BY <1>7, <1>row, <2>1 DEF CreateImport
    <2> QED
      BY <1>7, <1>q, <1>r, <1>g, <2>2, <2>3 DEF CreateImport
  <1>8. ASSUME NEW p \in Procs, NEW j \in Jobs, SubmitCreate(p, j)
        PROVE  ImportsApart'
    <2>1. j \in Imports => Exists(j)
      BY <1>8 DEF SubmitCreate, ImportsApart, Exists
    <2>2. row' = row \/ (j \notin Imports /\ row' = [row EXCEPT ![j] = Created(p)])
      BY <1>8, <2>1 DEF SubmitCreate
    <2>3. RowsOk
      BY <1>row, <1>jobs, <2>2 DEF ImportsApart, RowsOk
    <2>4. \E place \in {"reject", "none", "enqueue", "done"} : Goes(p, j, place)
      BY <1>8 DEF SubmitCreate
    <2>5. UNCHANGED seen
      BY <1>8 DEF SubmitCreate
    <2> QED
      BY <1>q, <1>r, <1>g, <2>3, <2>4, <2>5
  <1>9. ASSUME NEW p \in Procs, NEW j \in Jobs, FailEnqueue(p, j) \/ RejectImport(p, j) \/ RunEnd(p, j)
        PROVE  ImportsApart'
    <2>1. UNCHANGED seen /\ \E place \in {"none", "lost", "done"} : Goes(p, j, place)
      BY <1>9 DEF FailEnqueue, RejectImport, RunEnd
    <2>2. row' = row \/ \E s \in Outcomes : \E owner : TransitionTerminal(j, owner, s)
      BY <1>9 DEF FailEnqueue, RejectImport, RunEnd, FailsRow, Outcomes
    <2>3. ASSUME NEW owner, NEW s \in Outcomes, TransitionTerminal(j, owner, s)
          PROVE  RowsOk
      <3>1. s # "none"
        BY DEF Outcomes
      <3> QED
        BY <1>jobs, <2>3, <3>1, EndedRow DEF ImportsApart, RowsOk
    <2> QED
      BY <1>q, <1>r, <1>g, <2>1, <2>2, <2>3
  <1>10. ASSUME NEW p \in Procs, NEW j \in Jobs, RunStart(p, j)
         PROVE  ImportsApart'
    <2>1. UNCHANGED seen /\ \E place \in {"none", "lost", "running"} : Goes(p, j, place)
      BY <1>10 DEF RunStart
    <2>2. \/ row' = row
          \/ /\ row[j].state = "queued"
             /\ row' = [row EXCEPT ![j].state = "running", ![j].beat = Stamp]
      BY <1>10 DEF RunStart
    <2>3. RowsOk
      BY <1>row, <1>jobs, <2>2 DEF Row, ImportsApart, RowsOk
    <2> QED
      BY <1>q, <1>r, <1>g, <2>1, <2>3
  <1>11. ASSUME NEW p \in Procs, NEW j \in Jobs, Heartbeat(p, j)
         PROVE  ImportsApart'
    <2>1. SameState
      BY <1>11, <1>row DEF Heartbeat, Row, SameState
    <2> QED
      BY <1>11, <1>q, <1>r, <2>1 DEF Heartbeat
  <1>12. ASSUME Tick PROVE ImportsApart'
    BY <1>12, <1>q, <1>r DEF Tick
  <1> QED
    BY Steps, <1>1, <1>2, <1>3, <1>4, <1>5, <1>6, <1>7, <1>8, <1>9, <1>10, <1>11, <1>12

(* Every live row keeps its callback. *)
LEMMA ServedStep ==
    ASSUME TypeOK, SeenIsLive, ServedInv, Next
    PROVE  Served'
  <1>row. row \in [Jobs -> Row]
    BY DEF TypeOK
  <1>at. at \in [Procs -> [Jobs -> Places]]
    BY DEF TypeOK
  <1>proc. proc \in [Procs -> {"off", "list", "claim", "enqueue", "resume", "up", "closing", "dead"}]
    BY DEF TypeOK
  <1> SUFFICES ASSUME NEW q \in Procs, NEW i \in Jobs,
                      proc'[q] \notin {"closing", "dead"}, row'[i].owner = q
               PROVE  Behind(row'[i].state, at'[q][i])
    BY DEF Served
  <1>s. proc[q] \notin {"closing", "dead"} /\ row[i].owner = q => Behind(row[i].state, at[q][i])
    BY DEF ServedInv, Served
  <1>same. ASSUME proc' = proc, row'[i].owner = row[i].owner, row'[i].state = row[i].state,
                  at'[q][i] = at[q][i]
           PROVE  Behind(row'[i].state, at'[q][i])
    BY <1>same, <1>s
  <1>imp. i \notin Imports \/ row[i].state = "none" \/ row[i].owner # q
    BY OwnersAssumption DEF ServedInv, ImportsApart
  <1>none. \A s, place : s \notin Live => Behind(s, place)
    BY DEF Behind, Live
  <1>1. ASSUME NEW p \in Procs, Start(p) \/ Resumed(p) \/ Close(p) \/ List(p)
        PROVE  Behind(row'[i].state, at'[q][i])
    <2>1. row' = row /\ at' = at /\ (proc[q] \in {"closing", "dead"} => proc'[q] = proc[q])
      BY <1>1, <1>proc DEF Start, Resumed, Close, List
    <2> QED
      BY <1>s, <2>1
  <1>2. ASSUME NEW p \in Procs, Claim(p)
        PROVE  Behind(row'[i].state, at'[q][i])
    <2>1. proc[q] \in {"closing", "dead"} => proc'[q] = proc[q]
      BY <1>2, <1>proc DEF Claim
    <2>2. CASE Unchanged(p, i) /\ i \in Handled
      <3>1. row'[i] = [state |-> "queued", owner |-> p, beat |-> Stamp] /\ at'[p][i] = "claimed"
        BY <1>2, <1>row, <1>at, <2>2 DEF Claim
      <3>2. q = p /\ row'[i].state = "queued"
        BY <3>1
      <3> QED
        BY <3>1, <3>2 DEF Behind
    <2>3. CASE Unchanged(p, i) /\ i \notin Handled
      <3>1. row'[i] = [row[i] EXCEPT !.state = "interrupted"]
        BY <1>2, <1>row, <2>3 DEF Claim
      <3>2. row'[i].state = "interrupted"
        BY <1>row, <3>1 DEF Row
      <3> QED
        BY <1>none, <3>2 DEF Live
    <2>4. CASE ~Unchanged(p, i)
      <3>1. row'[i] = row[i] /\ at'[q][i] = at[q][i]
        BY <1>2, <1>row, <1>at, <2>4 DEF Claim
      <3> QED
        BY <1>s, <2>1, <3>1
    <2> QED
      BY <2>2, <2>3, <2>4
  <1>3. ASSUME NEW p \in Procs, ListImports(p)
        PROVE  Behind(row'[i].state, at'[q][i])
    <2>1. /\ row' = row /\ (proc[q] \in {"closing", "dead"} => proc'[q] = proc[q])
          /\ i \notin Imports \/ row[i].state = "none" => at'[q][i] = at[q][i]
      BY <1>3, <1>proc, <1>at DEF ListImports, Live
    <2> QED
      BY <1>s, <1>imp, <2>1
  <1>4. ASSUME NEW p \in Procs, Exit(p) \/ Crash(p)
        PROVE  Behind(row'[i].state, at'[q][i])
    <2>1. row' = row /\ q # p /\ proc'[q] = proc[q] /\ at'[q][i] = at[q][i]
      BY <1>4, <1>proc, <1>at DEF Exit, Crash, Dies
    <2> QED
      BY <1>s, <2>1
  <1>go. ASSUME NEW p \in Procs, NEW j \in Jobs, NEW place, Goes(p, j, place), proc' = proc,
                \A k \in Jobs : k # j => row'[k] = row[k],
                \/ row'[j] = row[j]
                \/ row'[j].owner \notin Procs \ {p}
                \/ row'[j].state \notin Live,
                q = p /\ i = j => Behind(row'[i].state, place)
         PROVE  Behind(row'[i].state, at'[q][i])
    <2>1. CASE q = p /\ i = j
      BY <1>go, <2>1, PlaceOf
    <2>2. CASE ~(q = p /\ i = j)
      <3>1. at'[q][i] = at[q][i]
        BY <1>go, <2>2, PlaceOf
      <3>2. row'[i] = row[i] \/ row'[i].state \notin Live
        BY <1>go, <2>2
      <3> QED
        BY <1>go, <1>s, <1>none, <3>1, <3>2
    <2> QED
      BY <2>1, <2>2
  <1>5. ASSUME NEW p \in Procs, NEW j \in Jobs,
               \/ Submit(p, j) \/ EnqueueRecovered(p, j) \/ SubmitImport(p, j)
               \/ SubmitEnqueue(p, j) \/ Drain(p, j) \/ (\E o \in Outcomes : Callback(p, j, o))
        PROVE  Behind(row'[i].state, at'[q][i])
    <2>1. row' = row /\ proc' = proc
      BY <1>5 DEF Submit, EnqueueRecovered, SubmitImport, SubmitEnqueue, Drain, Callback
    <2>2. PICK place :
             /\ Goes(p, j, place)
             /\ \/ row[j].state \notin Live
                \/ at[p][j] \in {"claimed", "enqueue"} /\ place \in {"queued", "fail"}
                \/ at[p][j] \in {"import", "listed"}
                \/ proc[p] = "closing"
                \/ at[p][j] = "running" /\ place \in Outcomes
      BY <1>5 DEF Submit, EnqueueRecovered, SubmitImport, SubmitEnqueue, Drain, Callback, Live
    <2>3. q = p /\ i = j => Behind(row'[i].state, place)
      BY <1>s, <1>none, <2>1, <2>2 DEF Behind, Outcomes
    <2> QED
      BY <1>go, <2>1, <2>2, <2>3
  <1>6. ASSUME NEW p \in Procs, NEW j \in Jobs, CreateImport(p, j)
        PROVE  Behind(row'[i].state, at'[q][i])
    <2>1. Created(ImportToken).owner = ImportToken
      BY DEF Created
    <2>2. /\ \A k \in Jobs : k # j => row'[k] = row[k]
          /\ row'[j].owner = ImportToken
      BY <1>6, <1>row, <2>1 DEF CreateImport
    <2>3. i # j
      BY <2>2, OwnersAssumption
    <2> QED
      BY <1>6, <1>go, <2>2, <2>3, OwnersAssumption DEF CreateImport
  <1>7. ASSUME NEW p \in Procs, NEW j \in Jobs, SubmitCreate(p, j)
        PROVE  Behind(row'[i].state, at'[q][i])
    <2>1. proc' = proc /\ at[p][j] = "create"
      BY <1>7 DEF SubmitCreate
    <2>2. CASE row' = row /\ \E place : Goes(p, j, place)
      <3>1. q = p /\ i = j => row[i].state \notin Live
        BY <1>s, <2>1, <2>2 DEF Behind, Live, Outcomes
      <3> QED
        BY <1>go, <1>none, <2>1, <2>2, <3>1
    <2>3. CASE Goes(p, j, "enqueue") /\ row' = [row EXCEPT ![j] = Created(p)]
      <3>1. row'[j].state = "queued" /\ row'[j].owner = p /\ \A k \in Jobs : k # j => row'[k] = row[k]
        BY <1>row, <2>3 DEF Created
      <3>2. Behind("queued", "enqueue")
        BY DEF Behind
      <3> QED
        BY <1>go, <2>1, <2>3, <3>1, <3>2
    <2> QED
      BY <1>7, <2>2, <2>3 DEF SubmitCreate
  <1>8. ASSUME NEW p \in Procs, NEW j \in Jobs, NEW owner, NEW s \in Outcomes, NEW place,
               TransitionTerminal(j, owner, s), Goes(p, j, place), proc' = proc,
               owner = p \/ row[j].owner # p \/ row[j].state \notin Live
                 \/ proc[p] \in {"closing", "dead"}
        PROVE  Behind(row'[i].state, at'[q][i])
    <2>1. s \notin Live
      BY DEF Live, Outcomes
    <2>2. /\ \A k \in Jobs : k # j => row'[k] = row[k]
          /\ row'[j].owner = row[j].owner
          /\ row'[j] = row[j] \/ row'[j].state \notin Live
          /\ owner = p /\ row[j].owner = p => row'[j].state \notin Live
      BY <1>8, <2>1, EndedRow
    <2>3. q = p /\ i = j => row'[i].state \notin Live
      BY <1>8, <2>2
    <2> QED
      BY <1>8, <1>go, <1>none, <2>2, <2>3
  <1>9. ASSUME NEW p \in Procs, NEW j \in Jobs, row' = row, proc' = proc, Goes(p, j, "lost"),
               at[p][j] \in {"fail", "queued"} \cup Outcomes
        PROVE  Behind(row'[i].state, at'[q][i])
    <2>1. \A s : Behind(s, "lost")
      BY DEF Behind
    <2> QED
      BY <1>9, <1>go, <2>1
  <1>10. ASSUME NEW p \in Procs, NEW j \in Jobs, FailEnqueue(p, j)
         PROVE  Behind(row'[i].state, at'[q][i])
    <2>1. "failed" \in Outcomes
      BY DEF Outcomes
    <2> QED
      BY <1>8, <1>9, <1>10, <2>1 DEF FailEnqueue, FailsRow
  <1>11. ASSUME NEW p \in Procs, NEW j \in Jobs, RejectImport(p, j)
         PROVE  Behind(row'[i].state, at'[q][i])
    <2>1. "failed" \in Outcomes
      BY DEF Outcomes
    <2>2. proc[p] \in {"closing", "dead"} \/ row[j].owner # p \/ row[j].state \notin Live
      BY <1>11 DEF RejectImport, ServedInv, Served, Behind, Live, Outcomes
    <2> QED
      BY <1>8, <1>11, <2>1, <2>2 DEF RejectImport
  <1>12. ASSUME NEW p \in Procs, NEW j \in Jobs, RunEnd(p, j)
         PROVE  Behind(row'[i].state, at'[q][i])
    <2>1. CASE TransitionTerminal(j, p, at[p][j]) /\ Goes(p, j, "done")
      <3>1. PICK o \in Outcomes : o = at[p][j]
        BY <1>12 DEF RunEnd
      <3> QED
        BY <1>8, <1>12, <2>1, <3>1 DEF RunEnd
    <2>2. CASE row' = row /\ Goes(p, j, "lost")
      BY <1>9, <1>12, <2>2 DEF RunEnd
    <2> QED
      BY <1>12, <2>1, <2>2 DEF RunEnd
  <1>13. ASSUME NEW p \in Procs, NEW j \in Jobs, RunStart(p, j)
         PROVE  Behind(row'[i].state, at'[q][i])
    <2>0. proc' = proc /\ at[p][j] = "queued"
      BY <1>13 DEF RunStart
    <2>1. CASE /\ row[j].owner = p
               /\ row' = [row EXCEPT ![j].state = "running", ![j].beat = Stamp]
               /\ Goes(p, j, "running")
      <3>1. /\ row'[j].state = "running" /\ row'[j].owner = p
            /\ \A k \in Jobs : k # j => row'[k] = row[k]
        BY <1>row, <2>1 DEF Row
      <3>2. q = p /\ i = j => Behind(row'[i].state, "running")
        BY <3>1 DEF Behind
      <3> QED
        BY <1>go, <2>0, <2>1, <3>1, <3>2
    <2>2. CASE ~(row[j].state = "queued" /\ row[j].owner = p) /\ Goes(p, j, "none") /\ row' = row
      <3>1. q = p /\ i = j => row[i].state \notin Live
        BY <1>s, <2>0, <2>2 DEF Behind, Live, Outcomes
      <3> QED
        BY <1>go, <1>none, <2>0, <2>2, <3>1
    <2>3. CASE row' = row /\ Goes(p, j, "lost")
      BY <1>9, <2>0, <2>3
    <2> QED
      BY <1>13, <2>1, <2>2, <2>3 DEF RunStart
  <1>14. ASSUME NEW p \in Procs, NEW j \in Jobs, Heartbeat(p, j)
         PROVE  Behind(row'[i].state, at'[q][i])
    <2>1. row'[i].state = row[i].state /\ row'[i].owner = row[i].owner
      BY <1>14, <1>row DEF Heartbeat, Row
    <2> QED
      BY <1>14, <1>same, <2>1 DEF Heartbeat
  <1>15. ASSUME Tick
         PROVE  Behind(row'[i].state, at'[q][i])
    BY <1>15, <1>same DEF Tick
  <1> QED
    BY Steps, <1>1, <1>2, <1>3, <1>4, <1>5, <1>6, <1>7, <1>10, <1>11, <1>12, <1>13, <1>14, <1>15

(* Jobs are claimed by a recovering process and enqueued before it goes on. *)
LEMMA ClaimedStep ==
    ASSUME TypeOK, ClaimedInRecovery, Next
    PROVE  ClaimedInRecovery'
  <1>at. at \in [Procs -> [Jobs -> Places]]
    BY DEF TypeOK
  <1>proc. proc \in [Procs -> {"off", "list", "claim", "enqueue", "resume", "up", "closing", "dead"}]
    BY DEF TypeOK
  <1> SUFFICES ASSUME NEW q \in Procs, NEW i \in Jobs, at'[q][i] = "claimed"
               PROVE  proc'[q] = "enqueue"
    BY DEF ClaimedInRecovery
  <1>1. ASSUME NEW p \in Procs, Start(p) \/ Resumed(p) \/ Close(p) \/ List(p)
        PROVE  proc'[q] = "enqueue"
    BY <1>1, <1>proc DEF Start, Resumed, Close, List, ClaimedInRecovery
  <1>2. ASSUME NEW p \in Procs, Claim(p) \/ ListImports(p) \/ Exit(p) \/ Crash(p)
        PROVE  proc'[q] = "enqueue"
    BY <1>2, <1>proc, <1>at DEF Claim, ListImports, Exit, Crash, Dies, ClaimedInRecovery
  <1>3. ASSUME NEW p \in Procs, NEW j \in Jobs,
               \/ Submit(p, j) \/ CreateImport(p, j) \/ EnqueueRecovered(p, j)
               \/ SubmitImport(p, j) \/ SubmitCreate(p, j) \/ SubmitEnqueue(p, j)
               \/ FailEnqueue(p, j) \/ RejectImport(p, j) \/ RunStart(p, j)
               \/ RunEnd(p, j) \/ Drain(p, j) \/ (\E o \in Outcomes : Callback(p, j, o))
        PROVE  proc'[q] = "enqueue"
    <2>1. /\ proc' = proc
          /\ \E place \in {"create", "import", "queued", "fail", "reject", "none", "enqueue",
                           "running", "done", "lost"} \cup Outcomes : Goes(p, j, place)
      BY <1>3 DEF Submit, CreateImport, EnqueueRecovered, SubmitImport, SubmitCreate,
                  SubmitEnqueue, FailEnqueue, RejectImport, RunStart, RunEnd, Drain, Callback
    <2>2. at[q][i] = "claimed"
      BY <2>1, PlaceOf DEF Outcomes
    <2> QED
      BY <2>1, <2>2 DEF ClaimedInRecovery
  <1>4. ASSUME NEW p \in Procs, NEW j \in Jobs, Heartbeat(p, j) PROVE proc'[q] = "enqueue"
    BY <1>4 DEF Heartbeat, ClaimedInRecovery
  <1>5. ASSUME Tick PROVE proc'[q] = "enqueue"
    BY <1>5 DEF Tick, ClaimedInRecovery
  <1> QED
    BY Steps, <1>1, <1>2, <1>3, <1>4, <1>5

(* A live row under the lease of a process that serves requests has a       *)
(* callback behind it (submit, recover), for any number of processes and    *)
(* however they overlap.                                                    *)
THEOREM LiveRowServed == Spec => []LiveRowHasCallback
  <1>1. Init => ServedInv
    <2> SUFFICES ASSUME Init PROVE ServedInv
      OBVIOUS
    <2>1. /\ \A j \in Jobs : row[j].state = "none" /\ \A p \in Procs : at[p][j] = "none"
          /\ \A p \in Procs : seen[p] = {}
      BY DEF Init
    <2> QED
      BY <2>1, JobsAssumption DEF ServedInv, ImportsApart, Served, Behind, ClaimedInRecovery
  <1>2. Inv /\ ServedInv /\ [Next]_vars => ServedInv'
    <2> SUFFICES ASSUME Inv, ServedInv, [Next]_vars PROVE ServedInv'
      OBVIOUS
    <2>1. CASE Next
      BY <2>1, ImportsStep, ServedStep, ClaimedStep DEF Inv, ServedInv
    <2>2. CASE UNCHANGED vars
      BY <2>2 DEF vars, ServedInv, ImportsApart, Served, ClaimedInRecovery
    <2> QED
      BY <2>1, <2>2
  <1>3. ServedInv => LiveRowHasCallback
    BY DEF ServedInv, Served, Behind, ClaimedInRecovery, LiveRowHasCallback
  <1> QED
    BY <1>1, <1>2, <1>3, Invariant, PTL DEF Spec

-----------------------------------------------------------------------------
(* One job at a time, where processes do not overlap *)

(* One process at a time is alive, and the others have no jobs anywhere. *)
Alone ==
    /\ \A p, q \in Procs : Alive(p) /\ Alive(q) => p = q
    /\ \A p \in Procs, j \in Jobs : ~Alive(p) => at[p][j] = "none"

(* The lock of submit admits one job at a time, and what find_active found  *)
(* under it still holds when the row is created.                            *)
CreateInv ==
    \A p \in Procs, j \in Jobs : at[p][j] = "create" =>
        /\ \A i \in Jobs : at[p][i] = "create" => i = j
        /\ j \notin Imports =>
             \A i \in Jobs \ Imports : KeyOf[i] = KeyOf[j] => row[i].state \notin Live

(* Only imports are submitted under an id that exists. *)
ImportPlaces ==
    \A p \in Procs, j \in Jobs : at[p][j] \in {"import", "listed"} => j \in Imports

OnceInv == Alone /\ CreateInv /\ ImportPlaces /\ OneActivePerKey

(* A process only starts when no other one is alive. *)
LEMMA AloneStep ==
    ASSUME ~Overlap, TypeOK, Alone, Next
    PROVE  Alone'
  <1>at. at \in [Procs -> [Jobs -> Places]]
    BY DEF TypeOK
  <1>proc. proc \in [Procs -> {"off", "list", "claim", "enqueue", "resume", "up", "closing", "dead"}]
    BY DEF TypeOK
  <1>1. ASSUME NEW p \in Procs, Start(p)
        PROVE  Alone'
    <2>1. at' = at /\ \A q \in Procs : ~Alive(q)
      BY <1>1 DEF Start
    <2>2. \A q \in Procs : proc'[q] \notin {"off", "dead"} => q = p
      BY <1>1, <1>proc, <2>1 DEF Start, Alive
    <2> QED
      BY <2>1, <2>2 DEF Alone, Alive
  <1>2. ASSUME NEW p \in Procs, List(p) \/ Claim(p) \/ ListImports(p) \/ Resumed(p) \/ Close(p)
        PROVE  Alone'
    <2>1. /\ proc[p] \notin {"off", "dead"} /\ proc'[p] \notin {"off", "dead"}
          /\ \A q \in Procs : q # p => proc'[q] = proc[q]
      BY <1>2, <1>proc DEF List, Claim, ListImports, Resumed, Close
    <2>2. \A q \in Procs, j \in Jobs : q # p => at'[q][j] = at[q][j]
      BY <1>2, <1>at DEF List, Claim, ListImports, Resumed, Close
    <2> QED
      BY <2>1, <2>2 DEF Alone, Alive
  <1>3. ASSUME NEW p \in Procs, Exit(p) \/ Crash(p)
        PROVE  Alone'
    <2>1. /\ proc'[p] = "dead" /\ \A j \in Jobs : at'[p][j] = "none"
          /\ \A q \in Procs : q # p => proc'[q] = proc[q] /\ at'[q] = at[q]
      BY <1>3, <1>proc, <1>at DEF Exit, Crash, Dies
    <2> QED
      BY <2>1 DEF Alone, Alive
  <1>4. ASSUME NEW p \in Procs, NEW j \in Jobs, NEW place, Goes(p, j, place), proc' = proc,
               proc[p] = "up" \/ at[p][j] # "none"
        PROVE  Alone'
    <2>1. Alive(p)
      BY <1>4 DEF Alone, Alive
    <2>2. \A q \in Procs, i \in Jobs : q # p => at'[q][i] = at[q][i]
      BY <1>4, PlaceOf
    <2> QED
      BY <1>4, <2>1, <2>2 DEF Alone, Alive
  <1>5. ASSUME NEW p \in Procs, NEW j \in Jobs,
               \/ Submit(p, j) \/ CreateImport(p, j) \/ EnqueueRecovered(p, j)
               \/ SubmitImport(p, j) \/ SubmitCreate(p, j) \/ SubmitEnqueue(p, j)
               \/ FailEnqueue(p, j) \/ RejectImport(p, j) \/ RunStart(p, j)
               \/ RunEnd(p, j) \/ Drain(p, j) \/ (\E o \in Outcomes : Callback(p, j, o))
        PROVE  Alone'
    <2>1. proc' = proc /\ \E place : Goes(p, j, place)
      BY <1>5 DEF Submit, CreateImport, EnqueueRecovered, SubmitImport, SubmitCreate,
                  SubmitEnqueue, FailEnqueue, RejectImport, RunStart, RunEnd, Drain, Callback
    <2>2. proc[p] = "up" \/ at[p][j] # "none"
      BY <1>5 DEF Submit, CreateImport, EnqueueRecovered, SubmitImport, SubmitCreate,
                  SubmitEnqueue, FailEnqueue, RejectImport, RunStart, RunEnd, Drain, Callback,
                  Outcomes
    <2> QED
      BY <1>4, <2>1, <2>2
  <1>6. ASSUME NEW p \in Procs, NEW j \in Jobs, Heartbeat(p, j) PROVE Alone'
    BY <1>6 DEF Heartbeat, Alone, Alive
  <1>7. ASSUME Tick PROVE Alone'
    BY <1>7 DEF Tick, Alone, Alive
  <1> QED
    BY Steps, <1>1, <1>2, <1>3, <1>5, <1>6, <1>7

(* Rows become live by create alone; recovery only renews live rows. *)
LEMMA BecomesLive ==
    ASSUME TypeOK, SeenIsLive, Next, NEW i \in Jobs \ Imports,
           row[i].state \notin Live, row'[i].state \in Live
    PROVE  \E p \in Procs : at[p][i] = "create" /\ SubmitCreate(p, i)
  <1>row. row \in [Jobs -> Row]
    BY DEF TypeOK
  <1>1. ASSUME NEW p \in Procs,
               \/ Start(p) \/ List(p) \/ ListImports(p) \/ Resumed(p) \/ Close(p)
               \/ Exit(p) \/ Crash(p)
        PROVE  FALSE
    BY <1>1 DEF Start, List, ListImports, Resumed, Close, Exit, Crash, Dies
  <1>2. ASSUME NEW p \in Procs, Claim(p) PROVE FALSE
    <2>1. ~Unchanged(p, i)
      BY DEF Unchanged, SeenIsLive
    <2> QED
      BY <1>2, <1>row, <2>1 DEF Claim
  <1>3. ASSUME NEW p \in Procs, NEW j \in Jobs,
               \/ Submit(p, j) \/ SubmitImport(p, j) \/ SubmitEnqueue(p, j)
               \/ EnqueueRecovered(p, j) \/ Drain(p, j)
               \/ \E o \in Outcomes : Callback(p, j, o)
        PROVE  FALSE
    BY <1>3 DEF Submit, SubmitImport, SubmitEnqueue, EnqueueRecovered, Drain, Callback
  <1>4. ASSUME NEW p \in Procs, NEW j \in Jobs, CreateImport(p, j) PROVE FALSE
    BY <1>4, <1>row DEF CreateImport
  <1>5. ASSUME NEW p \in Procs, NEW j \in Jobs, SubmitCreate(p, j)
        PROVE  j = i /\ at[p][i] = "create"
    BY <1>5, <1>row DEF SubmitCreate
  <1>6. ASSUME NEW p \in Procs, NEW j \in Jobs, Heartbeat(p, j) PROVE FALSE
    BY <1>6, <1>row DEF Heartbeat, Row
  <1>7. ASSUME NEW p \in Procs, NEW j \in Jobs,
               FailEnqueue(p, j) \/ RejectImport(p, j) \/ RunEnd(p, j)
        PROVE  FALSE
    <2>1. row' = row \/ \E s \in Outcomes : \E owner : TransitionTerminal(j, owner, s)
      BY <1>7 DEF FailEnqueue, RejectImport, RunEnd, FailsRow, Outcomes
    <2>2. \A s \in Outcomes : s \notin Live
      BY DEF Live, Outcomes
    <2> QED
      BY <2>1, <2>2, EndedRow
  <1>8. ASSUME NEW p \in Procs, NEW j \in Jobs, RunStart(p, j) PROVE FALSE
    <2>1. row' = row \/ (row[j].state = "queued" /\ \A k \in Jobs : k # j => row'[k] = row[k])
      BY <1>8, <1>row DEF RunStart
    <2> QED
      BY <2>1 DEF Live
  <1>9. ASSUME Tick PROVE FALSE
    BY <1>9 DEF Tick
  <1> QED
    BY Steps, <1>1, <1>2, <1>3, <1>4, <1>5, <1>6, <1>7, <1>8, <1>9

(* Jobs reach "create" one at a time, when nothing is active for them. *)
LEMMA ReachesCreate ==
    ASSUME TypeOK, ImportPlaces, Next, NEW p \in Procs, NEW j \in Jobs,
           at[p][j] # "create", at'[p][j] = "create"
    PROVE  /\ \A i \in Jobs : i # j => at[p][i] # "create" /\ at'[p][i] = at[p][i]
           /\ j \notin Imports => \A i \in Jobs : ~ActiveFor(j, i)
           /\ row' = row
  <1>at. at \in [Procs -> [Jobs -> Places]]
    BY DEF TypeOK
  <1>1. ASSUME NEW q \in Procs, Start(q) \/ List(q) \/ Resumed(q) \/ Close(q)
        PROVE  FALSE
    BY <1>1 DEF Start, List, Resumed, Close
  <1>2. ASSUME NEW q \in Procs, Claim(q) \/ ListImports(q) \/ Exit(q) \/ Crash(q)
        PROVE  FALSE
    BY <1>2, <1>at DEF Claim, ListImports, Exit, Crash, Dies
  <1>3. ASSUME NEW q \in Procs, NEW i \in Jobs,
               \/ CreateImport(q, i) \/ EnqueueRecovered(q, i) \/ SubmitCreate(q, i)
               \/ SubmitEnqueue(q, i) \/ FailEnqueue(q, i) \/ RejectImport(q, i)
               \/ RunStart(q, i) \/ RunEnd(q, i) \/ Drain(q, i)
               \/ (\E o \in Outcomes : Callback(q, i, o))
        PROVE  FALSE
    <2>1. \E place \in {"import", "queued", "fail", "reject", "none", "enqueue",
                        "running", "done", "lost"} \cup Outcomes : Goes(q, i, place)
      BY <1>3 DEF CreateImport, EnqueueRecovered, SubmitCreate, SubmitEnqueue, FailEnqueue,
                  RejectImport, RunStart, RunEnd, Drain, Callback
    <2> QED
      BY <2>1, PlaceOf DEF Outcomes
  <1>4. ASSUME NEW q \in Procs, NEW i \in Jobs, Heartbeat(q, i) PROVE FALSE
    BY <1>4 DEF Heartbeat
  <1>5. ASSUME NEW q \in Procs, NEW i \in Jobs, Submit(q, i) \/ SubmitImport(q, i)
        PROVE  /\ \A k \in Jobs : k # j => at[p][k] # "create" /\ at'[p][k] = at[p][k]
               /\ j \notin Imports => \A k \in Jobs : ~ActiveFor(j, k)
               /\ row' = row
    <2>1. Goes(q, i, "create") /\ LockFree(q) /\ row' = row
      BY <1>5 DEF Submit, SubmitImport
    <2>2. q = p /\ i = j
      BY <2>1, PlaceOf
    <2>3. j \notin Imports => \A k \in Jobs : ~ActiveFor(j, k)
      BY <1>5, <2>2 DEF Submit, SubmitImport, ImportPlaces
    <2>4. \A k \in Jobs : k # j => at[p][k] # "create" /\ at'[p][k] = at[p][k]
      BY <2>1, <2>2, PlaceOf DEF LockFree, Submitting
    <2> QED
      BY <2>1, <2>3, <2>4
  <1>6. ASSUME Tick PROVE FALSE
    BY <1>6 DEF Tick
  <1> QED
    BY Steps, <1>1, <1>2, <1>3, <1>4, <1>5, <1>6

(* Requests and recovery put only imports there. *)
LEMMA ImportPlacesStep ==
    ASSUME TypeOK, ImportPlaces, Next
    PROVE  ImportPlaces'
  <1>at. at \in [Procs -> [Jobs -> Places]]
    BY DEF TypeOK
  <1> SUFFICES ASSUME NEW q \in Procs, NEW i \in Jobs, at'[q][i] \in {"import", "listed"},
                      at[q][i] \notin {"import", "listed"}
               PROVE  i \in Imports
    BY DEF ImportPlaces
  <1>1. ASSUME NEW p \in Procs, Start(p) \/ List(p) \/ Resumed(p) \/ Close(p)
        PROVE  FALSE
    BY <1>1 DEF Start, List, Resumed, Close
  <1>2. ASSUME NEW p \in Procs, Claim(p) \/ ListImports(p) \/ Exit(p) \/ Crash(p)
        PROVE  i \in Imports
    BY <1>2, <1>at DEF Claim, ListImports, Exit, Crash, Dies
  <1>3. ASSUME NEW p \in Procs, NEW j \in Jobs,
               \/ Submit(p, j) \/ SubmitImport(p, j) \/ EnqueueRecovered(p, j)
               \/ SubmitCreate(p, j) \/ SubmitEnqueue(p, j) \/ FailEnqueue(p, j)
               \/ RejectImport(p, j) \/ RunStart(p, j) \/ RunEnd(p, j) \/ Drain(p, j)
               \/ (\E o \in Outcomes : Callback(p, j, o))
        PROVE  FALSE
    <2>1. \E place \in {"create", "queued", "fail", "reject", "none", "enqueue",
                        "running", "done", "lost"} \cup Outcomes : Goes(p, j, place)
      BY <1>3 DEF Submit, SubmitImport, EnqueueRecovered, SubmitCreate, SubmitEnqueue,
                  FailEnqueue, RejectImport, RunStart, RunEnd, Drain, Callback
    <2> QED
      BY <2>1, PlaceOf DEF Outcomes
  <1>4. ASSUME NEW p \in Procs, NEW j \in Jobs, CreateImport(p, j)
        PROVE  i \in Imports
    BY <1>4, PlaceOf DEF CreateImport
  <1>5. ASSUME NEW p \in Procs, NEW j \in Jobs, Heartbeat(p, j) PROVE FALSE
    BY <1>5 DEF Heartbeat
  <1>6. ASSUME Tick PROVE FALSE
    BY <1>6 DEF Tick
  <1> QED
    BY Steps, <1>1, <1>2, <1>3, <1>4, <1>5, <1>6

(* What find_active found stays true until the row is created. *)
LEMMA CreateStep ==
    ASSUME TypeOK, SeenIsLive, OnceInv, Next
    PROVE  CreateInv'
  <1> SUFFICES ASSUME NEW p \in Procs, NEW j \in Jobs, at'[p][j] = "create"
               PROVE  /\ \A i \in Jobs : at'[p][i] = "create" => i = j
                      /\ j \notin Imports =>
                           \A i \in Jobs \ Imports : KeyOf[i] = KeyOf[j] => row'[i].state \notin Live
    BY DEF CreateInv
  <1>1. CASE at[p][j] # "create"
    <2>1. /\ \A i \in Jobs : i # j => at[p][i] # "create" /\ at'[p][i] = at[p][i]
          /\ j \notin Imports => \A i \in Jobs : ~ActiveFor(j, i)
          /\ row' = row
      BY <1>1, ReachesCreate DEF OnceInv
    <2> QED
      BY <2>1 DEF ActiveFor
  <1>2. CASE at[p][j] = "create"
    <2>1. \A i \in Jobs : at'[p][i] = "create" => i = j
      <3> SUFFICES ASSUME NEW i \in Jobs, at'[p][i] = "create", i # j
                   PROVE  FALSE
        OBVIOUS
      <3>1. at[p][i] # "create"
        BY <1>2 DEF OnceInv, CreateInv
      <3> QED
        BY <1>2, <3>1, ReachesCreate DEF OnceInv
    <2>2. ASSUME j \notin Imports, NEW i \in Jobs \ Imports, KeyOf[i] = KeyOf[j],
                 row'[i].state \in Live
          PROVE  FALSE
      <3>1. row[i].state \notin Live
        BY <1>2, <2>2 DEF OnceInv, CreateInv
      <3>2. PICK q \in Procs : at[q][i] = "create" /\ SubmitCreate(q, i)
        BY <2>2, <3>1, BecomesLive
      <3>3. Alive(p) /\ Alive(q)
        BY <1>2, <3>2 DEF OnceInv, Alone
      <3>4. q = p
        BY <3>3 DEF OnceInv, Alone
      <3>5. i = j
        BY <1>2, <3>2, <3>4 DEF OnceInv, CreateInv
      <3>6. at'[p][j] # "create"
        <4>1. \E place \in {"reject", "none", "enqueue", "done"} : Goes(p, j, place)
          BY <3>2, <3>4, <3>5 DEF SubmitCreate
        <4> QED
          BY <4>1, PlaceOf
      <3> QED
        BY <3>6
    <2> QED
      BY <2>1, <2>2
  <1> QED
    BY <1>1, <1>2

(* A second job becomes active for no key that has one. *)
LEMMA OneActiveStep ==
    ASSUME TypeOK, SeenIsLive, OnceInv, Next
    PROVE  OneActivePerKey'
  <1> SUFFICES ASSUME NEW i \in Jobs \ Imports, NEW j \in Jobs \ Imports, i # j,
                      KeyOf[i] = KeyOf[j], row'[i].state \in Live, row'[j].state \in Live
               PROVE  FALSE
    BY DEF OneActivePerKey
  <1>1. ASSUME NEW k \in Jobs \ Imports, NEW l \in Jobs \ Imports, k # l, KeyOf[k] = KeyOf[l],
               row[k].state \notin Live, row'[k].state \in Live, row'[l].state \in Live
        PROVE  FALSE
    <2>1. PICK p \in Procs : at[p][k] = "create" /\ SubmitCreate(p, k)
      BY <1>1, BecomesLive
    <2>2. row[l].state \notin Live
      BY <1>1, <2>1 DEF OnceInv, CreateInv
    <2>3. PICK q \in Procs : at[q][l] = "create" /\ SubmitCreate(q, l)
      BY <1>1, <2>2, BecomesLive
    <2>4. Alive(p) /\ Alive(q)
      BY <2>1, <2>3 DEF OnceInv, Alone
    <2>5. p = q
      BY <2>4 DEF OnceInv, Alone
    <2> QED
      BY <1>1, <2>1, <2>3, <2>5 DEF OnceInv, CreateInv
  <1>2. CASE row[i].state \in Live /\ row[j].state \in Live
    BY <1>2 DEF OnceInv, OneActivePerKey
  <1> QED
    BY <1>1, <1>2

(* As long as processes do not overlap, the live jobs are served, and only  *)
(* one for a project, scan, kind and data version (find_active, submit),    *)
(* wherever processes die and whichever statements fail.                    *)
THEOREM ServedOnce == ~Overlap => (Spec => []ActiveIsServedOnce)
  <1> SUFFICES ASSUME ~Overlap PROVE Spec => []ActiveIsServedOnce
    OBVIOUS
  <1>1. Init => OnceInv
    BY DEF Init, OnceInv, Alone, Alive, CreateInv, ImportPlaces, OneActivePerKey, Live
  <1>2. Inv /\ OnceInv /\ [Next]_vars => OnceInv'
    <2> SUFFICES ASSUME Inv, OnceInv, [Next]_vars PROVE OnceInv'
      OBVIOUS
    <2>1. CASE Next
      BY <2>1, AloneStep, CreateStep, ImportPlacesStep, OneActiveStep DEF Inv, OnceInv
    <2>2. CASE UNCHANGED vars
      BY <2>2 DEF vars, OnceInv, Alone, Alive, CreateInv, ImportPlaces, OneActivePerKey
    <2> QED
      BY <2>1, <2>2
  <1>3. LiveRowHasCallback /\ OnceInv => ActiveIsServedOnce
    BY DEF OnceInv, ActiveIsServedOnce
  <1> QED
    BY <1>1, <1>2, <1>3, Invariant, LiveRowServed, PTL DEF Spec

-----------------------------------------------------------------------------
(* The executor of one process. *)

-----------------------------------------------------------------------------
(* Queues, as far as the proofs look into them *)

Elems(s) == {s[n] : n \in 1 .. Len(s)}

NoTwice(s) == \A m, n \in 1 .. Len(s) : s[m] = s[n] => m = n

(* put_nowait adds one job at the end. *)
LEMMA PutElems ==
    ASSUME NEW s \in Seq(Descriptors), NEW j \in Descriptors
    PROVE  /\ Append(s, j) \in Seq(Descriptors)
           /\ Elems(Append(s, j)) = Elems(s) \cup {j}
           /\ NoTwice(s) /\ j \notin Elems(s) => NoTwice(Append(s, j))
  <1>1. /\ Append(s, j) \in Seq(Descriptors)
        /\ Len(Append(s, j)) = Len(s) + 1
        /\ \A n \in 1 .. Len(s) : Append(s, j)[n] = s[n]
        /\ Append(s, j)[Len(s) + 1] = j
        /\ Len(s) \in Nat
    BY AppendProperties, LenProperties
  <1> DEFINE t == Append(s, j)
  <1> HIDE DEF t
  <1>2. \A n \in 1 .. Len(t) : n \in 1 .. Len(s) \/ n = Len(s) + 1
    BY <1>1 DEF t
  <1>3. Elems(t) = Elems(s) \cup {j}
    BY <1>1, <1>2 DEF Elems, t
  <1>4. ASSUME NoTwice(s), j \notin Elems(s) PROVE NoTwice(t)
    BY <1>1, <1>2, <1>4 DEF Elems, NoTwice, t
  <1> QED
    BY <1>1, <1>3, <1>4 DEF t

(* get and get_nowait take the first job; it is in the queue no more. *)
LEMMA TakeElems ==
    ASSUME NEW s \in Seq(Descriptors), s # <<>>
    PROVE  /\ Tail(s) \in Seq(Descriptors)
           /\ Head(s) \in Elems(s) /\ Head(s) \in Descriptors
           /\ Elems(Tail(s)) \subseteq Elems(s)
           /\ NoTwice(s) => NoTwice(Tail(s)) /\ Head(s) \notin Elems(Tail(s))
  <1>1. /\ Tail(s) \in Seq(Descriptors)
        /\ Len(s) \in Nat /\ Len(s) >= 1
        /\ Len(Tail(s)) = Len(s) - 1
        /\ \A n \in 1 .. Len(s) - 1 : Tail(s)[n] = s[n + 1]
        /\ Head(s) = s[1] /\ Head(s) \in Descriptors
    BY HeadTailProperties, LenProperties, EmptySeq
  <1> DEFINE t == Tail(s)
  <1> HIDE DEF t
  <1>2. \A n \in 1 .. Len(t) : n + 1 \in 1 .. Len(s) /\ t[n] = s[n + 1] /\ n + 1 # 1
    BY <1>1 DEF t
  <1>3. Head(s) \in Elems(s) /\ Elems(t) \subseteq Elems(s)
    BY <1>1, <1>2 DEF Elems
  <1>4. ASSUME NoTwice(s) PROVE NoTwice(t)
    <2> SUFFICES ASSUME NEW m \in 1 .. Len(t), NEW n \in 1 .. Len(t), t[m] = t[n] PROVE m = n
      BY DEF NoTwice
    <2>1. m + 1 = n + 1
      BY <1>2, <1>4 DEF NoTwice
    <2> QED
      BY <2>1
  <1>5. ASSUME NoTwice(s) PROVE Head(s) \notin Elems(t)
    BY <1>1, <1>2, <1>5 DEF Elems, NoTwice
  <1> QED
    BY <1>1, <1>3, <1>4, <1>5 DEF t

(* Taking a job out of the order of ended jobs leaves such an order. *)
LEMMA WithoutType ==
    ASSUME NEW s \in Seq(Descriptors), NEW j PROVE Without(s, j) \in Seq(Descriptors)
  <1>1. CASE \E n \in DOMAIN s : s[n] = j
    <2> DEFINE n == CHOOSE n \in DOMAIN s : s[n] = j
    <2>1. n \in 1 .. Len(s) /\ Len(s) \in Nat
      BY <1>1, LenProperties
    <2> HIDE DEF n
    <2>2. /\ \A m \in 1 .. n - 1 : s[m] \in Descriptors
          /\ \A m \in n + 1 .. Len(s) : s[m] \in Descriptors
      BY <2>1, ElementOfSeq
    <2>3. SubSeq(s, 1, n - 1) \in Seq(Descriptors)
      BY <2>1, <2>2, SubSeqProperties
    <2>4. SubSeq(s, n + 1, Len(s)) \in Seq(Descriptors)
      BY <2>1, <2>2, SubSeqProperties
    <2> QED
      BY <1>1, <2>3, <2>4, ConcatProperties DEF Without, n
  <1>2. CASE ~ \E n \in DOMAIN s : s[n] = j
    BY <1>2 DEF Without
  <1> QED
    BY <1>1, <1>2

(* The order of ended jobs stays one. *)
LEMMA EndsType ==
    ASSUME ended \in Seq(Descriptors), NEW j \in Descriptors, Ends(j) PROVE ended' \in Seq(Descriptors)
  BY WithoutType, AppendProperties DEF Ends

(* Pruning takes ended jobs only. *)
LEMMA PruneTakesEnded ==
    ASSUME NEW k, NEW st, NEW act, NEW fin, NEW j \in Prune(k, st, act, fin)
    PROVE  st[j] \in Final
  BY DEF Prune

-----------------------------------------------------------------------------
(* The inductive invariant *)

(* A job between its queue and its start: queued, or cancelled on the way. *)
Waiting(j) == status[j] = "queued" \/ (status[j] = "cancelled" /\ cancel[j])

(* What a caller has in hand is under the lock; before the put it is new.  *)
CallerInv ==
    \A c \in Callers : caller[c].pc # "idle" =>
        /\ mutex = c
        /\ caller[c].job \in Descriptors
        /\ caller[c].pc = "put" => status[caller[c].job] = "new"

(* Queues hold waiting jobs of their bucket, each once. *)
QueueInv ==
    \A b \in Buckets :
        /\ NoTwice(queue[b])
        /\ \A j \in Elems(queue[b]) : BucketOf[j] = b /\ Waiting(j)

Queued(j) == \E b \in Buckets : j \in Elems(queue[b])
InHand(w) == worker[w].pc \in {"hold", "run"}

(* A worker's job is no other worker's and in no queue. *)
WorkerInv ==
    \A w \in Workers : InHand(w) =>
        /\ worker[w].job \in Descriptors
        /\ ~Queued(worker[w].job)
        /\ worker[w].pc = "hold" => Waiting(worker[w].job)
        /\ worker[w].pc = "run" => status[worker[w].job] = "running" /\ worker[w].job \in active
        /\ \A v \in Workers : InHand(v) /\ worker[v].job = worker[w].job => v = w

(* The same for the job that shutdown has taken from a queue. *)
StopInv ==
    stop.pc = "mark" =>
        /\ stop.job \in Descriptors
        /\ ~Queued(stop.job)
        /\ Waiting(stop.job)
        /\ \A w \in Workers : InHand(w) => worker[w].job # stop.job

ExecutorPlaces == CallerInv /\ QueueInv /\ WorkerInv /\ StopInv

(* The job about to be put is the only one for its work. *)
PutInv ==
    \A c \in Callers : caller[c].pc = "put" /\ caller[c].job \in Reusable =>
        \A i \in Descriptors : WorkKey[i] = WorkKey[caller[c].job] => status[i] \notin LiveStatus

(* _active_jobs stays within the budget. *)
ActiveInv == IsFiniteSet(active) /\ Cardinality(active) <= Budget

ExecutorInv == ExecutorTypeOK /\ ExecutorPlaces /\ PutInv /\ LiveOnce /\ ActiveInv

(* Each step of the specification is one of these. *)
LEMMA ExecutorSteps ==
    ASSUME [ExecutorNext]_executorVars
    PROVE  \/ \E c \in Callers, j \in Descriptors : SubmitCheck(c, j)
           \/ \E c \in Callers : SubmitPut(c) \/ SubmitRegister(c)
           \/ \E j \in Descriptors : CancelJob(j)
           \/ \E w \in Workers : Poll(w) \/ Get(w) \/ Begin(w)
           \/ \E w \in Workers, raised \in BOOLEAN : Finish(w, raised)
           \/ StopBegins \/ DrainQueue \/ DrainMark \/ Drained \/ Join
           \/ UNCHANGED executorVars
  BY Zenon DEF ExecutorNext, CallerStep, WorkerStep, StopStep

-----------------------------------------------------------------------------
(* Effects of the steps that move jobs *)

(* put_nowait: only the bucket of the job changes, by that job. *)
LEMMA PutQueue ==
    ASSUME ExecutorTypeOK, QueueInv, NEW b \in Buckets, NEW j \in Descriptors, ~Queued(j),
           queue' = [queue EXCEPT ![b] = Append(@, j)]
    PROVE  /\ queue' \in [Buckets -> Seq(Descriptors)]
           /\ \A d \in Buckets : NoTwice(queue'[d])
           /\ \A d \in Buckets : \A i \in Elems(queue'[d]) :
                i \in Elems(queue[d]) \/ (i = j /\ d = b)
  <1>1. queue \in [Buckets -> Seq(Descriptors)]
    BY DEF ExecutorTypeOK
  <1>2. /\ queue'[b] = Append(queue[b], j)
        /\ \A d \in Buckets : d # b => queue'[d] = queue[d]
        /\ queue[b] \in Seq(Descriptors)
    BY <1>1
  <1>3. /\ Append(queue[b], j) \in Seq(Descriptors)
        /\ Elems(Append(queue[b], j)) = Elems(queue[b]) \cup {j}
        /\ NoTwice(Append(queue[b], j))
    BY <1>2, PutElems DEF QueueInv, Queued
  <1>4. queue' \in [Buckets -> Seq(Descriptors)]
    BY <1>1, <1>3
  <1> QED
    BY <1>2, <1>3, <1>4 DEF QueueInv

(* A get: the job that is taken is in no queue any more. *)
LEMMA TakeQueue ==
    ASSUME ExecutorTypeOK, QueueInv, NEW b \in Buckets, queue[b] # <<>>,
           queue' = [queue EXCEPT ![b] = Tail(@)]
    PROVE  /\ queue' \in [Buckets -> Seq(Descriptors)]
           /\ Head(queue[b]) \in Descriptors /\ Queued(Head(queue[b])) /\ Waiting(Head(queue[b]))
           /\ \A d \in Buckets : NoTwice(queue'[d]) /\ Elems(queue'[d]) \subseteq Elems(queue[d])
           /\ \A d \in Buckets : Head(queue[b]) \notin Elems(queue'[d])
  <1>1. queue \in [Buckets -> Seq(Descriptors)]
    BY DEF ExecutorTypeOK
  <1>2. /\ queue'[b] = Tail(queue[b])
        /\ \A d \in Buckets : d # b => queue'[d] = queue[d]
        /\ queue[b] \in Seq(Descriptors)
    BY <1>1
  <1>3. /\ Tail(queue[b]) \in Seq(Descriptors)
        /\ Head(queue[b]) \in Elems(queue[b]) /\ Head(queue[b]) \in Descriptors
        /\ Elems(Tail(queue[b])) \subseteq Elems(queue[b])
        /\ NoTwice(Tail(queue[b])) /\ Head(queue[b]) \notin Elems(Tail(queue[b]))
    BY <1>2, TakeElems DEF QueueInv
  <1>4. queue' \in [Buckets -> Seq(Descriptors)]
    BY <1>1, <1>3
  <1>5. \A d \in Buckets : Head(queue[b]) \notin Elems(queue'[d])
    <2> SUFFICES ASSUME NEW d \in Buckets, d # b, Head(queue[b]) \in Elems(queue[d]) PROVE FALSE
      BY <1>2, <1>3
    <2>1. BucketOf[Head(queue[b])] = d
      BY DEF QueueInv
    <2>2. BucketOf[Head(queue[b])] = b
      BY <1>3 DEF QueueInv
    <2> QED
      BY <2>1, <2>2
  <1> QED
    BY <1>2, <1>3, <1>4, <1>5 DEF QueueInv, Queued

(* A new job is nowhere yet. *)
LEMMA NewIsNowhere ==
    ASSUME ExecutorInv, NEW j \in Descriptors, status[j] \in {"new", "running"}
    PROVE  ~Queued(j)
  <1>1. ~Waiting(j)
    BY DEF Waiting
  <1> QED
    BY <1>1 DEF ExecutorInv, ExecutorPlaces, QueueInv, Queued

-----------------------------------------------------------------------------
(* Types *)

(* A descriptor, a thread or a queue never leaves its places. *)
LEMMA TypeStep ==
    ASSUME ExecutorInv, [ExecutorNext]_executorVars
    PROVE  ExecutorTypeOK'
  <1>t. ExecutorTypeOK
    BY DEF ExecutorInv
  <1>1. ASSUME NEW c \in Callers, NEW j \in Descriptors, SubmitCheck(c, j) PROVE ExecutorTypeOK'
    <2>1. status' \in [Descriptors -> {"new", "refused"} \cup LiveStatus \cup Final]
      BY <1>1, <1>t DEF SubmitCheck, ExecutorTypeOK
    <2>2. mutex' \in Callers \cup {Nobody}
      BY <1>1, <1>t DEF SubmitCheck, ExecutorTypeOK
    <2>3. caller' \in [Callers -> [pc : {"idle", "put", "register"}, job : Descriptors \cup {NoJob}]]
      BY <1>1, <1>t DEF SubmitCheck, ExecutorTypeOK
    <2> QED
      BY <1>1, <1>t, <2>1, <2>2, <2>3 DEF SubmitCheck, ExecutorTypeOK
  <1>2. ASSUME NEW c \in Callers, SubmitPut(c) PROVE ExecutorTypeOK'
    <2>1. caller[c].job \in Descriptors /\ status[caller[c].job] = "new"
      BY <1>2 DEF SubmitPut, ExecutorInv, ExecutorPlaces, CallerInv
    <2>2. BucketOf[caller[c].job] \in Buckets
      BY <2>1, BucketAssumption
    <2>3. queue' \in [Buckets -> Seq(Descriptors)]
      <3>1. QueueInv
        BY DEF ExecutorInv, ExecutorPlaces
      <3>2. queue' = queue \/ queue' = [queue EXCEPT ![BucketOf[caller[c].job]] = Append(@, caller[c].job)]
        BY <1>2 DEF SubmitPut
      <3>3. ~Queued(caller[c].job)
        BY <2>1, NewIsNowhere
      <3> QED
        BY <1>t, <2>1, <2>2, <3>1, <3>2, <3>3, PutQueue DEF ExecutorTypeOK
    <2>4. status' \in [Descriptors -> {"new", "refused"} \cup LiveStatus \cup Final]
      BY <1>2, <1>t DEF SubmitPut, ExecutorTypeOK, LiveStatus
    <2>5. mutex' \in Callers \cup {Nobody}
      BY <1>2, <1>t DEF SubmitPut, ExecutorTypeOK
    <2>6. caller' \in [Callers -> [pc : {"idle", "put", "register"}, job : Descriptors \cup {NoJob}]]
      <3>1. caller \in [Callers -> [pc : {"idle", "put", "register"}, job : Descriptors \cup {NoJob}]]
        BY <1>t DEF ExecutorTypeOK
      <3>2. \/ caller' = [caller EXCEPT ![c].pc = "register"]
            \/ caller' = [caller EXCEPT ![c] = [pc |-> "idle", job |-> NoJob]]
        BY <1>2 DEF SubmitPut
      <3> QED
        BY <3>1, <3>2
    <2> QED
      BY <1>2, <1>t, <2>3, <2>4, <2>5, <2>6 DEF SubmitPut, ExecutorTypeOK
  <1>3. ASSUME NEW c \in Callers, SubmitRegister(c) PROVE ExecutorTypeOK'
    <2>1. caller[c].job \in Descriptors
      BY <1>3 DEF SubmitRegister, ExecutorInv, ExecutorPlaces, CallerInv
    <2> QED
      BY <1>3, <1>t, <2>1 DEF SubmitRegister, ExecutorTypeOK
  <1>4. ASSUME NEW j \in Descriptors, CancelJob(j) PROVE ExecutorTypeOK'
    <2>1. ended' \in Seq(Descriptors)
      BY <1>4, <1>t, EndsType DEF CancelJob, ExecutorTypeOK
    <2> QED
      BY <1>4, <1>t, <2>1 DEF CancelJob, ExecutorTypeOK, Final
  <1>5. ASSUME NEW w \in Workers, Poll(w) PROVE ExecutorTypeOK'
    BY <1>5, <1>t DEF Poll, Becomes, ExecutorTypeOK
  <1>6. ASSUME NEW w \in Workers, Get(w) PROVE ExecutorTypeOK'
    <2>1. BucketOf[w] \in Buckets /\ QueueInv
      BY BucketAssumption DEF ExecutorInv, ExecutorPlaces
    <2>w. worker \in [Workers -> [pc : {"poll", "get", "hold", "run", "exit"},
                                  job : Descriptors \cup {NoJob}]]
      BY <1>t DEF ExecutorTypeOK
    <2>u. UNCHANGED <<status, cancel, known, ended, active, mutex, caller, stop>>
      BY <1>6 DEF Get
    <2>2. CASE queue[BucketOf[w]] = <<>>
      <3>1. worker' = [worker EXCEPT ![w] = [pc |-> "poll", job |-> NoJob]] /\ UNCHANGED queue
        BY <1>6, <2>2 DEF Get, Becomes
      <3>2. worker' \in [Workers -> [pc : {"poll", "get", "hold", "run", "exit"},
                                     job : Descriptors \cup {NoJob}]]
        BY <2>w, <3>1
      <3> QED
        BY <1>t, <2>u, <3>1, <3>2 DEF ExecutorTypeOK
    <2>3. CASE queue[BucketOf[w]] # <<>>
      <3>1. Head(queue[BucketOf[w]]) \in Descriptors /\ queue' \in [Buckets -> Seq(Descriptors)]
        BY <1>6, <1>t, <2>1, <2>3, TakeQueue DEF Get
      <3>2. worker' = [worker EXCEPT ![w] = [pc |-> "hold", job |-> Head(queue[BucketOf[w]])]]
        BY <1>6, <2>3 DEF Get, Becomes
      <3>3. worker' \in [Workers -> [pc : {"poll", "get", "hold", "run", "exit"},
                                     job : Descriptors \cup {NoJob}]]
        BY <2>w, <3>1, <3>2
      <3> QED
        BY <1>t, <2>u, <3>1, <3>3 DEF ExecutorTypeOK
    <2> QED
      BY <2>2, <2>3
  <1>7. ASSUME NEW w \in Workers, Begin(w) PROVE ExecutorTypeOK'
    <2>1. worker[w].job \in Descriptors
      BY <1>7 DEF Begin, ExecutorInv, ExecutorPlaces, WorkerInv, InHand
    <2>2. ended' \in Seq(Descriptors)
      BY <1>7, <1>t, <2>1, EndsType DEF Begin, ExecutorTypeOK
    <2>3. status' \in [Descriptors -> {"new", "refused"} \cup LiveStatus \cup Final]
      BY <1>7, <1>t DEF Begin, ExecutorTypeOK, LiveStatus, Final
    <2>4. active' \subseteq Descriptors
      BY <1>7, <1>t, <2>1 DEF Begin, ExecutorTypeOK
    <2>5. worker' \in [Workers -> [pc : {"poll", "get", "hold", "run", "exit"},
                                   job : Descriptors \cup {NoJob}]]
      BY <1>7, <1>t, <2>1 DEF Begin, ExecutorTypeOK, Becomes
    <2> QED
      BY <1>7, <1>t, <2>2, <2>3, <2>4, <2>5 DEF Begin, ExecutorTypeOK
  <1>8. ASSUME NEW w \in Workers, NEW raised \in BOOLEAN, Finish(w, raised) PROVE ExecutorTypeOK'
    <2>1. worker[w].job \in Descriptors
      BY <1>8 DEF Finish, ExecutorInv, ExecutorPlaces, WorkerInv, InHand
    <2>2. ended' \in Seq(Descriptors)
      BY <1>8, <1>t, <2>1, EndsType DEF Finish, ExecutorTypeOK
    <2>3. known' \subseteq Descriptors
      BY <1>8, <1>t DEF Finish, ExecutorTypeOK
    <2> QED
      BY <1>8, <1>t, <2>1, <2>2, <2>3 DEF Finish, ExecutorTypeOK, Becomes, Discard, Final
  <1>9. ASSUME StopBegins PROVE ExecutorTypeOK'
    BY <1>9, <1>t DEF StopBegins, ExecutorTypeOK
  <1>10. ASSUME DrainQueue PROVE ExecutorTypeOK'
    <2>1. PICK b \in stop.left :
            IF queue[b] = <<>>
            THEN stop' = [stop EXCEPT !.left = @ \ {b}] /\ UNCHANGED queue
            ELSE /\ stop' = [stop EXCEPT !.pc = "mark", !.job = Head(queue[b])]
                 /\ queue' = [queue EXCEPT ![b] = Tail(@)]
      BY <1>10 DEF DrainQueue
    <2>2. b \in Buckets /\ QueueInv
      BY <1>t DEF ExecutorTypeOK, ExecutorInv, ExecutorPlaces
    <2>3. CASE queue[b] = <<>>
      BY <1>10, <1>t, <2>1, <2>3 DEF DrainQueue, ExecutorTypeOK
    <2>4. CASE queue[b] # <<>>
      <3>1. Head(queue[b]) \in Descriptors /\ queue' \in [Buckets -> Seq(Descriptors)]
        BY <1>t, <2>1, <2>2, <2>4, TakeQueue
      <3> QED
        BY <1>10, <1>t, <2>1, <2>4, <3>1 DEF DrainQueue, ExecutorTypeOK
    <2> QED
      BY <2>3, <2>4
  <1>11. ASSUME DrainMark PROVE ExecutorTypeOK'
    <2>1. stop.job \in Descriptors
      BY <1>11 DEF DrainMark, ExecutorInv, ExecutorPlaces, StopInv
    <2>2. ended' \in Seq(Descriptors)
      BY <1>11, <1>t, <2>1, EndsType DEF DrainMark, ExecutorTypeOK
    <2>3. known' \subseteq Descriptors
      BY <1>11, <1>t DEF DrainMark, ExecutorTypeOK
    <2> QED
      BY <1>11, <1>t, <2>1, <2>2, <2>3 DEF DrainMark, ExecutorTypeOK, Final
  <1>12. ASSUME Drained \/ Join PROVE ExecutorTypeOK'
    BY <1>12, <1>t DEF Drained, Join, ExecutorTypeOK
  <1>13. ASSUME UNCHANGED executorVars PROVE ExecutorTypeOK'
    BY <1>13, <1>t DEF executorVars, ExecutorTypeOK
  <1> QED
    BY ExecutorSteps, <1>1, <1>2, <1>3, <1>4, <1>5, <1>6, <1>7, <1>8, <1>9, <1>10, <1>11, <1>12, <1>13

-----------------------------------------------------------------------------
(* ExecutorPlaces *)

(* No caller is inside submit_job while the lock is free. *)
LEMMA FreeIsIdle ==
    ASSUME CallerInv, mutex = Nobody
    PROVE  \A c \in Callers : caller[c].pc = "idle"
  BY NamesAssumption DEF CallerInv

(* The other callers are outside while one has the lock. *)
LEMMA OthersIdle ==
    ASSUME CallerInv, NEW c \in Callers, caller[c].pc # "idle"
    PROVE  mutex = c /\ \A d \in Callers \ {c} : caller[d].pc = "idle"
  BY DEF CallerInv

(* Whoever submits has the lock, and the job in hand stays new until the put. *)
LEMMA CallerKept ==
    ASSUME ExecutorInv, [ExecutorNext]_executorVars
    PROVE  CallerInv'
  <1>t. ExecutorTypeOK /\ ExecutorPlaces
    BY DEF ExecutorInv
  <1>1. ASSUME NEW c \in Callers, NEW j \in Descriptors, SubmitCheck(c, j) PROVE CallerInv'
    <2>1. \A d \in Callers : caller[d].pc = "idle"
      BY <1>1, <1>t, FreeIsIdle DEF SubmitCheck, ExecutorPlaces
    <2>2. \/ UNCHANGED caller
          \/ mutex' = c /\ caller' = [caller EXCEPT ![c] = [pc |-> "put", job |-> j]] /\ status'[j] = "new"
      BY <1>1 DEF SubmitCheck
    <2>3. caller \in [Callers -> [pc : {"idle", "put", "register"}, job : Descriptors \cup {NoJob}]]
      BY <1>t DEF ExecutorTypeOK
    <2> QED
      BY <2>1, <2>2, <2>3 DEF CallerInv
  <1>2. ASSUME NEW c \in Callers, SubmitPut(c) PROVE CallerInv'
    <2>1. caller[c].pc # "idle" /\ caller[c].job \in Descriptors
      BY <1>2 DEF SubmitPut, ExecutorInv, ExecutorPlaces, CallerInv
    <2>2. /\ mutex = c
          /\ \A d \in Callers \ {c} : caller[d].pc = "idle"
      BY <1>t, <2>1, OthersIdle DEF ExecutorPlaces
    <2>3. caller \in [Callers -> [pc : {"idle", "put", "register"}, job : Descriptors \cup {NoJob}]]
      BY <1>t DEF ExecutorTypeOK
    <2>4. \/ caller' = [caller EXCEPT ![c].pc = "register"] /\ UNCHANGED mutex
          \/ caller' = [caller EXCEPT ![c] = [pc |-> "idle", job |-> NoJob]]
      BY <1>2 DEF SubmitPut
    <2>5. /\ \A d \in Callers \ {c} : caller'[d] = caller[d]
          /\ \/ caller'[c].pc = "register" /\ caller'[c].job = caller[c].job /\ mutex' = c
             \/ caller'[c].pc = "idle"
      BY <2>2, <2>3, <2>4
    <2> QED
      BY <2>1, <2>2, <2>5 DEF CallerInv
  <1>3. ASSUME NEW c \in Callers, SubmitRegister(c) PROVE CallerInv'
    <2>1. caller[c].pc # "idle" /\ caller[c].job \in Descriptors
      BY <1>3 DEF SubmitRegister, ExecutorInv, ExecutorPlaces, CallerInv
    <2>2. /\ mutex = c
          /\ \A d \in Callers \ {c} : caller[d].pc = "idle"
      BY <1>t, <2>1, OthersIdle DEF ExecutorPlaces
    <2>3. caller \in [Callers -> [pc : {"idle", "put", "register"}, job : Descriptors \cup {NoJob}]]
      BY <1>t DEF ExecutorTypeOK
    <2>4. \A d \in Callers : caller'[d].pc = "idle"
      BY <1>3, <2>2, <2>3 DEF SubmitRegister
    <2> QED
      BY <2>4 DEF CallerInv
  <1>4. ASSUME NEW j \in Descriptors, CancelJob(j) PROVE CallerInv'
    <2>1. mutex = Nobody /\ UNCHANGED caller
      BY <1>4 DEF CancelJob
    <2> QED
      BY <1>t, <2>1, FreeIsIdle DEF CallerInv, ExecutorPlaces
  <1>5. ASSUME NEW w \in Workers, Poll(w) PROVE CallerInv'
    BY <1>5, <1>t DEF Poll, Becomes, ExecutorTypeOK, ExecutorPlaces, CallerInv
  <1>6. ASSUME NEW w \in Workers, Get(w) PROVE CallerInv'
    BY <1>6, <1>t DEF Get, Becomes, ExecutorTypeOK, ExecutorPlaces, CallerInv
  <1>7. ASSUME NEW w \in Workers, Begin(w) PROVE CallerInv'
    <2>1. mutex = Nobody /\ UNCHANGED caller
      BY <1>7 DEF Begin
    <2> QED
      BY <1>t, <2>1, FreeIsIdle DEF CallerInv, ExecutorPlaces
  <1>8. ASSUME NEW w \in Workers, NEW raised \in BOOLEAN, Finish(w, raised) PROVE CallerInv'
    <2>1. mutex = Nobody /\ UNCHANGED caller
      BY <1>8 DEF Finish
    <2> QED
      BY <1>t, <2>1, FreeIsIdle DEF CallerInv, ExecutorPlaces
  <1>9. ASSUME StopBegins PROVE CallerInv'
    BY <1>9, <1>t DEF StopBegins, ExecutorTypeOK, ExecutorPlaces, CallerInv
  <1>10. ASSUME DrainQueue PROVE CallerInv'
    BY <1>10, <1>t DEF DrainQueue, ExecutorTypeOK, ExecutorPlaces, CallerInv
  <1>11. ASSUME DrainMark PROVE CallerInv'
    <2>1. mutex = Nobody /\ UNCHANGED caller
      BY <1>11 DEF DrainMark
    <2> QED
      BY <1>t, <2>1, FreeIsIdle DEF CallerInv, ExecutorPlaces
  <1>12. ASSUME Drained \/ Join PROVE CallerInv'
    BY <1>12, <1>t DEF Drained, Join, ExecutorTypeOK, ExecutorPlaces, CallerInv
  <1>13. ASSUME UNCHANGED executorVars PROVE CallerInv'
    BY <1>13, <1>t DEF executorVars, ExecutorTypeOK, ExecutorPlaces, CallerInv
  <1> QED
    BY ExecutorSteps, <1>1, <1>2, <1>3, <1>4, <1>5, <1>6, <1>7, <1>8, <1>9, <1>10, <1>11, <1>12, <1>13

-----------------------------------------------------------------------------
(* What a step does to one job, one queue, one worker *)

(* Caller c has put job i into its queue and goes on to register it. *)
PutBy(c, i) ==
    caller[c].pc = "put" /\ caller[c].job = i /\ caller'[c] = [pc |-> "register", job |-> i]

(* A job moves by its caller, by cancel_job, by the worker that has it, or  *)
(* by shutdown; a request to cancel is never taken back.                    *)
JobMove(i) ==
    /\ cancel[i] => cancel'[i]
    /\ \/ status'[i] = status[i]
       \/ status[i] = "new" /\ status'[i] = "refused"
       \/ status[i] = "new" /\ status'[i] = "queued" /\ \E c \in Callers : PutBy(c, i)
       \/ status[i] = "queued" /\ status'[i] = "cancelled" /\ cancel'[i]
       \/ \E w \in Workers : /\ InHand(w) /\ worker[w].job = i /\ worker'[w] # worker[w]
                             /\ \/ worker[w].pc = "hold" /\ cancel[i] /\ status'[i] = "cancelled"
                                \/ worker[w].pc = "hold" /\ ~cancel[i]
                                \/ worker[w].pc = "run"
       \/ stop.pc = "mark" /\ stop.job = i /\ stop'.pc # "mark" /\ status'[i] = "cancelled"

(* Every step moves a job, if at all, in one of these ways. *)
LEMMA JobMoves ==
    ASSUME ExecutorInv, [ExecutorNext]_executorVars, NEW i \in Descriptors
    PROVE  JobMove(i)
  <1>t. ExecutorTypeOK /\ ExecutorPlaces
    BY DEF ExecutorInv
  <1>s. status \in [Descriptors -> {"new", "refused"} \cup LiveStatus \cup Final] /\ cancel \in [Descriptors -> BOOLEAN]
    BY <1>t DEF ExecutorTypeOK
  <1>w. worker \in [Workers -> [pc : {"poll", "get", "hold", "run", "exit"}, job : Descriptors \cup {NoJob}]]
    BY <1>t DEF ExecutorTypeOK
  <1>1. ASSUME NEW c \in Callers, NEW j \in Descriptors, SubmitCheck(c, j) PROVE JobMove(i)
    BY <1>1, <1>s DEF SubmitCheck, JobMove
  <1>2. ASSUME NEW c \in Callers, SubmitPut(c) PROVE JobMove(i)
    <2>1. caller[c].job \in Descriptors /\ status[caller[c].job] = "new"
      BY <1>2, <1>t DEF SubmitPut, ExecutorPlaces, CallerInv
    <2>2. /\ UNCHANGED cancel
          /\ \/ status' = [status EXCEPT ![caller[c].job] = "refused"]
             \/ /\ status' = [status EXCEPT ![caller[c].job] = "queued"]
                /\ caller' = [caller EXCEPT ![c].pc = "register"]
      BY <1>2 DEF SubmitPut
    <2>3. caller \in [Callers -> [pc : {"idle", "put", "register"}, job : Descriptors \cup {NoJob}]]
      BY <1>t DEF ExecutorTypeOK
    <2>4. CASE i # caller[c].job
      BY <2>1, <2>2, <2>4, <1>s DEF JobMove
    <2>5. CASE i = caller[c].job /\ status' = [status EXCEPT ![caller[c].job] = "refused"]
      BY <2>1, <2>2, <2>5, <1>s DEF JobMove
    <2>6. CASE i = caller[c].job /\ status' = [status EXCEPT ![caller[c].job] = "queued"]
      <3>1. status'[i] = "queued"
        BY <1>s, <2>1, <2>6
      <3>2. caller' = [caller EXCEPT ![c].pc = "register"]
        BY <2>2, <3>1, <1>s, <2>1, <2>6
      <3>3. PutBy(c, i)
        BY <1>2, <2>3, <2>6, <3>2 DEF PutBy, SubmitPut
      <3> QED
        BY <2>1, <2>2, <2>6, <3>1, <3>3 DEF JobMove
    <2> QED
      BY <2>2, <2>4, <2>5, <2>6
  <1>3. ASSUME NEW c \in Callers, SubmitRegister(c) PROVE JobMove(i)
    BY <1>3 DEF SubmitRegister, JobMove
  <1>4. ASSUME NEW j \in Descriptors, CancelJob(j) PROVE JobMove(i)
    BY <1>4, <1>s DEF CancelJob, JobMove
  <1>5. ASSUME NEW w \in Workers, Poll(w) PROVE JobMove(i)
    BY <1>5 DEF Poll, JobMove
  <1>6. ASSUME NEW w \in Workers, Get(w) PROVE JobMove(i)
    BY <1>6 DEF Get, JobMove
  <1>7. ASSUME NEW w \in Workers, Begin(w) PROVE JobMove(i)
    <2>1. /\ worker[w].pc = "hold" /\ UNCHANGED cancel
          /\ worker'[w].pc \in {"poll", "run"}
          /\ cancel[worker[w].job] => status' = [status EXCEPT ![worker[w].job] = "cancelled"]
          /\ \E r \in {"cancelled", "running"} : status' = [status EXCEPT ![worker[w].job] = r]
      BY <1>7, <1>w DEF Begin, Becomes, Drops
    <2>2. worker[w].job \in Descriptors
      BY <1>t, <2>1 DEF ExecutorPlaces, WorkerInv, InHand
    <2>3. CASE i # worker[w].job
      BY <2>1, <2>3, <1>s DEF JobMove
    <2>4. CASE i = worker[w].job
      BY <2>1, <2>2, <2>4, <1>s DEF JobMove, InHand
    <2> QED
      BY <2>3, <2>4
  <1>8. ASSUME NEW w \in Workers, NEW raised \in BOOLEAN, Finish(w, raised) PROVE JobMove(i)
    <2>1. /\ worker[w].pc = "run" /\ UNCHANGED cancel
          /\ worker'[w].pc = "poll"
          /\ \E r \in Final : status' = [status EXCEPT ![worker[w].job] = r]
      BY <1>8, <1>w DEF Finish, Becomes, Final
    <2>3. CASE i # worker[w].job
      BY <2>1, <2>3, <1>s DEF JobMove
    <2>4. CASE i = worker[w].job
      BY <2>1, <2>4, <1>s DEF JobMove, InHand
    <2> QED
      BY <2>3, <2>4
  <1>9. ASSUME StopBegins PROVE JobMove(i)
    BY <1>9 DEF StopBegins, JobMove
  <1>10. ASSUME DrainQueue PROVE JobMove(i)
    BY <1>10 DEF DrainQueue, JobMove
  <1>11. ASSUME DrainMark PROVE JobMove(i)
    <2>1. /\ stop.pc = "mark" /\ stop'.pc = "drain"
          /\ cancel' = [cancel EXCEPT ![stop.job] = TRUE]
          /\ status' = [status EXCEPT ![stop.job] = "cancelled"]
      BY <1>11, <1>t DEF DrainMark, ExecutorTypeOK
    <2>3. CASE i # stop.job
      BY <2>1, <2>3, <1>s DEF JobMove
    <2>4. CASE i = stop.job
      BY <2>1, <2>4, <1>s DEF JobMove
    <2> QED
      BY <2>3, <2>4
  <1>12. ASSUME Drained \/ Join PROVE JobMove(i)
    BY <1>12 DEF Drained, Join, JobMove
  <1>13. ASSUME UNCHANGED executorVars PROVE JobMove(i)
    BY <1>13 DEF executorVars, JobMove
  <1> QED
    BY ExecutorSteps, <1>1, <1>2, <1>3, <1>4, <1>5, <1>6, <1>7, <1>8, <1>9, <1>10, <1>11, <1>12, <1>13

(* A queue keeps its jobs in order, loses some, or gets one new job. *)
QueueMove(b) ==
    /\ NoTwice(queue'[b])
    /\ \A i \in Elems(queue'[b]) :
        \/ i \in Elems(queue[b])
        \/ i \in Descriptors /\ BucketOf[i] = b /\ status[i] = "new" /\ status'[i] = "queued"

(* Every step moves a queue, if at all, like this. *)
LEMMA QueueMoves ==
    ASSUME ExecutorInv, [ExecutorNext]_executorVars, NEW b \in Buckets
    PROVE  QueueMove(b)
  <1>t. ExecutorTypeOK /\ ExecutorPlaces
    BY DEF ExecutorInv
  <1>1. ASSUME NEW c \in Callers, NEW j \in Descriptors, SubmitCheck(c, j) PROVE QueueMove(b)
    BY <1>1, <1>t DEF SubmitCheck, ExecutorPlaces, QueueInv, QueueMove
  <1>2. ASSUME NEW c \in Callers, SubmitPut(c) PROVE QueueMove(b)
    <2>1. caller[c].job \in Descriptors /\ status[caller[c].job] = "new" /\ QueueInv
      BY <1>2, <1>t DEF SubmitPut, ExecutorPlaces, CallerInv
    <2>2. ~Queued(caller[c].job) /\ BucketOf[caller[c].job] \in Buckets
      BY <2>1, NewIsNowhere, BucketAssumption
    <2>3. CASE UNCHANGED queue
      BY <2>1, <2>3 DEF QueueInv, QueueMove
    <2>4. CASE /\ queue' = [queue EXCEPT ![BucketOf[caller[c].job]] = Append(@, caller[c].job)]
               /\ status' = [status EXCEPT ![caller[c].job] = "queued"]
      <3>1. /\ NoTwice(queue'[b])
            /\ \A i \in Elems(queue'[b]) :
                i \in Elems(queue[b]) \/ (i = caller[c].job /\ b = BucketOf[caller[c].job])
        BY <1>t, <2>1, <2>2, <2>4, PutQueue
      <3>2. status'[caller[c].job] = "queued"
        BY <1>t, <2>1, <2>4 DEF ExecutorTypeOK
      <3> QED
        BY <2>1, <3>1, <3>2 DEF QueueMove
    <2> QED
      BY <1>2, <2>3, <2>4 DEF SubmitPut
  <1>3. ASSUME NEW c \in Callers, SubmitRegister(c) PROVE QueueMove(b)
    BY <1>3, <1>t DEF SubmitRegister, ExecutorPlaces, QueueInv, QueueMove
  <1>4. ASSUME NEW j \in Descriptors, CancelJob(j) PROVE QueueMove(b)
    BY <1>4, <1>t DEF CancelJob, ExecutorPlaces, QueueInv, QueueMove
  <1>5. ASSUME NEW w \in Workers, Poll(w) PROVE QueueMove(b)
    BY <1>5, <1>t DEF Poll, Becomes, ExecutorPlaces, QueueInv, QueueMove
  <1>6. ASSUME NEW w \in Workers, Get(w) PROVE QueueMove(b)
    <2>1. QueueInv /\ BucketOf[w] \in Buckets
      BY <1>t, BucketAssumption DEF ExecutorPlaces
    <2>2. CASE UNCHANGED queue
      BY <2>1, <2>2 DEF QueueInv, QueueMove
    <2>3. CASE queue[BucketOf[w]] # <<>> /\ queue' = [queue EXCEPT ![BucketOf[w]] = Tail(@)]
      BY <1>t, <2>1, <2>3, TakeQueue DEF QueueMove
    <2> QED
      BY <1>6, <2>2, <2>3 DEF Get
  <1>7. ASSUME NEW w \in Workers, Begin(w) PROVE QueueMove(b)
    BY <1>7, <1>t DEF Begin, Becomes, ExecutorPlaces, QueueInv, QueueMove
  <1>8. ASSUME NEW w \in Workers, NEW raised \in BOOLEAN, Finish(w, raised) PROVE QueueMove(b)
    BY <1>8, <1>t DEF Finish, Becomes, Discard, ExecutorPlaces, QueueInv, QueueMove
  <1>9. ASSUME StopBegins PROVE QueueMove(b)
    BY <1>9, <1>t DEF StopBegins, ExecutorPlaces, QueueInv, QueueMove
  <1>10. ASSUME DrainQueue PROVE QueueMove(b)
    <2>1. PICK d \in stop.left :
            \/ UNCHANGED queue
            \/ queue[d] # <<>> /\ queue' = [queue EXCEPT ![d] = Tail(@)]
      BY <1>10 DEF DrainQueue
    <2>2. QueueInv /\ d \in Buckets
      BY <1>t DEF ExecutorPlaces, ExecutorTypeOK
    <2>3. CASE UNCHANGED queue
      BY <2>2, <2>3 DEF QueueInv, QueueMove
    <2>4. CASE queue[d] # <<>> /\ queue' = [queue EXCEPT ![d] = Tail(@)]
      BY <1>t, <2>2, <2>4, TakeQueue DEF QueueMove
    <2> QED
      BY <2>1, <2>3, <2>4
  <1>11. ASSUME DrainMark PROVE QueueMove(b)
    BY <1>11, <1>t DEF DrainMark, ExecutorPlaces, QueueInv, QueueMove
  <1>12. ASSUME Drained \/ Join PROVE QueueMove(b)
    BY <1>12, <1>t DEF Drained, Join, ExecutorPlaces, QueueInv, QueueMove
  <1>13. ASSUME UNCHANGED executorVars PROVE QueueMove(b)
    BY <1>13, <1>t DEF executorVars, ExecutorPlaces, QueueInv, QueueMove
  <1> QED
    BY ExecutorSteps, <1>1, <1>2, <1>3, <1>4, <1>5, <1>6, <1>7, <1>8, <1>9, <1>10, <1>11, <1>12, <1>13

(* A worker moves alone: to a job it has taken from its queue, on with the  *)
(* job it has, or away from it.                                             *)
WorkerMove(w) ==
    \/ worker'[w] = worker[w]
    \/ ~InHand(w)'
    \/ \E i \in Descriptors : /\ worker'[w].pc = "hold" /\ worker'[w].job = i /\ ~InHand(w)
                       /\ Queued(i) /\ ~Queued(i)' /\ Waiting(i)
                       /\ UNCHANGED <<status, cancel>>
    \/ /\ worker'[w].pc = "run" /\ worker[w].pc = "hold" /\ worker'[w].job = worker[w].job
       /\ status'[worker[w].job] = "running" /\ worker[w].job \in active'

(* Every step moves a worker, if at all, like this. *)
LEMMA WorkerMoves ==
    ASSUME ExecutorInv, [ExecutorNext]_executorVars, NEW v \in Workers
    PROVE  WorkerMove(v)
  <1>t. ExecutorTypeOK /\ ExecutorPlaces
    BY DEF ExecutorInv
  <1>w. worker \in [Workers -> [pc : {"poll", "get", "hold", "run", "exit"}, job : Descriptors \cup {NoJob}]]
    BY <1>t DEF ExecutorTypeOK
  <1>1. ASSUME NEW c \in Callers, NEW j \in Descriptors, SubmitCheck(c, j) PROVE WorkerMove(v)
    BY <1>1 DEF SubmitCheck, WorkerMove
  <1>2. ASSUME NEW c \in Callers, SubmitPut(c) PROVE WorkerMove(v)
    BY <1>2 DEF SubmitPut, WorkerMove
  <1>3. ASSUME NEW c \in Callers, SubmitRegister(c) PROVE WorkerMove(v)
    BY <1>3 DEF SubmitRegister, WorkerMove
  <1>4. ASSUME NEW j \in Descriptors, CancelJob(j) PROVE WorkerMove(v)
    BY <1>4 DEF CancelJob, WorkerMove
  <1>5. ASSUME NEW w \in Workers, Poll(w) PROVE WorkerMove(v)
    BY <1>5, <1>w DEF Poll, Becomes, WorkerMove, InHand
  <1>6. ASSUME NEW w \in Workers, Get(w) PROVE WorkerMove(v)
    <2>1. QueueInv /\ BucketOf[w] \in Buckets
      BY <1>t, BucketAssumption DEF ExecutorPlaces
    <2>2. CASE queue[BucketOf[w]] = <<>>
      BY <1>6, <1>w, <2>2 DEF Get, Becomes, WorkerMove, InHand
    <2>3. CASE queue[BucketOf[w]] # <<>>
      <3> PICK h : h = Head(queue[BucketOf[w]])
        OBVIOUS
      <3>1. queue' = [queue EXCEPT ![BucketOf[w]] = Tail(@)]
        BY <1>6, <2>3 DEF Get
      <3>2. /\ h \in Descriptors /\ Queued(h) /\ Waiting(h)
            /\ \A d \in Buckets : h \notin Elems(queue'[d])
        BY <1>t, <2>1, <2>3, <3>1, TakeQueue
      <3>3. worker' = [worker EXCEPT ![w] = [pc |-> "hold", job |-> h]] /\ worker[w].pc = "get"
        BY <1>6, <2>3 DEF Get, Becomes
      <3>4. UNCHANGED <<status, cancel>>
        BY <1>6 DEF Get
      <3>5. CASE v = w
        BY <1>w, <3>2, <3>3, <3>4, <3>5 DEF WorkerMove, InHand, Queued
      <3>6. CASE v # w
        BY <1>w, <3>3, <3>6 DEF WorkerMove
      <3> QED
        BY <3>5, <3>6
    <2> QED
      BY <2>2, <2>3
  <1>7. ASSUME NEW w \in Workers, Begin(w) PROVE WorkerMove(v)
    <2>1. worker[w].pc = "hold" /\ worker[w].job \in Descriptors
      BY <1>7, <1>t DEF Begin, ExecutorPlaces, WorkerInv, InHand
    <2>2. CASE worker' = [worker EXCEPT ![w] = [pc |-> "poll", job |-> NoJob]]
      BY <1>w, <2>2 DEF WorkerMove, InHand
    <2>3. CASE /\ worker' = [worker EXCEPT ![w] = [pc |-> "run", job |-> worker[w].job]]
               /\ status' = [status EXCEPT ![worker[w].job] = "running"]
               /\ active' = active \cup {worker[w].job}
      <3>1. status'[worker[w].job] = "running"
        BY <1>t, <2>1, <2>3 DEF ExecutorTypeOK
      <3>2. CASE v = w
        BY <1>w, <2>1, <2>3, <3>1, <3>2 DEF WorkerMove
      <3>3. CASE v # w
        BY <1>w, <2>3, <3>3 DEF WorkerMove
      <3> QED
        BY <3>2, <3>3
    <2> QED
      BY <1>7, <2>2, <2>3 DEF Begin, Becomes
  <1>8. ASSUME NEW w \in Workers, NEW raised \in BOOLEAN, Finish(w, raised) PROVE WorkerMove(v)
    BY <1>8, <1>w DEF Finish, Becomes, WorkerMove, InHand
  <1>9. ASSUME StopBegins PROVE WorkerMove(v)
    BY <1>9 DEF StopBegins, WorkerMove
  <1>10. ASSUME DrainQueue PROVE WorkerMove(v)
    BY <1>10 DEF DrainQueue, WorkerMove
  <1>11. ASSUME DrainMark PROVE WorkerMove(v)
    BY <1>11 DEF DrainMark, WorkerMove
  <1>12. ASSUME Drained \/ Join PROVE WorkerMove(v)
    BY <1>12 DEF Drained, Join, WorkerMove
  <1>13. ASSUME UNCHANGED executorVars PROVE WorkerMove(v)
    BY <1>13 DEF executorVars, WorkerMove
  <1> QED
    BY ExecutorSteps, <1>1, <1>2, <1>3, <1>4, <1>5, <1>6, <1>7, <1>8, <1>9, <1>10, <1>11, <1>12, <1>13

(* Two workers do not move in one step. *)
LEMMA OneWorkerMoves ==
    ASSUME ExecutorInv, [ExecutorNext]_executorVars, NEW v \in Workers, NEW u \in Workers,
           worker'[v] # worker[v], worker'[u] # worker[u]
    PROVE  v = u
  <1>1. worker \in [Workers -> [pc : {"poll", "get", "hold", "run", "exit"}, job : Descriptors \cup {NoJob}]]
    BY DEF ExecutorInv, ExecutorTypeOK
  <1>2. ASSUME NEW w \in Workers,
               Poll(w) \/ Get(w) \/ Begin(w) \/ \E raised \in BOOLEAN : Finish(w, raised)
        PROVE  \A x \in Workers \ {w} : worker'[x] = worker[x]
    <2>1. ASSUME NEW pc, NEW j, Becomes(w, pc, j) PROVE \A x \in Workers \ {w} : worker'[x] = worker[x]
      BY <1>1, <2>1 DEF Becomes
    <2> QED
      BY <1>2, <2>1, Zenon DEF Poll, Get, Begin, Finish
  <1>3. \/ \E w \in Workers : Poll(w) \/ Get(w) \/ Begin(w) \/ \E raised \in BOOLEAN : Finish(w, raised)
        \/ UNCHANGED worker
    BY ExecutorSteps, Zenon DEF SubmitCheck, SubmitPut, SubmitRegister, CancelJob, StopBegins, DrainQueue, DrainMark, Drained, Join, executorVars
  <1> QED
    BY <1>2, <1>3, Zenon

(* shutdown moves alone: it takes a job from a queue, or marks the one it has. *)
StopMove ==
    \/ stop' = stop
    \/ stop'.pc # "mark"
    \/ \E i \in Descriptors : /\ stop'.job = i /\ Queued(i) /\ ~Queued(i)' /\ Waiting(i)
                       /\ UNCHANGED <<status, cancel, worker>>

(* Every step moves shutdown, if at all, like this. *)
LEMMA StopMoves ==
    ASSUME ExecutorInv, [ExecutorNext]_executorVars
    PROVE  StopMove
  <1>t. ExecutorTypeOK /\ ExecutorPlaces
    BY DEF ExecutorInv
  <1>1. ASSUME NEW c \in Callers, NEW j \in Descriptors, SubmitCheck(c, j) PROVE StopMove
    BY <1>1 DEF SubmitCheck, StopMove
  <1>2. ASSUME NEW c \in Callers, SubmitPut(c) PROVE StopMove
    BY <1>2 DEF SubmitPut, StopMove
  <1>3. ASSUME NEW c \in Callers, SubmitRegister(c) PROVE StopMove
    BY <1>3 DEF SubmitRegister, StopMove
  <1>4. ASSUME NEW j \in Descriptors, CancelJob(j) PROVE StopMove
    BY <1>4 DEF CancelJob, StopMove
  <1>5. ASSUME NEW w \in Workers, Poll(w) PROVE StopMove
    BY <1>5 DEF Poll, Becomes, StopMove
  <1>6. ASSUME NEW w \in Workers, Get(w) PROVE StopMove
    BY <1>6 DEF Get, Becomes, StopMove
  <1>7. ASSUME NEW w \in Workers, Begin(w) PROVE StopMove
    BY <1>7 DEF Begin, Becomes, StopMove
  <1>8. ASSUME NEW w \in Workers, NEW raised \in BOOLEAN, Finish(w, raised) PROVE StopMove
    BY <1>8 DEF Finish, Becomes, Discard, StopMove
  <1>9. ASSUME StopBegins PROVE StopMove
    BY <1>9, <1>t DEF StopBegins, StopMove, ExecutorTypeOK
  <1>10. ASSUME DrainQueue PROVE StopMove
    <2>1. PICK b \in stop.left :
            IF queue[b] = <<>>
            THEN stop' = [stop EXCEPT !.left = @ \ {b}] /\ UNCHANGED queue
            ELSE /\ stop' = [stop EXCEPT !.pc = "mark", !.job = Head(queue[b])]
                 /\ queue' = [queue EXCEPT ![b] = Tail(@)]
      BY <1>10 DEF DrainQueue
    <2>2. b \in Buckets /\ QueueInv /\ stop.pc = "drain" /\ UNCHANGED <<status, cancel, worker>>
      BY <1>t, <1>10 DEF ExecutorTypeOK, ExecutorPlaces, DrainQueue
    <2>3. CASE queue[b] = <<>>
      BY <1>t, <2>1, <2>2, <2>3 DEF StopMove, ExecutorTypeOK
    <2>4. CASE queue[b] # <<>>
      <3> PICK h : h = Head(queue[b])
        OBVIOUS
      <3>1. /\ h \in Descriptors /\ Queued(h) /\ Waiting(h)
            /\ \A d \in Buckets : h \notin Elems(queue'[d])
        BY <1>t, <2>1, <2>2, <2>4, TakeQueue
      <3>2. stop'.job = h
        BY <1>t, <2>1, <2>4 DEF ExecutorTypeOK
      <3> QED
        BY <2>2, <3>1, <3>2 DEF StopMove, Queued
    <2> QED
      BY <2>3, <2>4
  <1>11. ASSUME DrainMark PROVE StopMove
    BY <1>11, <1>t DEF DrainMark, StopMove, ExecutorTypeOK
  <1>12. ASSUME Drained \/ Join PROVE StopMove
    BY <1>12, <1>t DEF Drained, Join, StopMove, ExecutorTypeOK
  <1>13. ASSUME UNCHANGED executorVars PROVE StopMove
    BY <1>13 DEF executorVars, StopMove
  <1> QED
    BY ExecutorSteps, <1>1, <1>2, <1>3, <1>4, <1>5, <1>6, <1>7, <1>8, <1>9, <1>10, <1>11, <1>12, <1>13

(* A job leaves _active_jobs when the worker that runs it is through with it. *)
LEMMA ActiveMoves ==
    ASSUME ExecutorInv, [ExecutorNext]_executorVars, NEW i \in active, i \notin active'
    PROVE  \E w \in Workers : worker[w].pc = "run" /\ worker[w].job = i /\ worker'[w] # worker[w]
  <1>1. ASSUME NEW w \in Workers, NEW raised \in BOOLEAN, Finish(w, raised)
        PROVE  worker[w].pc = "run" /\ worker[w].job = i /\ worker'[w] # worker[w]
    <2>1. worker \in [Workers -> [pc : {"poll", "get", "hold", "run", "exit"}, job : Descriptors \cup {NoJob}]]
      BY DEF ExecutorInv, ExecutorTypeOK
    <2>2. worker[w].pc = "run" /\ worker'[w].pc = "poll" /\ active' = active \ {worker[w].job}
      BY <1>1, <2>1 DEF Finish, Becomes, Discard
    <2> QED
      BY <2>2
  <1>2. (\E w \in Workers : \E raised \in BOOLEAN : Finish(w, raised)) \/ active \subseteq active'
    BY ExecutorSteps, Zenon DEF SubmitCheck, SubmitPut, SubmitRegister, CancelJob, Poll, Get, Begin,
       StopBegins, DrainQueue, DrainMark, Drained, Join, executorVars
  <1> QED
    BY <1>1, <1>2, Zenon

-----------------------------------------------------------------------------
(* ExecutorPlaces are kept *)

(* A waiting job that nobody has taken goes on waiting. *)
LEMMA WaitingKept ==
    ASSUME ExecutorInv, [ExecutorNext]_executorVars, NEW i \in Descriptors, Waiting(i),
           \A w \in Workers : InHand(w) /\ worker[w].job = i => worker'[w] = worker[w],
           stop.pc = "mark" => stop.job # i
    PROVE  Waiting(i)'
  BY JobMoves, Zenon DEF JobMove, Waiting

(* What is in hand is not new. *)
LEMMA HeldIsNotNew ==
    ASSUME ExecutorInv, NEW w \in Workers, InHand(w)
    PROVE  worker[w].job \in Descriptors /\ ~Queued(worker[w].job) /\ status[worker[w].job] # "new"
  BY DEF ExecutorInv, ExecutorPlaces, WorkerInv, InHand, Waiting

(* A job in no queue comes into one only when it is new. *)
LEMMA StaysOutside ==
    ASSUME ExecutorInv, [ExecutorNext]_executorVars, NEW i \in Descriptors, ~Queued(i), status[i] # "new"
    PROVE  ~Queued(i)'
  BY QueueMoves, Zenon DEF QueueMove, Queued

(* What is in a queue waits, in its own bucket, once. *)
LEMMA QueueKept ==
    ASSUME ExecutorInv, [ExecutorNext]_executorVars
    PROVE  QueueInv'
  <1>1. \A b \in Buckets : NoTwice(queue'[b])
    BY QueueMoves DEF QueueMove
  <1>2. ASSUME NEW b \in Buckets, NEW i \in Elems(queue'[b]) PROVE BucketOf[i] = b /\ Waiting(i)'
    <2>1. CASE i \in Elems(queue[b])
      <3>1. BucketOf[i] = b /\ Waiting(i) /\ Queued(i)
        BY <2>1 DEF ExecutorInv, ExecutorPlaces, QueueInv, Queued
      <3>2. i \in Descriptors
        <4>1. queue[b] \in Seq(Descriptors)
          BY DEF ExecutorInv, ExecutorTypeOK
        <4>2. PICK n \in 1 .. Len(queue[b]) : i = queue[b][n]
          BY <2>1 DEF Elems
        <4> QED
          BY <4>1, <4>2, ElementOfSeq
      <3>3. /\ \A w \in Workers : InHand(w) => worker[w].job # i
            /\ stop.pc = "mark" => stop.job # i
        BY <3>1 DEF ExecutorInv, ExecutorPlaces, WorkerInv, StopInv
      <3> QED
        BY <3>1, <3>2, <3>3, WaitingKept
    <2>2. CASE i \notin Elems(queue[b])
      BY <1>2, <2>2, QueueMoves DEF QueueMove, Waiting
    <2> QED
      BY <2>1, <2>2
  <1> QED
    BY <1>1, <1>2 DEF QueueInv

(* What a worker has in hand stays its own. *)
LEMMA WorkerKept ==
    ASSUME ExecutorInv, [ExecutorNext]_executorVars
    PROVE  WorkerInv'
  <1> SUFFICES ASSUME NEW w \in Workers, InHand(w)', NEW i, i = worker'[w].job
               PROVE  /\ i \in Descriptors
                      /\ ~Queued(i)'
                      /\ worker'[w].pc = "hold" => Waiting(i)'
                      /\ worker'[w].pc = "run" => status'[i] = "running" /\ i \in active'
                      /\ \A v \in Workers : InHand(v)' /\ worker'[v].job = i => v = w
    BY Zenon DEF WorkerInv, Waiting, Queued
  <1>i. WorkerInv /\ StopInv
    BY DEF ExecutorInv, ExecutorPlaces
  <1>1. CASE worker'[w] = worker[w]
    <2>1. InHand(w) /\ worker[w].job = i /\ i \in Descriptors /\ ~Queued(i) /\ status[i] # "new"
      BY <1>1, HeldIsNotNew DEF InHand
    <2>2. ~Queued(i)'
      BY <2>1, StaysOutside
    <2>3. \A v \in Workers : InHand(v) /\ worker[v].job = i => v = w
      BY <1>i, <2>1 DEF WorkerInv
    <2>4. stop.pc = "mark" => stop.job # i
      BY <1>i, <2>1 DEF StopInv
    <2>5. ASSUME worker[w].pc = "hold" PROVE Waiting(i)'
      <3>1. Waiting(i)
        BY <1>i, <2>1, <2>5 DEF WorkerInv
      <3> QED
        BY <1>1, <2>1, <2>3, <2>4, <3>1, WaitingKept
    <2>6. ASSUME worker[w].pc = "run" PROVE status'[i] = "running" /\ i \in active'
      <3>1. status[i] = "running" /\ i \in active
        BY <1>i, <2>1, <2>6 DEF WorkerInv
      <3>2. JobMove(i)
        BY <2>1, JobMoves
      <3>3. status'[i] = "running"
        BY <1>1, <2>3, <2>4, <3>1, <3>2 DEF JobMove
      <3>4. i \in active'
        BY <1>1, <2>3, <3>1, ActiveMoves DEF InHand
      <3> QED
        BY <3>3, <3>4
    <2>7. ASSUME NEW v \in Workers, InHand(v)', worker'[v].job = i PROVE v = w
      <3>1. CASE worker'[v] = worker[v]
        BY <2>3, <2>7, <3>1 DEF InHand
      <3>2. CASE worker'[v] # worker[v]
        <4>1. WorkerMove(v)
          BY WorkerMoves
        <4>2. CASE worker[v].pc = "hold" /\ worker'[v].job = worker[v].job
          BY <2>3, <2>7, <4>2 DEF InHand
        <4>3. CASE \E k \in Descriptors : worker'[v].job = k /\ Queued(k)
          BY <2>1, <2>7, <4>3
        <4> QED
          BY <2>7, <3>2, <4>1, <4>2, <4>3 DEF WorkerMove
      <3> QED
        BY <3>1, <3>2
    <2> QED
      BY <1>1, <2>1, <2>2, <2>5, <2>6, <2>7
  <1>2. CASE worker'[w] # worker[w]
    <2>o. \A v \in Workers : v # w => worker'[v] = worker[v]
      BY <1>2, OneWorkerMoves
    <2>1. CASE /\ i \in Descriptors /\ worker'[w].pc = "hold" /\ ~InHand(w)
               /\ Queued(i) /\ ~Queued(i)' /\ Waiting(i)
               /\ UNCHANGED <<status, cancel>>
      <3>1. \A v \in Workers : InHand(v) => worker[v].job # i
        BY <2>1, HeldIsNotNew
      <3>2. \A v \in Workers : InHand(v)' /\ worker'[v].job = i => v = w
        BY <2>o, <3>1 DEF InHand
      <3>3. Waiting(i)'
        BY <2>1 DEF Waiting
      <3> QED
        BY <2>1, <3>2, <3>3
    <2>2. CASE /\ worker'[w].pc = "run" /\ worker[w].pc = "hold" /\ i = worker[w].job
               /\ status'[i] = "running" /\ i \in active'
      <3>1. InHand(w) /\ i \in Descriptors /\ ~Queued(i) /\ status[i] # "new"
        BY <2>2, HeldIsNotNew DEF InHand
      <3>2. \A v \in Workers : InHand(v)' /\ worker'[v].job = i => v = w
        BY <1>i, <2>o, <2>2, <3>1 DEF InHand, WorkerInv
      <3>3. ~Queued(i)'
        BY <3>1, StaysOutside
      <3> QED
        BY <2>2, <3>1, <3>2, <3>3
    <2>3. WorkerMove(w)
      BY WorkerMoves
    <2> QED
      BY <1>2, <2>1, <2>2, <2>3 DEF WorkerMove
  <1> QED
    BY <1>1, <1>2

(* What shutdown has taken stays its own. *)
LEMMA StopKept ==
    ASSUME ExecutorInv, [ExecutorNext]_executorVars
    PROVE  StopInv'
  <1> SUFFICES ASSUME stop'.pc = "mark", NEW i, i = stop'.job
               PROVE  /\ i \in Descriptors /\ ~Queued(i)' /\ Waiting(i)'
                      /\ \A w \in Workers : InHand(w)' => worker'[w].job # i
    BY Zenon DEF StopInv, Queued, Waiting
  <1>1. CASE stop' = stop
    <2>1. /\ i \in Descriptors /\ ~Queued(i) /\ Waiting(i) /\ stop.job = i
          /\ \A w \in Workers : InHand(w) => worker[w].job # i
      BY <1>1 DEF ExecutorInv, ExecutorPlaces, StopInv
    <2>2. Waiting(i)'
      <3>1. JobMove(i)
        BY <2>1, JobMoves
      <3> QED
        BY <1>1, <2>1, <3>1 DEF JobMove, Waiting
    <2>3. ~Queued(i)'
      BY <2>1, StaysOutside DEF Waiting
    <2>4. ASSUME NEW w \in Workers, InHand(w)' PROVE worker'[w].job # i
      <3>1. WorkerMove(w)
        BY WorkerMoves
      <3> QED
        BY <2>1, <2>4, <3>1 DEF WorkerMove, InHand
    <2> QED
      BY <2>1, <2>2, <2>3, <2>4
  <1>2. CASE /\ i \in Descriptors /\ Queued(i) /\ ~Queued(i)' /\ Waiting(i)
             /\ UNCHANGED <<status, cancel, worker>>
    <2>1. \A w \in Workers : InHand(w) => worker[w].job # i
      BY <1>2, HeldIsNotNew
    <2> QED
      BY <1>2, <2>1 DEF Waiting, InHand
  <1> QED
    BY <1>1, <1>2, StopMoves DEF StopMove

-----------------------------------------------------------------------------
(* One job for one piece of work, and every live job can be found *)

(* A job that is live after a step was live, or has just been put. *)
LEMMA LiveFrom ==
    ASSUME ExecutorInv, [ExecutorNext]_executorVars, NEW i \in Descriptors, status'[i] \in LiveStatus
    PROVE  status[i] \in LiveStatus \/ (status[i] = "new" /\ \E c \in Callers : PutBy(c, i))
  <1>1. JobMove(i)
    BY JobMoves
  <1>2. ASSUME NEW w \in Workers, InHand(w), worker[w].job = i PROVE status[i] \in LiveStatus \/ cancel[i]
    BY <1>2 DEF ExecutorInv, ExecutorPlaces, WorkerInv, Waiting, InHand, LiveStatus
  <1>3. ASSUME NEW w \in Workers, InHand(w), worker[w].job = i, worker[w].pc = "run" PROVE status[i] \in LiveStatus
    BY <1>3 DEF ExecutorInv, ExecutorPlaces, WorkerInv, LiveStatus
  <1> QED
    BY <1>1, <1>2, <1>3 DEF JobMove, LiveStatus

(* _jobs loses ended jobs only. *)
LEMMA KnownKept ==
    ASSUME ExecutorInv, [ExecutorNext]_executorVars, NEW i \in known, status'[i] \in LiveStatus
    PROVE  i \in known'
  <1>1. ASSUME NEW k, NEW st, NEW act, NEW fin, st[i] \in LiveStatus PROVE i \notin Prune(k, st, act, fin)
    BY <1>1, PruneTakesEnded DEF LiveStatus, Final
  <1>2. ASSUME NEW w \in Workers, NEW raised \in BOOLEAN, Finish(w, raised) PROVE i \in known'
    BY <1>1, <1>2 DEF Finish
  <1>3. ASSUME DrainMark PROVE i \in known'
    BY <1>1, <1>3 DEF DrainMark
  <1>4. \/ \E w \in Workers : \E raised \in BOOLEAN : Finish(w, raised)
        \/ DrainMark \/ known \subseteq known'
    BY ExecutorSteps, Zenon DEF SubmitCheck, SubmitPut, SubmitRegister, CancelJob, Poll, Get, Begin,
       StopBegins, DrainQueue, Drained, Join, executorVars
  <1> QED
    BY <1>2, <1>3, <1>4, Zenon

(* A caller that registers a job goes on to do so. *)
LEMMA RegisterKept ==
    ASSUME ExecutorInv, [ExecutorNext]_executorVars, NEW c \in Callers, NEW i \in Descriptors,
           caller[c] = [pc |-> "register", job |-> i]
    PROVE  caller'[c] = caller[c] \/ i \in known'
  <1>1. ASSUME NEW d \in Callers, caller[d].pc # "idle" PROVE d = c
    BY <1>1 DEF ExecutorInv, ExecutorPlaces, CallerInv
  <1>2. mutex # Nobody
    BY NamesAssumption DEF ExecutorInv, ExecutorPlaces, CallerInv
  <1>3. ASSUME NEW d \in Callers, SubmitPut(d) PROVE FALSE
    BY <1>1, <1>3 DEF SubmitPut
  <1>4. ASSUME NEW d \in Callers, SubmitRegister(d) PROVE i \in known'
    BY <1>1, <1>4 DEF SubmitRegister
  <1>5. UNCHANGED caller \/ \E d \in Callers : SubmitPut(d) \/ SubmitRegister(d)
    BY <1>2, ExecutorSteps, Zenon DEF SubmitCheck, CancelJob, Poll, Get, Begin, Finish,
       StopBegins, DrainQueue, DrainMark, Drained, Join, executorVars
  <1> QED
    BY <1>3, <1>4, <1>5, Zenon

(* Every live job is in _jobs or about to be. *)
LEMMA LiveKnownKept ==
    ASSUME ExecutorInv, [ExecutorNext]_executorVars
    PROVE  LiveIsKnown'
  <1> SUFFICES ASSUME NEW i \in Descriptors, status'[i] \in LiveStatus
               PROVE  i \in known' \/ \E c \in Callers : caller'[c] = [pc |-> "register", job |-> i]
    BY DEF LiveIsKnown
  <1>1. CASE \E c \in Callers : PutBy(c, i)
    BY <1>1 DEF PutBy
  <1>2. CASE status[i] \in LiveStatus
    <2>1. i \in known \/ \E c \in Callers : caller[c] = [pc |-> "register", job |-> i]
      BY <1>2 DEF ExecutorInv, LiveOnce, LiveIsKnown
    <2> QED
      BY <2>1, KnownKept, RegisterKept
  <1> QED
    BY <1>1, <1>2, LiveFrom

(* Two reusable jobs of one key are not both live. *)
LEMMA OneJobKept ==
    ASSUME ExecutorInv, [ExecutorNext]_executorVars
    PROVE  OneJobPerKey'
  <1> SUFFICES ASSUME NEW i \in Reusable, NEW j \in Reusable, i # j, WorkKey[i] = WorkKey[j],
                      status'[i] \in LiveStatus, status'[j] \in LiveStatus
               PROVE  FALSE
    BY DEF OneJobPerKey
  <1>1. i \in Descriptors /\ j \in Descriptors
    BY ReusableAssumption
  <1>2. ~(status[i] \in LiveStatus /\ status[j] \in LiveStatus)
    BY DEF ExecutorInv, LiveOnce, OneJobPerKey
  <1>3. ASSUME NEW a \in Reusable, NEW b \in Descriptors, NEW c \in Callers, PutBy(c, a), WorkKey[a] = WorkKey[b]
        PROVE  status[b] \notin LiveStatus
    BY <1>3 DEF ExecutorInv, PutInv, PutBy
  <1>4. ASSUME NEW c \in Callers, NEW d \in Callers, PutBy(c, i), PutBy(d, j) PROVE FALSE
    <2>1. c = d
      BY <1>4 DEF PutBy, ExecutorInv, ExecutorPlaces, CallerInv
    <2> QED
      BY <1>4, <2>1 DEF PutBy
  <1>5. status[i] \in LiveStatus \/ \E c \in Callers : PutBy(c, i)
    BY <1>1, LiveFrom
  <1>6. status[j] \in LiveStatus \/ \E c \in Callers : PutBy(c, j)
    BY <1>1, LiveFrom
  <1> QED
    BY <1>1, <1>2, <1>3, <1>4, <1>5, <1>6

(* What submit_job has checked under the lock is still so when it puts. *)
LEMMA PutKept ==
    ASSUME ExecutorInv, [ExecutorNext]_executorVars
    PROVE  PutInv'
  <1> SUFFICES ASSUME NEW c \in Callers, caller'[c].pc = "put", caller'[c].job \in Reusable,
                      NEW i \in Descriptors, WorkKey[i] = WorkKey[caller'[c].job]
               PROVE  status'[i] \notin LiveStatus
    BY DEF PutInv
  <1>i. CallerInv /\ ExecutorTypeOK
    BY DEF ExecutorInv, ExecutorPlaces
  <1>c. caller \in [Callers -> [pc : {"idle", "put", "register"}, job : Descriptors \cup {NoJob}]]
    BY <1>i DEF ExecutorTypeOK
  <1>1. ASSUME NEW d \in Callers, NEW j \in Descriptors, SubmitCheck(d, j) PROVE status'[i] \notin LiveStatus
    <2>1. mutex = Nobody /\ \A e \in Callers : caller[e].pc = "idle"
      BY <1>i, <1>1, FreeIsIdle DEF SubmitCheck
    <2>2. /\ ~(j \in Reusable /\ \E k \in known : Reuses(j, k))
          /\ caller' = [caller EXCEPT ![d] = [pc |-> "put", job |-> j]]
          /\ UNCHANGED status
      BY <1>1, <2>1 DEF SubmitCheck
    <2>3. d = c /\ caller'[c].job = j
      BY <1>c, <2>1, <2>2
    <2>4. i \in known => status[i] \notin LiveStatus
      BY <2>2, <2>3 DEF Reuses
    <2>5. status[i] \in LiveStatus => i \in known
      <3>1. ASSUME NEW e \in Callers, caller[e] = [pc |-> "register", job |-> i] PROVE FALSE
        <4>1. caller[e].pc = "register"
          BY <3>1
        <4> QED
          BY <2>1, <4>1
      <3> QED
        BY <3>1, Zenon DEF ExecutorInv, LiveOnce, LiveIsKnown
    <2> QED
      BY <2>2, <2>4, <2>5
  <1>2. ASSUME NEW d \in Callers, SubmitPut(d) \/ SubmitRegister(d) PROVE FALSE
    <2>1. caller[d].pc # "idle"
      BY <1>2 DEF SubmitPut, SubmitRegister
    <2>2. \A e \in Callers \ {d} : caller[e].pc = "idle"
      BY <1>i, <2>1, OthersIdle
    <2>p. \/ caller' = [caller EXCEPT ![d].pc = "register"]
          \/ caller' = [caller EXCEPT ![d] = [pc |-> "idle", job |-> NoJob]]
      BY <1>2, Zenon DEF SubmitPut, SubmitRegister
    <2>3. \A e \in Callers \ {d} : caller'[e] = caller[e]
      BY <1>c, <2>p
    <2>4. caller'[d].pc # "put"
      BY <1>c, <2>p
    <2> QED
      BY <2>2, <2>3, <2>4
  <1>3. ASSUME UNCHANGED caller, mutex = Nobody \/ UNCHANGED status PROVE status'[i] \notin LiveStatus
    <2>1. UNCHANGED status
      BY <1>i, <1>3, FreeIsIdle
    <2> QED
      BY <1>3, <2>1 DEF ExecutorInv, PutInv
  <1>4. \/ \E d \in Callers, j \in Descriptors : SubmitCheck(d, j)
        \/ \E d \in Callers : SubmitPut(d) \/ SubmitRegister(d)
        \/ UNCHANGED caller /\ (mutex = Nobody \/ UNCHANGED status)
    BY ExecutorSteps, Zenon DEF CancelJob, Poll, Get, Begin, Finish,
       StopBegins, DrainQueue, DrainMark, Drained, Join, executorVars
  <1> QED
    BY <1>1, <1>2, <1>3, <1>4, Zenon

-----------------------------------------------------------------------------
(* The budget *)

(* A job enters _active_jobs only while there is room. *)
LEMMA ActiveKept ==
    ASSUME ExecutorInv, [ExecutorNext]_executorVars
    PROVE  ActiveInv'
  <1>1. IsFiniteSet(active) /\ Cardinality(active) \in Nat /\ Cardinality(active) <= Budget /\ Budget \in Nat
    BY FS_CardinalityType, LimitsAssumption DEF ExecutorInv, ActiveInv
  <1>2. ASSUME NEW w \in Workers, Begin(w) PROVE ActiveInv'
    <2>1. \/ UNCHANGED active
          \/ Cardinality(active) < Budget /\ active' = active \cup {worker[w].job}
      BY <1>2 DEF Begin, HasRoom
    <2> QED
      BY <1>1, <2>1, FS_AddElement, SMTT(30) DEF ActiveInv
  <1>3. ASSUME NEW w \in Workers, NEW raised \in BOOLEAN, Finish(w, raised) PROVE ActiveInv'
    <2>1. active' = active \ {worker[w].job}
      BY <1>3 DEF Finish, Discard
    <2>2. active' \in SUBSET active
      BY <2>1
    <2>3. IsFiniteSet(active') /\ Cardinality(active') <= Cardinality(active)
      BY <1>1, <2>2, FS_Subset
    <2>4. Cardinality(active') \in Nat
      BY <2>3, FS_CardinalityType
    <2> QED
      BY <1>1, <2>3, <2>4 DEF ActiveInv
  <1>4. \/ \E w \in Workers : Begin(w) \/ \E raised \in BOOLEAN : Finish(w, raised)
        \/ UNCHANGED active
    BY ExecutorSteps, Zenon DEF SubmitCheck, SubmitPut, SubmitRegister, CancelJob, Poll, Get,
       StopBegins, DrainQueue, DrainMark, Drained, Join, executorVars
  <1>5. ASSUME UNCHANGED active PROVE ActiveInv'
    BY <1>1, <1>5 DEF ActiveInv
  <1> QED
    BY <1>2, <1>3, <1>4, <1>5, Zenon

(* A running job has its own place in _active_jobs. *)
LEMMA RunnersFit ==
    ASSUME ExecutorInv
    PROVE  BudgetHolds
  <1> DEFINE R == {w \in Workers : worker[w].pc = "run"}
             f == [w \in R |-> worker[w].job]
  <1>1. f \in [R -> active]
    BY DEF ExecutorInv, ExecutorPlaces, WorkerInv, InHand
  <1>2. \A a, b \in R : f[a] = f[b] => a = b
    BY DEF ExecutorInv, ExecutorPlaces, WorkerInv, InHand
  <1>3. f \in Injection(R, active)
    BY <1>1, <1>2, Fun_IsInj
  <1>4. IsFiniteSet(active) /\ Cardinality(active) <= Budget
    BY DEF ExecutorInv, ActiveInv
  <1> HIDE DEF f
  <1>5. IsFiniteSet(R) /\ Cardinality(R) <= Cardinality(active)
    BY <1>3, <1>4, FS_Injection
  <1>6. Cardinality(R) \in Nat /\ Cardinality(active) \in Nat /\ Budget \in Nat
    BY <1>4, <1>5, FS_CardinalityType, LimitsAssumption
  <1>7. Cardinality(R) <= Budget
    BY <1>4, <1>5, <1>6
  <1> QED
    BY <1>7 DEF BudgetHolds

-----------------------------------------------------------------------------
(* The theorems *)

(* The executor starts with empty queues. *)
LEMMA ExecutorInitInv ==
    ASSUME ExecutorInit
    PROVE  ExecutorInv
  <1>1. ExecutorTypeOK
    <2>1. <<>> \in Seq(Descriptors)
      BY EmptySeq
    <2> QED
      BY <2>1 DEF ExecutorInit, ExecutorTypeOK
  <1>2. Len(<<>>) = 0
    BY EmptySeq
  <1>3. ExecutorPlaces
    <2>1. \A b \in Buckets : NoTwice(queue[b]) /\ Elems(queue[b]) = {}
      BY <1>2 DEF ExecutorInit, NoTwice, Elems
    <2> QED
      BY <2>1 DEF ExecutorInit, ExecutorPlaces, CallerInv, QueueInv, WorkerInv, StopInv, InHand
  <1>4. PutInv /\ LiveOnce
    <2>1. \A j \in Descriptors : status[j] \notin LiveStatus
      BY DEF ExecutorInit, LiveStatus
    <2>2. \A c \in Callers : caller[c].pc = "idle"
      BY DEF ExecutorInit
    <2> QED
      BY <2>1, <2>2, ReusableAssumption DEF PutInv, LiveOnce, OneJobPerKey, LiveIsKnown
  <1>5. ActiveInv
    BY FS_EmptySet, LimitsAssumption DEF ExecutorInit, ActiveInv
  <1> QED
    BY <1>1, <1>3, <1>4, <1>5 DEF ExecutorInv

(* Every step keeps the invariant. *)
LEMMA StepInv ==
    ASSUME ExecutorInv, [ExecutorNext]_executorVars
    PROVE  ExecutorInv'
  <1>1. ExecutorPlaces'
    BY CallerKept, QueueKept, WorkerKept, StopKept DEF ExecutorPlaces
  <1>2. LiveOnce'
    BY OneJobKept, LiveKnownKept DEF LiveOnce
  <1> QED
    BY <1>1, <1>2, TypeStep, PutKept, ActiveKept DEF ExecutorInv

(* ExecutorInv holds of every reachable state of the executor. *)
THEOREM ExecutorIsInductive == ExecutorSpec => []ExecutorInv
  <1>1. ExecutorInit => ExecutorInv
    BY ExecutorInitInv
  <1>2. ExecutorInv /\ [ExecutorNext]_executorVars => ExecutorInv'
    BY StepInv
  <1> QED
    BY <1>1, <1>2, PTL DEF ExecutorSpec

(* Every job, thread, queue and lock stays in the places the code gives it. *)
THEOREM ExecutorTypes == ExecutorSpec => []ExecutorTypeOK
  <1>1. ExecutorInv => ExecutorTypeOK
    BY DEF ExecutorInv
  <1> QED
    BY <1>1, ExecutorIsInductive, PTL

(* No more jobs run at a time than global_worker_budget, for any number of  *)
(* buckets and threads (_worker_loop).                                      *)
THEOREM BudgetCorrect == ExecutorSpec => []BudgetHolds
  <1>1. ExecutorInv => BudgetHolds
    BY RunnersFit
  <1> QED
    BY <1>1, ExecutorIsInductive, PTL

(* Two requests for the same work are never both under way, and what is     *)
(* under way can be found (submit_job, get_job, _prune_jobs_locked).        *)
THEOREM LiveOnceCorrect == ExecutorSpec => []LiveOnce
  <1>1. ExecutorInv => LiveOnce
    BY DEF ExecutorInv
  <1> QED
    BY <1>1, ExecutorIsInductive, PTL

(* A job that was reported as ended stays as it ended: no worker runs a job *)
(* that was cancelled in its queue (cancel_job, _worker_loop, shutdown).    *)
THEOREM EndedStays == ExecutorSpec => EndedStaysEnded
  <1>1. ASSUME ExecutorInv, [ExecutorNext]_executorVars PROVE [\A j \in Descriptors : status[j] \in Final => status'[j] = status[j]]_executorVars
    <2> SUFFICES ASSUME NEW j \in Descriptors, status[j] \in Final PROVE status'[j] = status[j]
      OBVIOUS
    <2>1. JobMove(j)
      BY <1>1, JobMoves
    <2>2. ASSUME NEW w \in Workers, InHand(w), worker[w].job = j PROVE worker[w].pc = "hold" /\ status[j] = "cancelled" /\ cancel[j]
      BY <1>1, <2>2 DEF ExecutorInv, ExecutorPlaces, WorkerInv, InHand, Waiting, Final
    <2>3. ASSUME stop.pc = "mark", stop.job = j PROVE status[j] = "cancelled"
      BY <1>1, <2>3 DEF ExecutorInv, ExecutorPlaces, StopInv, Waiting, Final
    <2> QED
      BY <2>1, <2>2, <2>3 DEF JobMove, Final
  <1> QED
    BY <1>1, ExecutorIsInductive, PTL DEF ExecutorSpec, EndedStaysEnded
=============================================================================
