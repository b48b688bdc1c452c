---------------------------- MODULE ReviewDomain ----------------------------
(***************************************************************************)
(* The review of the CURRENT scan of one project.  Reviewers save an       *)
(* analysis, confirm, reject and undo inherited relations, and rebuild     *)
(* the progress projection; readers page through the pending lines and     *)
(* open the code detail layout.                                            *)
(*                                                                         *)
(* Every mutation is one database transaction that locks the row of the    *)
(* project state.  A request reads before it gets the lock, which fixes    *)
(* the snapshot its plain SELECTs answer from; locking reads, UPDATE and   *)
(* INSERT ... SELECT see the committed rows.  So a request is two steps:   *)
(* Begin takes the snapshot, and the mutation runs under the lock with     *)
(* both views.  A refusal or an error rolls everything back: Abort.        *)
(*                                                                         *)
(* A save is one operation over a set of lines: operations of one batch    *)
(* are grouped apart and the last one that names a line wins.  Blocks,     *)
(* reviewers and times are left out.                                       *)
(***************************************************************************)
EXTENDS CodeRegion, Sequences

CONSTANTS
    Lines,              \* ids of the physical lines of the scan
    Files,
    FileOf,             \* [Lines -> Files]
    NumberOf,           \* [Lines -> line number]
    TotalLines,         \* [Files -> number of lines in the sidecar]
    Covered,            \* the lines that are covered; the others are uncovered
    FunctionSets,       \* sets of function ranges a sidecar may hold
    Origins,            \* initial facts: [Lines -> {"none", "inherited", "legacy"}]
    Reviewers,
    Statuses,           \* conclusions a reviewer may save
    Selections,         \* sets of lines a request may name
    PagedFiles,         \* files whose pending lines a client pages through
    PageSize,
    MaxVersion,         \* bound on data_version
    None

ASSUME ReviewConstants ==
    /\ FileOf \in [Lines -> Files] /\ NumberOf \in [Lines -> Nat \ {0}]
    /\ Selections \subseteq SUBSET Lines /\ PagedFiles \subseteq Files
    /\ Covered \subseteq Lines /\ Statuses \subseteq {"unsure", "cover"}
    /\ PageSize \in Nat \ {0} /\ MaxVersion \in Nat
    /\ Lines \subseteq Nat /\ IsFiniteSet(Lines)
    /\ Origins \subseteq [Lines -> {"none", "inherited", "legacy"}]

VARIABLES
    links,              \* coverage_analysis_line_links; revision 0: no row
    records,            \* coverage_analysis_records, by id
    compat,             \* coverage_analyses, the compatibility projection
    rejections,         \* coverage_inheritance_rejections, by id
    decisions,          \* candidate lines of the INHERITED decisions of the import
    rows,               \* coverage_file_state, by file
    dataVersion, fileStateVersion, isCurrent,     \* coverage_project_state
    tx,                 \* per reviewer: the snapshot of the open transaction
    pager,              \* a client that pages through the pending lines
    undone              \* lines whose rejection was ever undone (history)

facts == <<links, records, compat, rejections, decisions>>
vars == <<links, records, compat, rejections, decisions, rows, dataVersion,
          fileStateVersion, isCurrent, tx, pager, undone>>

States == {"MANUAL_DRAFT", "MANUAL_CONFIRMED", "INHERITED_PENDING", "CARRIED_COVERED"}
Inherited == {"INHERITED_PENDING", "CARRIED_COVERED"}

(* The rows, and what a transaction or a client holds of them. *)
Link == [revision : Nat, active : BOOLEAN, record : Nat, state : States,
         source : Lines \cup {None}]
Record == [revision : Nat, status : {"unsure", "cover"}, stamp : Nat]
Analysis == [status : {"unsure", "cover"}, draft : BOOLEAN]
Rejection == [line : Lines, relationRevision : Nat, record : Nat,
              source : Lines \cup {None}, revision : Nat, active : BOOLEAN]
Summaries == [filled : Nat, draft : Nat, confirmed : Nat, pending : Nat, ordinary : Nat,
              inherited : Nat, manualDraft : Nat]
FileStates == [Files -> [version : Nat, summary : Summaries]]
Snapshot == [links : [Lines -> Link], records : Seq(Record),
             compat : [Lines -> Analysis \cup {None}], rejections : Seq(Rejection),
             rows : FileStates, version : Nat, stale : BOOLEAN]
Pager == [file : Files, version : Nat, last : Nat, seen : SUBSET Nat, more : BOOLEAN]

ASSUME ReviewNone ==
    /\ None \notin Lines /\ None \notin Link /\ None \notin Analysis
    /\ None \notin Snapshot /\ None \notin Pager

(* Rows, snapshots and cursors are well-formed. *)
ReviewTypeOK ==
    /\ links \in [Lines -> Link] /\ records \in Seq(Record)
    /\ compat \in [Lines -> Analysis \cup {None}] /\ rejections \in Seq(Rejection)
    /\ decisions \subseteq Lines /\ rows \in FileStates
    /\ dataVersion \in Nat \ {0} /\ fileStateVersion \in Nat /\ isCurrent \in BOOLEAN
    /\ tx \in [Reviewers -> Snapshot \cup {None}] /\ pager \in Pager \cup {None}
    /\ undone \subseteq Lines

NoLink == [revision |-> 0, active |-> FALSE, record |-> 0,
           state |-> "MANUAL_DRAFT", source |-> None]
-----------------------------------------------------------------------------
(* What the SQL of FileStateRepository derives from the facts f, a record  *)
(* of links, records and compat.                                           *)

Status(f, l) == IF f.links[l].active THEN f.records[f.links[l].record].status
                ELSE IF f.compat[l] = None THEN "none" ELSE f.compat[l].status

Draft(f, l) == IF f.links[l].active
               THEN f.links[l].state \in {"MANUAL_DRAFT", "INHERITED_PENDING"}
               ELSE f.compat[l] # None /\ f.compat[l].draft

Confirmed(f, l) == Status(f, l) = "cover" /\ ~Draft(f, l)

LinesOf(files) == {l \in Lines : FileOf[l] \in files}
UncoveredOf(files) == LinesOf(files) \ Covered
PendingOf(f, files) == {l \in UncoveredOf(files) : ~Confirmed(f, l)}

OrdinaryPending(f, files) ==
    {l \in UncoveredOf(files) : ~f.links[l].active /\ ~Confirmed(f, l)}
InheritedPending(f, files) ==
    {l \in UncoveredOf(files) : /\ f.links[l].active
                                /\ f.links[l].state = "INHERITED_PENDING"}
ManualDraftPending(f, files) ==
    {l \in UncoveredOf(files) : /\ f.links[l].active
                                /\ f.links[l].state # "INHERITED_PENDING"
                                /\ ~Confirmed(f, l)}

\* The totals of the grouped SELECT: of one file for a row of the projection,
\* of several for the sum of their rows and for scan_summary_from_facts.
Summary(f, files) ==
    [filled |-> Cardinality({l \in LinesOf(files) : Status(f, l) # "none"}),
     draft |-> Cardinality({l \in LinesOf(files) : Draft(f, l)}),
     confirmed |-> Cardinality({l \in UncoveredOf(files) : Confirmed(f, l)}),
     pending |-> Cardinality(PendingOf(f, files)),
     ordinary |-> Cardinality(OrdinaryPending(f, files)),
     inherited |-> Cardinality(InheritedPending(f, files)),
     manualDraft |-> Cardinality(ManualDraftPending(f, files))]

Committed == [links |-> links, records |-> records, compat |-> compat]
-----------------------------------------------------------------------------
(* Initial facts: the scan was published with inherited relations that     *)
(* share one cloned record, or it was migrated and its legacy rows were    *)
(* backfilled, each with a record of its own.                              *)

\* backfill_legacy: one record and one confirmed relation per legacy row.
BackfillLegacy(legacy, first) ==
    [l \in legacy |->
        [revision |-> 1, active |-> TRUE, state |-> "MANUAL_CONFIRMED", source |-> None,
         record |-> first + Cardinality({k \in legacy : k <= l})]]

InheritedLink(l) ==
    [revision |-> 1, active |-> TRUE, record |-> 1, source |-> l,
     state |-> IF l \in Covered THEN "CARRIED_COVERED" ELSE "INHERITED_PENDING"]

Init ==
    \E origin \in Origins :
        LET clones == {l \in Lines : origin[l] = "inherited"}
            legacy == {l \in Lines : origin[l] = "legacy"}
            migrated == BackfillLegacy(legacy, 1)
            start == [links |-> [l \in Lines |->
                                    IF l \in clones THEN InheritedLink(l)
                                    ELSE IF l \in legacy THEN migrated[l] ELSE NoLink],
                      records |-> [k \in 1..(1 + Cardinality(legacy)) |->
                                    [revision |-> 1, status |-> "cover", stamp |-> 0]],
                      compat |-> [l \in Lines |-> IF l \in legacy
                                    THEN [status |-> "cover", draft |-> FALSE] ELSE None]]
        IN  /\ links = start.links /\ records = start.records /\ compat = start.compat
            /\ rejections = <<>> /\ decisions = clones
            /\ rows = [f \in Files |-> [version |-> 1, summary |-> Summary(start, {f})]]
            /\ dataVersion = 1 /\ fileStateVersion = 1 /\ isCurrent = TRUE
            /\ tx = [r \in Reviewers |-> None]
            /\ pager = None
            /\ undone = {}
-----------------------------------------------------------------------------
(* Transactions.                                                           *)

Begin(r) ==
    /\ tx[r] = None
    /\ dataVersion < MaxVersion
    /\ tx' = [tx EXCEPT ![r] = [links |-> links, records |-> records,
                                compat |-> compat, rejections |-> rejections,
                                rows |-> rows, version |-> dataVersion,
                                stale |-> FALSE]]
    /\ UNCHANGED <<facts, rows, dataVersion, fileStateVersion, isCurrent, pager, undone>>

\* A refused request, an error or a crash: the transaction is rolled back.
Abort(r) ==
    /\ tx[r] # None
    /\ tx' = [tx EXCEPT ![r] = None]
    /\ UNCHANGED <<facts, rows, dataVersion, fileStateVersion, isCurrent, pager, undone>>

Open(r) == tx[r] # None /\ ~tx[r].stale

\* What the plain SELECTs of r's transaction see once it has written "new"
\* for the lines "named": its own rows, and the snapshot for the others.
OwnView(r, new, named) ==
    LET written == {k \in DOMAIN new.records :
                        k \in DOMAIN records => new.records[k] # records[k]}
    IN  [links |-> [l \in Lines |-> IF l \in named THEN new.links[l] ELSE tx[r].links[l]],
         compat |-> [l \in Lines |-> IF l \in named THEN new.compat[l] ELSE tx[r].compat[l]],
         records |-> [k \in written \cup DOMAIN tx[r].records |->
                         IF k \in written THEN new.records[k] ELSE tx[r].records[k]]]

\* file_state_completeness: the rows, as the transaction reads them, exist for
\* every file and carry the version the delta starts from.
Completeness(r, version) == \A f \in Files : tx[r].rows[f].version = version

\* The delta is usable when the projection was ready and every row carries
\* the version before this one; otherwise the whole scan is rebuilt.
Incremental(r) ==
    /\ fileStateVersion = dataVersion
    /\ Completeness(r, dataVersion)

\* The pending lines of a row split into three kinds.
PendingConserved(row) ==
    row.pending = row.ordinary + row.inherited + row.manualDraft

\* validate_rebuilt: pending lines are conserved in every rebuilt row, and the
\* sum of the rebuilt rows, which were derived from the
\* committed facts, is the sum of the facts as the transaction reads them.
ReadyGate(rebuilt, new, view) ==
    /\ \A f \in rebuilt : PendingConserved(Summary(new, {f}))
    /\ Summary(new, rebuilt) = Summary(view, rebuilt)

\* The derived row of one file: its identity, its totals, its version.
RebuildFile(new, f, version) == [version |-> version, summary |-> Summary(new, {f})]

RebuildScan(r, new, named, rebuilt, version) ==
    /\ ReadyGate(rebuilt, new, OwnView(r, new, named))
    /\ rows' = [f \in Files |-> IF f \in rebuilt THEN RebuildFile(new, f, version) ELSE rows[f]]
    /\ fileStateVersion' = version

FilesForFirst(named) == {FileOf[CHOOSE l \in named : \A k \in named : l <= k]}
\* The files a mutation reports as affected.
FilesForLines(named) == {FileOf[l] : l \in named}

\* The tail of every mutation: advance, rebuild, validate, mark ready, commit.
Publish(r, new, named) ==
    /\ dataVersion < MaxVersion
    /\ dataVersion' = dataVersion + 1
    /\ RebuildScan(r, new, named,
                   IF Incremental(r) THEN FilesForLines(named) ELSE Files,
                   dataVersion + 1)
    /\ links' = new.links /\ records' = new.records /\ compat' = new.compat
    /\ tx' = [tx EXCEPT ![r] = None]
    /\ UNCHANGED <<decisions, isCurrent, pager>>

\* Every write of a relation compares the revision the transaction read.
RelationUnchanged(r, l) == links[l].revision = tx[r].links[l].revision
-----------------------------------------------------------------------------
(* AnalysisService.save and InheritanceReviewService.edit_confirm.         *)

ReviewState(status, draft) ==
    IF status = "cover" /\ ~draft THEN "MANUAL_CONFIRMED" ELSE "MANUAL_DRAFT"

InPlaceShared(r, record, selected) ==
    record # 0 /\ \A l \in selected : /\ tx[r].links[l].active
                                      /\ tx[r].links[l].record = record
\* The requested record is edited in place only if its active lines, as the
\* transaction reads them, are exactly the selected ones.
InPlace(r, record, selected) ==
    record # 0 /\ selected = {l \in Lines : /\ tx[r].links[l].active
                                            /\ tx[r].links[l].record = record}

CloseRejections(selected) ==
    [k \in DOMAIN rejections |->
        IF rejections[k].line \in selected /\ rejections[k].active
        THEN [rejections[k] EXCEPT !.active = FALSE, !.revision = @ + 1]
        ELSE rejections[k]]

\* A new record is a new row; an edited one moves its revision.
CreateRecord(content) == Append(records, content)
UpdateRecord(record, content) ==
    [records EXCEPT ![record] = [content EXCEPT !.revision = records[record].revision + 1]]

\* create_links_many: upsert, every relation moves its revision and forgets
\* where it was inherited from.
LinkLines(selected, target, state) ==
    [l \in Lines |-> IF l \in selected
                     THEN [revision |-> links[l].revision + 1, active |-> TRUE,
                           record |-> target, state |-> state, source |-> None]
                     ELSE links[l]]

\* The compatibility rows of the saved lines follow the domain.
SaveMany(selected, status, draft) ==
    [l \in Lines |-> IF l \in selected THEN [status |-> status, draft |-> draft] ELSE compat[l]]

SavedFacts(selected, record, inPlace, status, draft) ==
    LET content == [revision |-> 1, status |-> status, stamp |-> dataVersion]
    IN  [links |-> LinkLines(selected, IF inPlace THEN record ELSE Len(records) + 1,
                             ReviewState(status, draft)),
         records |-> IF inPlace THEN UpdateRecord(record, content)
                     ELSE CreateRecord(content),
         compat |-> SaveMany(selected, status, draft)]

Save(r, selected, record, status, draft) ==
    /\ Open(r)
    /\ isCurrent
    /\ selected # {}
    /\ \A l \in selected : RelationUnchanged(r, l)
    /\ InPlace(r, record, selected) =>
            records[record].revision = tx[r].records[record].revision
    /\ Publish(r, SavedFacts(selected, record, InPlace(r, record, selected),
                             status, draft), selected)
    /\ rejections' = CloseRejections(selected)
    /\ UNCHANGED undone
-----------------------------------------------------------------------------
(* InheritanceReviewService.confirm, reject and undo.                      *)

\* The relation as the transaction reads it: active, inherited, and written
\* only while its revision is the one that was read.
PendingRelation(r, l) ==
    /\ tx[r].links[l].active
    /\ tx[r].links[l].state \in Inherited
    /\ links[l].active
    /\ RelationUnchanged(r, l)

WithLinks(new) == [links |-> new, records |-> records, compat |-> compat]

ConfirmLinks(selected) ==
    [l \in Lines |-> IF l \in selected
                     THEN [links[l] EXCEPT !.state = "MANUAL_CONFIRMED", !.revision = @ + 1]
                     ELSE links[l]]

Confirm(r, selected) ==
    /\ Open(r)
    /\ isCurrent
    /\ selected # {}
    /\ \A l \in selected : PendingRelation(r, l)
    /\ Publish(r, WithLinks(ConfirmLinks(selected)), selected)
    /\ UNCHANGED <<rejections, undone>>

Reject(r, l) ==
    /\ Open(r)
    /\ isCurrent
    /\ PendingRelation(r, l)
    /\ rejections' = Append(rejections,
            [line |-> l, relationRevision |-> tx[r].links[l].revision,
             record |-> tx[r].links[l].record, source |-> tx[r].links[l].source,
             revision |-> 1, active |-> TRUE])
    /\ Publish(r, WithLinks([links EXCEPT ![l].active = FALSE, ![l].revision = @ + 1]), {l})
    /\ UNCHANGED undone

Undo(r, k) ==
    /\ Open(r)
    /\ isCurrent
    /\ k \in DOMAIN tx[r].rejections
    /\ tx[r].rejections[k].active
    /\ rejections[k].active
    /\ rejections[k].revision = tx[r].rejections[k].revision
    /\ LET l == rejections[k].line
       IN  /\ ~links[l].active
           /\ RelationUnchanged(r, l)
           /\ rejections' = [rejections EXCEPT ![k].active = FALSE, ![k].revision = @ + 1]
           /\ Publish(r, WithLinks([links EXCEPT ![l].active = TRUE,
                                                 ![l].state = "INHERITED_PENDING",
                                                 ![l].revision = @ + 1]), {l})
           /\ undone' = undone \cup {l}
-----------------------------------------------------------------------------
(* ProgressService.rebuild, in a transaction of its own.                   *)

Rebuild(r) ==
    /\ Open(r)
    /\ isCurrent
    /\ tx[r].version = dataVersion
    /\ RebuildScan(r, Committed, {}, Files, dataVersion)
    /\ tx' = [tx EXCEPT ![r] = None]
    /\ UNCHANGED <<facts, dataVersion, isCurrent, pager, undone>>

\* The rebuild fails, on its gate or on a database error, and is rolled back;
\* it goes on to invalidate in a second transaction, or loses that (Abort).
RebuildFails(r) ==
    /\ Open(r)
    /\ tx' = [tx EXCEPT ![r].stale = TRUE]
    /\ UNCHANGED <<facts, rows, dataVersion, fileStateVersion, isCurrent, pager, undone>>

Invalidate(r) ==
    /\ tx[r] # None
    /\ tx[r].stale
    /\ fileStateVersion' = 0
    /\ tx' = [tx EXCEPT ![r] = None]
    /\ UNCHANGED <<facts, rows, dataVersion, isCurrent, pager, undone>>

\* A publication moves CURRENT to another scan (ScanImport has the details).
Supersede ==
    /\ isCurrent
    /\ dataVersion < MaxVersion
    /\ isCurrent' = FALSE
    /\ dataVersion' = dataVersion + 1
    /\ fileStateVersion' = dataVersion + 1
    /\ UNCHANGED <<facts, rows, tx, pager, undone>>
-----------------------------------------------------------------------------
(* Readers.  A page is read in one snapshot; its cursor is bound to the    *)
(* data version.                                                           *)

CursorIsOf(version) == pager.version = version
CursorTrusted == TRUE
CursorFresh == CursorIsOf(dataVersion)

\* The lines of a keyset page after line number "after".
PageAfter(file, after) ==
    LET pending == {NumberOf[l] : l \in PendingOf(Committed, {file})}
        rest == {n \in pending : n > after}
    IN  {n \in rest : Cardinality({m \in rest : m <= n}) <= PageSize}

Serve(file, after, seen) ==
    LET page == PageAfter(file, after)
        last == IF page = {} THEN after ELSE Max(page)
    IN  pager' = [file |-> file, version |-> dataVersion, last |-> last,
                  seen |-> seen \cup page, more |-> PageAfter(file, last) # {}]

FirstPage(file) ==
    /\ pager # None => ~CursorFresh
    /\ Serve(file, 0, {})
    /\ UNCHANGED <<facts, rows, dataVersion, fileStateVersion, isCurrent, tx, undone>>

NextPage ==
    /\ pager # None
    /\ pager.more
    /\ CursorFresh
    /\ Serve(pager.file, pager.last, pager.seen)
    /\ UNCHANGED <<facts, rows, dataVersion, fileStateVersion, isCurrent, tx, undone>>
-----------------------------------------------------------------------------
\* A requested record that is not edited in place has no effect: 0 stands for it.
SaveSome(r) ==
    \E selected \in Selections, status \in Statuses, draft \in BOOLEAN :
        \E record \in {0} \cup DOMAIN records :
            /\ record # 0 => Open(r) /\ InPlace(r, record, selected)
            /\ Save(r, selected, record, status, draft)
ConfirmSome(r) == \E selected \in Selections : Confirm(r, selected)
RejectSome(r) == \E l \in Lines : Reject(r, l)
UndoSome(r) == \E k \in DOMAIN rejections : Undo(r, k)

Next ==
    \/ \E r \in Reviewers :
        \/ Begin(r)
        \/ Abort(r)
        \/ SaveSome(r)
        \/ ConfirmSome(r)
        \/ RejectSome(r)
        \/ UndoSome(r)
        \/ Rebuild(r)
        \/ RebuildFails(r)
        \/ Invalidate(r)
    \/ Supersede
    \/ \E f \in PagedFiles : FirstPage(f)
    \/ NextPage

Spec == Init /\ [][Next]_vars
-----------------------------------------------------------------------------
(* The code detail overlay: domain rows when the file has any, otherwise   *)
(* the compatibility rows.                                                 *)

Rejected(l) == \E k \in DOMAIN rejections : rejections[k].line = l /\ rejections[k].active

DomainRows(file) == {l \in LinesOf({file}) : links[l].active \/ Rejected(l)}

OverlayConfirmed(file, l) ==
    IF DomainRows(file) = {}
    THEN compat[l] # None /\ compat[l].status = "cover" /\ ~compat[l].draft
    ELSE /\ l \in DomainRows(file)
         /\ links[l].active \/ ~Rejected(l)
         /\ records[links[l].record].status = "cover"
         /\ links[l].state \notin {"MANUAL_DRAFT", "INHERITED_PENDING"}

LayoutPending(file) == {l \in UncoveredOf({file}) : ~OverlayConfirmed(file, l)}

\* The detail page: a rejection hides the relation, then the relation, then
\* the compatibility row.
DetailConfirmed(l) ==
    /\ ~Rejected(l)
    /\ IF links[l].active
       THEN /\ records[links[l].record].status = "cover"
            /\ links[l].state \notin {"MANUAL_DRAFT", "INHERITED_PENDING"}
       ELSE compat[l] # None /\ compat[l].status = "cover" /\ ~compat[l].draft

\* The sum of the derived rows (scan_aggregate).
ScanAggregate ==
    [x \in DOMAIN Summary(Committed, {}) |->
        MapThenSumSet(LAMBDA f : rows[f].summary[x], Files)]

\* The online gate of the progress pages: the marker, the versions of the rows,
\* and the totals again.
DerivedGate ==
    /\ fileStateVersion = dataVersion
    /\ \A f \in Files : rows[f].version <= dataVersion
    /\ ScanAggregate = Summary(Committed, Files)

\* ProgressService.summary: the sum of the derived rows behind the gate, or of
\* the facts.
ProgressSummary(derived) == IF derived THEN ScanAggregate ELSE Summary(Committed, Files)

\* file_page: the totals of a file from its derived row or from the facts.
FileTotals(derived, f) == IF derived THEN rows[f].summary ELSE Summary(Committed, {f})

FilesPage(derived) == [f \in Files |-> FileTotals(derived, f)]

\* pending_by_file: the files whose totals, from either source, show pending lines.
Unanalyzed(totals) == {f \in Files : totals[f].pending > 0}

\* pending_page: the references come from the facts, their total from the
\* summary.
PendingPage(summary) == [rows |-> PendingOf(Committed, Files), total |-> summary.pending]

\* The reviewer's queue: decided INHERITED, active and still pending.
InheritanceQueue ==
    {l \in decisions : links[l].active /\ links[l].state = "INHERITED_PENDING"}

\* inheritance_relation: the active relation of a line decided INHERITED.
InheritanceRelation(l) == IF l \in decisions /\ links[l].active THEN links[l] ELSE None

\* AnalysisDomainService.audit_consistency on this scan: the records of the
\* relations exist, sources are complete, and an active rejection is the
\* only one of its line and names the relation as it was rejected.
AuditConsistency ==
    /\ \A l \in Lines : links[l].revision > 0 =>
        /\ links[l].record \in DOMAIN records
        /\ links[l].state \in States
        /\ links[l].source # None => links[l].source \in decisions
    /\ \A k \in DOMAIN rejections : rejections[k].active =>
        LET q == links[rejections[k].line]
        IN  /\ ~q.active
            /\ q.revision = rejections[k].relationRevision + 1
            /\ q.record = rejections[k].record
            /\ q.source = rejections[k].source
    /\ \A j, k \in DOMAIN rejections :
        rejections[j].active /\ rejections[k].active /\ j # k =>
            rejections[j].line # rejections[k].line
-----------------------------------------------------------------------------
(* While the project state says the projection is ready, every row of      *)
(* coverage_file_state is what the committed facts give: no interleaving   *)
(* of stale snapshots, delta rebuilds, failed rebuilds and rollbacks marks *)
(* a wrong row ready (FileStateService).                                   *)
(* Then every progress page answers the same whichever source it is read  *)
(* from, and its inherited total counts the uncovered lines of the         *)
(* reviewer's queue.  (A covered line comes into the queue when its        *)
(* rejection is undone.)                                                   *)
ProjectionIsExact ==
    isCurrent =>
        \A derived \in {DerivedGate} :
            /\ fileStateVersion = dataVersion => FilesPage(TRUE) = FilesPage(FALSE)
            /\ \A totals \in {FilesPage(derived)} :
                /\ totals = FilesPage(FALSE)
                /\ Unanalyzed(totals) = {f \in Files : PendingOf(Committed, {f}) # {}}
            /\ \A summary \in {ProgressSummary(derived)} :
                /\ \A page \in {PendingPage(summary)} : page.total = Cardinality(page.rows)
                /\ summary.inherited = Cardinality(InheritanceQueue \ Covered)

(* The audit of the domain passes, and its converse holds: an inactive     *)
(* relation has an active rejection, and a line decided INHERITED is in    *)
(* exactly one place, the reviewer's list of relations or the rejections.  *)
(* Saves, rejects and undos of two reviewers race.                         *)
AuditHolds ==
    /\ AuditConsistency
    /\ \A l \in Lines : links[l].revision > 0 /\ ~links[l].active => Rejected(l)
    /\ \A l \in decisions : Rejected(l) <=> InheritanceRelation(l) = None

(* The layout and the detail page call the same lines pending as the       *)
(* progress projection, although each derives them from other rows:        *)
(* domain rows or, if a file has none, the compatibility rows (overlay);   *)
(* rejections first (detail); relations first (FileStateRepository).       *)
ViewsAgree ==
    \A f \in Files :
        /\ LayoutPending(f) = PendingOf(Committed, {f})
        /\ LayoutPending(f) = {l \in UncoveredOf({f}) : ~DetailConfirmed(l)}

(* Together: the committed rows agree with each other, and so does what    *)
(* the progress pages, the layout and the detail page make of them.        *)
RowsAgree == ProjectionIsExact /\ AuditHolds /\ ViewsAgree

\* The regions of a file cut it without gap or overlap, no two expanded ones
\* are close enough to be merged, and for every pending line the range that
\* must be visible is expanded.
RegionsShow(regions, open, total, pending, valid) ==
    /\ regions[1].start = 1 /\ regions[Len(regions)].end = total
    /\ \A k \in DOMAIN regions : regions[k].start <= regions[k].end
    /\ \A k \in 1..(Len(regions) - 1) : regions[k].end + 1 = regions[k + 1].start
    /\ \A j, k \in open : j < k => regions[k].start - regions[j].end - 1 > MaxMergeGap
    /\ \A n \in pending :
        \E range \in {RawRange(valid, total, n)}, k \in open :
            /\ regions[k].start <= range[1] /\ range[1] <= n
            /\ n <= range[2] /\ range[2] <= regions[k].end

\* The sets of line numbers of a file for which its layout, with any of the
\* function sets, shows them.
ShownSets ==
    [f \in Files |->
        {pending \in SUBSET {NumberOf[l] : l \in LinesOf({f})} :
            \A functions \in FunctionSets :
                \A regions \in {BuildCodeRegions(TotalLines[f], pending, functions)} :
                    RegionsShow(regions, {k \in DOMAIN regions : regions[k].open},
                                TotalLines[f], pending,
                                SanitizeFunctionRanges(functions, TotalLines[f]))}]

(* The regions of the layout show every pending line (build_code_regions). *)
LayoutShowsPending == \A f \in Files : {NumberOf[l] : l \in LayoutPending(f)} \in ShownSets[f]

(* The pages a client has collected under one data version are the pending *)
(* lines up to the last one served, and all of them when no page is left,  *)
(* although reviewers commit between two pages (cursor bound to the data   *)
(* version in CoverageApplication.pending_lines).                          *)
PagesAreComplete ==
    pager # None /\ CursorIsOf(dataVersion) =>
        LET pending == {NumberOf[l] : l \in PendingOf(Committed, {pager.file})}
        IN  /\ pager.seen = {n \in pending : n <= pager.last}
            /\ ~pager.more => pager.seen = pending

Shown(l) == IF links[l].active THEN records[links[l].record] ELSE None

(* The revision of a relation stands for the content behind it: a step     *)
(* that leaves an active relation alone leaves what the line shows, so a   *)
(* reviewer who confirms the revision that was displayed confirms the      *)
(* content that was displayed.  "A shared record is immutable for a        *)
(* partial edit" (AnalysisService._save_domain_records).  A line whose     *)
(* rejection was undone is excepted: its record may have been taken over.  *)
RevisionCoversContent ==
    [][\A l \in Lines \ undone :
        links[l].active /\ links'[l] = links[l] => Shown(l)' = Shown(l)]_vars
=============================================================================
