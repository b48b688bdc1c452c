---------------------------- MODULE ReviewProofs ----------------------------
(***************************************************************************)
(* Proofs about the review of CURRENT.                                     *)
(***************************************************************************)
EXTENDS ReviewDomain, FiniteSetTheorems, FunctionTheorems, SequenceTheorems, WellFoundedInduction, TLAPS

(* A relation names a record that exists; an inactive one is inherited and *)
(* rejected; only a line that was decided INHERITED is inherited.          *)
RelationsInv ==
    /\ \A l \in Lines :
        /\ links[l].active => links[l].revision > 0
        /\ links[l].revision > 0 =>
            /\ links[l].record \in DOMAIN records
            /\ links[l].source # None => links[l].source \in decisions
            /\ links[l].state \in Inherited => l \in decisions
            /\ ~links[l].active => links[l].state \in Inherited /\ Rejected(l)
    /\ \A l \in decisions : links[l].revision > 0

(* An active rejection names the relation as it was rejected, and is the   *)
(* only one of its line.                                                   *)
RejectionsInv ==
    /\ \A k \in DOMAIN rejections : rejections[k].active =>
        /\ ~links[rejections[k].line].active
        /\ links[rejections[k].line].revision = rejections[k].relationRevision + 1
        /\ links[rejections[k].line].record = rejections[k].record
        /\ links[rejections[k].line].source = rejections[k].source
    /\ \A j, k \in DOMAIN rejections :
        rejections[j].active /\ rejections[k].active /\ j # k =>
            rejections[j].line # rejections[k].line

(* A compatibility row stands beside an active manual relation. *)
CompatInv == \A l \in Lines : compat[l] # None => links[l].active /\ links[l].state \notin Inherited

(* A snapshot is of the past: relations and records only move on, and it   *)
(* is the present while the data version has not moved.                    *)
SnapshotInv(t) ==
    /\ t.version <= dataVersion
    /\ \A f \in Files : t.rows[f].version <= t.version
    /\ \A l \in Lines :
        /\ t.links[l].revision <= links[l].revision
        /\ t.links[l].revision = links[l].revision => t.links[l] = links[l]
        /\ t.links[l].active => t.links[l].record \in DOMAIN t.records
    /\ t.version = dataVersion => t.links = links /\ t.records = records /\ t.compat = compat
    /\ \A k \in DOMAIN t.records :
        k \in DOMAIN records /\ t.records[k].revision <= records[k].revision
    /\ \A l \in Lines \ undone :
        \A k \in DOMAIN t.records :
            /\ links[l].active /\ links[l].record = k
            /\ records[k].revision = t.records[k].revision
            => t.links[l].active /\ t.links[l].record = k

(* A projection marked ready holds what the committed facts give. *)
ProjectionInv ==
    /\ fileStateVersion <= dataVersion
    /\ \A f \in Files : rows[f].version <= dataVersion
    /\ isCurrent /\ fileStateVersion = dataVersion =>
        \A f \in Files : rows[f].summary = Summary(Committed, {f})

PagerInv == pager # None => pager.version <= dataVersion

FactsInv == ReviewTypeOK /\ RelationsInv /\ RejectionsInv /\ CompatInv

ReviewInv ==
    /\ FactsInv
    /\ \A r \in Reviewers : tx[r] # None => SnapshotInv(tx[r])
    /\ ProjectionInv
    /\ PagerInv /\ PagesAreComplete

(* A mutation advances the data version.  It moves the revision of every   *)
(* relation it writes, and no relation comes to an old record whose        *)
(* revision stays, unless a rejection is undone.                           *)
FactsMove ==
    /\ dataVersion' = dataVersion + 1
    /\ undone \subseteq undone'
    /\ \A l \in Lines : links'[l] = links[l] \/ links'[l].revision = links[l].revision + 1
    /\ \A k \in DOMAIN records :
        k \in DOMAIN records' /\ records[k].revision <= records'[k].revision
    /\ \A l \in Lines \ undone' :
        \A k \in DOMAIN records :
            /\ links'[l].active /\ links'[l].record = k
            /\ records'[k].revision = records[k].revision
            => links[l].active /\ links[l].record = k

(* Every other step leaves the facts alone. *)
FactsKept ==
    /\ UNCHANGED <<links, records, compat, rejections, decisions, undone>>
    /\ dataVersion' \in {dataVersion, dataVersion + 1}
-----------------------------------------------------------------------------
(* Totals. *)

LEMMA LinesAreFinite ==
    ASSUME NEW S \in SUBSET Lines
    PROVE  IsFiniteSet(S) /\ Cardinality(S) \in Nat
<1>1. IsFiniteSet(Lines)
    BY ReviewConstants
<1>2. IsFiniteSet(S)
    BY <1>1, FS_Subset
<1> QED
    BY <1>2, FS_CardinalityType

LEMMA SummaryType ==
    ASSUME NEW f, NEW files
    PROVE  Summary(f, files) \in Summaries
<1>1. /\ Cardinality({l \in LinesOf(files) : Status(f, l) # "none"}) \in Nat
      /\ Cardinality({l \in LinesOf(files) : Draft(f, l)}) \in Nat
      /\ Cardinality({l \in UncoveredOf(files) : Confirmed(f, l)}) \in Nat
    BY LinesAreFinite DEF LinesOf, UncoveredOf
<1>2. /\ Cardinality(PendingOf(f, files)) \in Nat
      /\ Cardinality(OrdinaryPending(f, files)) \in Nat
      /\ Cardinality(InheritedPending(f, files)) \in Nat
      /\ Cardinality(ManualDraftPending(f, files)) \in Nat
    BY LinesAreFinite
       DEF LinesOf, UncoveredOf, PendingOf, OrdinaryPending, InheritedPending, ManualDraftPending
<1> QED
    BY <1>1, <1>2 DEF Summary, Summaries

(* The totals of some files depend on their lines alone. *)
LEMMA SummarySame ==
    ASSUME NEW f, NEW g, NEW files,
           \A l \in LinesOf(files) :
                /\ f.links[l] = g.links[l] /\ f.compat[l] = g.compat[l]
                /\ Status(f, l) = Status(g, l)
    PROVE  Summary(f, files) = Summary(g, files)
<1>1. \A l \in LinesOf(files) : Draft(f, l) <=> Draft(g, l)
    BY DEF Draft
<1>2. \A l \in LinesOf(files) : Confirmed(f, l) <=> Confirmed(g, l)
    BY <1>1 DEF Confirmed
<1>3. UncoveredOf(files) \subseteq LinesOf(files)
    BY DEF UncoveredOf
<1>4. {l \in LinesOf(files) : Status(f, l) # "none"} = {l \in LinesOf(files) : Status(g, l) # "none"}
    OBVIOUS
<1>5. {l \in LinesOf(files) : Draft(f, l)} = {l \in LinesOf(files) : Draft(g, l)}
    BY <1>1
<1>6. {l \in UncoveredOf(files) : Confirmed(f, l)} = {l \in UncoveredOf(files) : Confirmed(g, l)}
    BY <1>2, <1>3
<1>7. PendingOf(f, files) = PendingOf(g, files)
    BY <1>2, <1>3 DEF PendingOf
<1>8. OrdinaryPending(f, files) = OrdinaryPending(g, files)
    BY <1>2, <1>3 DEF OrdinaryPending
<1>9. InheritedPending(f, files) = InheritedPending(g, files)
    BY <1>3 DEF InheritedPending
<1>10. ManualDraftPending(f, files) = ManualDraftPending(g, files)
    BY <1>2, <1>3 DEF ManualDraftPending
<1> QED
    BY <1>4, <1>5, <1>6, <1>7, <1>8, <1>9, <1>10 DEF Summary
-----------------------------------------------------------------------------
(* Snapshots. *)

LEMMA SnapshotMoves ==
    ASSUME ReviewTypeOK, ReviewTypeOK', NEW t \in Snapshot, SnapshotInv(t), FactsMove
    PROVE  SnapshotInv(t)'
<1> USE DEF Snapshot, FactsMove
<1>1. t.version <= dataVersion' /\ t.version # dataVersion'
    BY DEF SnapshotInv, ReviewTypeOK
<1>2. \A f \in Files : t.rows[f].version <= t.version
    BY DEF SnapshotInv
<1>3. ASSUME NEW l \in Lines
      PROVE  /\ t.links[l].revision <= links'[l].revision
             /\ t.links[l].revision = links'[l].revision => t.links[l] = links'[l]
             /\ t.links[l].active => t.links[l].record \in DOMAIN t.records
    <2>1. t.links[l] \in Link /\ links[l] \in Link /\ links'[l] \in Link
        BY DEF ReviewTypeOK
    <2>2. /\ t.links[l].revision <= links[l].revision
          /\ t.links[l].revision = links[l].revision => t.links[l] = links[l]
          /\ t.links[l].active => t.links[l].record \in DOMAIN t.records
        BY DEF SnapshotInv
    <2>3. t.links[l].revision \in Nat /\ links[l].revision \in Nat
        BY <2>1 DEF Link
    <2>4. CASE links'[l] = links[l]
        BY <2>2, <2>4
    <2>5. CASE links'[l].revision = links[l].revision + 1
        BY <2>2, <2>3, <2>5
    <2> QED
        BY <2>4, <2>5
<1>4. ASSUME NEW k \in DOMAIN t.records
      PROVE  k \in DOMAIN records' /\ t.records[k].revision <= records'[k].revision
    <2>1. k \in DOMAIN records /\ k \in DOMAIN records'
        BY DEF SnapshotInv
    <2>2. t.records[k] \in Record /\ records[k] \in Record /\ records'[k] \in Record
        BY <2>1, ElementOfSeq DEF ReviewTypeOK
    <2> QED
        BY <2>1, <2>2 DEF SnapshotInv, Record
<1>5. ASSUME NEW l \in Lines \ undone', NEW k \in DOMAIN t.records,
             links'[l].active, links'[l].record = k,
             records'[k].revision = t.records[k].revision
      PROVE  t.links[l].active /\ t.links[l].record = k
    <2>1. k \in DOMAIN records /\ k \in DOMAIN records' /\ l \in Lines \ undone
        BY DEF SnapshotInv
    <2>2. t.records[k] \in Record /\ records[k] \in Record /\ records'[k] \in Record
        BY <2>1, ElementOfSeq DEF ReviewTypeOK
    <2>3. /\ t.records[k].revision <= records[k].revision
          /\ records[k].revision <= records'[k].revision
        BY <2>1 DEF SnapshotInv
    <2>4. records[k].revision = t.records[k].revision /\ records'[k].revision = records[k].revision
        BY <1>5, <2>2, <2>3, SMTT(30) DEF Record
    <2>5. links[l].active /\ links[l].record = k
        BY <1>5, <2>1, <2>4
    <2> QED
        BY <2>1, <2>4, <2>5 DEF SnapshotInv
<1>6. \A l \in Lines \ undone' : \A k \in DOMAIN t.records :
        /\ links'[l].active /\ links'[l].record = k
        /\ records'[k].revision = t.records[k].revision
        => t.links[l].active /\ t.links[l].record = k
    BY <1>5
<1> HIDE DEF Snapshot, FactsMove
<1> QED
    BY <1>1, <1>2, <1>3, <1>4, <1>6 DEF SnapshotInv

LEMMA SnapshotStays ==
    ASSUME ReviewTypeOK, NEW t \in Snapshot, SnapshotInv(t), FactsKept
    PROVE  SnapshotInv(t)'
<1>1. t.version <= dataVersion' /\ (t.version = dataVersion' => t.version = dataVersion)
    BY DEF SnapshotInv, ReviewTypeOK, Snapshot, FactsKept
<1> QED
    BY <1>1 DEF SnapshotInv, FactsKept

(* The other transactions carry their snapshots over every step. *)
LEMMA OtherSnapshots ==
    ASSUME ReviewTypeOK, ReviewTypeOK', FactsMove \/ FactsKept,
           NEW q \in Reviewers, tx[q] # None => SnapshotInv(tx[q]), tx'[q] \in {tx[q], None}
    PROVE  (tx[q] # None => SnapshotInv(tx[q]))'
<1> SUFFICES ASSUME tx'[q] # None
             PROVE  SnapshotInv(tx[q])'
    OBVIOUS
<1>1. PICK t : t = tx[q]
    OBVIOUS
<1>2. t \in Snapshot /\ SnapshotInv(t) /\ tx'[q] = t
    BY <1>1 DEF ReviewTypeOK
<1>3. SnapshotInv(t)'
    BY <1>2, SnapshotMoves, SnapshotStays
<1> QED
    BY <1>2, <1>3 DEF SnapshotInv
-----------------------------------------------------------------------------
(* The tail of every mutation. *)

(* A delta is used only by a transaction whose snapshot is the present. *)
LEMMA IncrementalIsFresh ==
    ASSUME ReviewTypeOK, NEW r \in Reviewers, tx[r] \in Snapshot, SnapshotInv(tx[r]),
           Incremental(r), NEW l \in Lines
    PROVE  tx[r].links = links /\ tx[r].records = records
<1>1. FileOf[l] \in Files
    BY ReviewConstants
<1>2. tx[r].rows[FileOf[l]].version = dataVersion
    BY <1>1 DEF Incremental, Completeness
<1>3. tx[r].rows[FileOf[l]].version <= tx[r].version /\ tx[r].version <= dataVersion
    BY <1>1 DEF SnapshotInv
<1>4. tx[r].version \in Nat /\ dataVersion \in Nat
    BY DEF Snapshot, ReviewTypeOK
<1>5. tx[r].version = dataVersion
    BY <1>2, <1>3, <1>4
<1> QED
    BY <1>5 DEF SnapshotInv

(* Rows are exact after a mutation whose facts "new" differ, when a delta   *)
(* is used, from the committed ones in the lines it names only.            *)
LEMMA PublishRows ==
    ASSUME ReviewTypeOK, ProjectionInv, NEW r \in Reviewers,
           NEW new, NEW named \in SUBSET Lines, Publish(r, new, named),
           \A l \in Lines \ named : Incremental(r) =>
                /\ new.links[l] = links[l] /\ new.compat[l] = compat[l]
                /\ Status(new, l) = Status(Committed, l)
    PROVE  ProjectionInv' /\ rows' \in FileStates /\ fileStateVersion' = dataVersion + 1
<1> DEFINE rebuilt == IF Incremental(r) THEN FilesForLines(named) ELSE Files
<1>1. /\ dataVersion' = dataVersion + 1 /\ fileStateVersion' = dataVersion + 1
      /\ isCurrent' = isCurrent
      /\ links' = new.links /\ records' = new.records /\ compat' = new.compat
    BY DEF Publish, RebuildScan
<1>2. rows' = [f \in Files |-> IF f \in rebuilt
                               THEN [version |-> dataVersion + 1, summary |-> Summary(new, {f})]
                               ELSE rows[f]]
    BY DEF Publish, RebuildScan, RebuildFile
<1> HIDE DEF rebuilt
<1>3. dataVersion \in Nat
    BY DEF ReviewTypeOK
<1>4. ASSUME NEW f \in Files
      PROVE  /\ rows'[f] \in [version : Nat, summary : Summaries]
             /\ rows'[f].version <= dataVersion + 1
    <2>1. rows[f] \in [version : Nat, summary : Summaries] /\ rows[f].version <= dataVersion
        BY DEF ReviewTypeOK, FileStates, ProjectionInv
    <2>2. Summary(new, {f}) \in Summaries
        BY SummaryType
    <2>3. CASE f \in rebuilt
        BY <1>2, <1>3, <2>2, <2>3
    <2>4. CASE f \notin rebuilt
        BY <1>2, <1>3, <2>1, <2>4
    <2> QED
        BY <2>3, <2>4
<1>5. rows' \in FileStates
    BY <1>2, <1>4 DEF FileStates
<1>6. PICK h : h = Committed'
    OBVIOUS
<1>7. h.links = new.links /\ h.records = new.records /\ h.compat = new.compat
    BY <1>1, <1>6 DEF Committed
<1>8. ASSUME isCurrent, NEW f \in Files
      PROVE  rows'[f].summary = Summary(h, {f})
    <2>1. CASE f \in rebuilt
        <3>1. \A l \in LinesOf({f}) : Status(new, l) = Status(h, l)
            BY <1>7 DEF Status
        <3>2. Summary(new, {f}) = Summary(h, {f})
            BY <1>7, <3>1, SummarySame
        <3> QED
            BY <1>2, <2>1, <3>2
    <2>2. CASE f \notin rebuilt
        <3>1. Incremental(r) /\ f \notin FilesForLines(named)
            BY <2>2 DEF rebuilt
        <3>2. rows[f].summary = Summary(Committed, {f})
            BY <1>8, <3>1 DEF Incremental, ProjectionInv
        <3>3. PICK c : c = Committed
            OBVIOUS
        <3>4. c.links = links /\ c.compat = compat
            BY <3>3 DEF Committed
        <3>5. ASSUME NEW l \in LinesOf({f})
              PROVE  /\ c.links[l] = h.links[l] /\ c.compat[l] = h.compat[l]
                     /\ Status(c, l) = Status(h, l)
            <4>1. l \in Lines \ named
                BY <3>1 DEF LinesOf, FilesForLines
            <4>2. /\ new.links[l] = links[l] /\ new.compat[l] = compat[l]
                  /\ Status(new, l) = Status(c, l)
                BY <3>1, <3>3, <4>1
            <4>3. Status(new, l) = Status(h, l)
                BY <1>7 DEF Status
            <4> QED
                BY <1>7, <3>4, <4>2, <4>3
        <3>6. Summary(c, {f}) = Summary(h, {f})
            BY <3>5, SummarySame
        <3> QED
            BY <1>2, <2>2, <3>2, <3>3, <3>6
    <2> QED
        BY <2>1, <2>2
<1>9. (isCurrent /\ fileStateVersion = dataVersion =>
        \A f \in Files : rows[f].summary = Summary(Committed, {f}))'
    BY <1>1, <1>6, <1>8
<1>10. ProjectionInv'
    BY <1>1, <1>3, <1>4, <1>9 DEF ProjectionInv
<1> QED
    BY <1>1, <1>5, <1>10

LEMMA PublishTypes ==
    ASSUME ReviewTypeOK, NEW r \in Reviewers, tx[r] \in Snapshot,
           NEW new, NEW named, Publish(r, new, named), rows' \in FileStates,
           links' \in [Lines -> Link], records' \in Seq(Record),
           compat' \in [Lines -> Analysis \cup {None}], rejections' \in Seq(Rejection),
           undone' \in SUBSET Lines
    PROVE  /\ ReviewTypeOK'
           /\ \A q \in Reviewers : tx'[q] \in {tx[q], None}
<1>1. /\ dataVersion' = dataVersion + 1 /\ fileStateVersion' = dataVersion + 1
      /\ UNCHANGED <<decisions, isCurrent, pager>>
    BY DEF Publish, RebuildScan
<1>2. tx' = [tx EXCEPT ![r] = None]
    BY DEF Publish
<1>3. tx' \in [Reviewers -> Snapshot \cup {None}] /\ \A q \in Reviewers : tx'[q] \in {tx[q], None}
    BY <1>2 DEF ReviewTypeOK
<1> QED
    BY <1>1, <1>3 DEF ReviewTypeOK
-----------------------------------------------------------------------------
(* AnalysisService.save. *)

(* What a save writes: "target" is the record edited in place, or a new one. *)
LEMMA SaveWrites ==
    ASSUME ReviewTypeOK, NEW r \in Reviewers, NEW selected \in Selections,
           NEW record \in {0} \cup DOMAIN records, NEW status \in Statuses, NEW draft \in BOOLEAN,
           Save(r, selected, record, status, draft)
    PROVE  \E target \in Nat \ {0}, state \in {"MANUAL_CONFIRMED", "MANUAL_DRAFT"} :
              /\ links' = LinkLines(selected, target, state)
              /\ target \in DOMAIN records' /\ records' \in Seq(Record)
              /\ DOMAIN records \subseteq DOMAIN records'
              /\ \A k \in DOMAIN records \ {target} : records'[k] = records[k]
              /\ target \in DOMAIN records =>
                    /\ InPlace(r, record, selected) /\ target = record
                    /\ records'[target].revision = records[target].revision + 1
<1> DEFINE inPlace == InPlace(r, record, selected)
           content == [revision |-> 1, status |-> status, stamp |-> dataVersion]
           target == IF inPlace THEN record ELSE Len(records) + 1
           state == ReviewState(status, draft)
<1>1. /\ links' = LinkLines(selected, target, state)
      /\ records' = IF inPlace THEN UpdateRecord(record, content) ELSE CreateRecord(content)
    BY DEF Save, Publish, SavedFacts
<1>2. content \in Record /\ content.revision = 1
    BY ReviewConstants DEF ReviewTypeOK, Record
<1>3. records \in Seq(Record) /\ Len(records) \in Nat /\ DOMAIN records = 1..Len(records)
    BY DEF ReviewTypeOK
<1>4. state \in {"MANUAL_CONFIRMED", "MANUAL_DRAFT"}
    BY DEF ReviewState
<1>5. CASE inPlace
    <2>1. record \in DOMAIN records /\ target = record
        BY <1>5 DEF InPlace
    <2> DEFINE edited == [content EXCEPT !.revision = records[record].revision + 1]
    <2>2. records[record] \in Record
        BY <1>3, <2>1
    <2>3. edited \in Record /\ edited.revision = records[record].revision + 1
        BY <1>2, <2>2 DEF Record
    <2>4. records' = [records EXCEPT ![record] = edited]
        BY <1>1, <1>5 DEF UpdateRecord
    <2> HIDE DEF edited, content
    <2>5. records' \in Seq(Record) /\ DOMAIN records' = DOMAIN records /\ records'[record] = edited
        BY <1>3, <2>1, <2>3, <2>4
    <2>6. \A k \in DOMAIN records \ {target} : records'[k] = records[k]
        BY <1>3, <2>1, <2>4
    <2>7. target \in Nat \ {0}
        BY <1>3, <2>1
    <2> QED
        BY <1>1, <1>4, <1>5, <2>1, <2>3, <2>5, <2>6, <2>7
<1>6. CASE ~inPlace
    <2>1. target = Len(records) + 1
        BY <1>6
    <2>2. records' = Append(records, content)
        BY <1>1, <1>6 DEF CreateRecord
    <2> HIDE DEF content
    <2>3. /\ records' \in Seq(Record) /\ DOMAIN records' = 1..(Len(records) + 1)
          /\ \A k \in DOMAIN records : records'[k] = records[k]
        BY <1>2, <1>3, <2>2
    <2>4. target \in Nat \ {0} /\ target \in DOMAIN records' /\ target \notin DOMAIN records
        BY <1>3, <2>1, <2>3
    <2>5. DOMAIN records \subseteq DOMAIN records'
        BY <1>3, <2>3
    <2> QED
        BY <1>1, <1>4, <2>3, <2>4, <2>5
<1> QED
    BY <1>5, <1>6

LEMMA RejectionClosed ==
    ASSUME NEW q \in Rejection
    PROVE  /\ [q EXCEPT !.active = FALSE, !.revision = @ + 1] \in Rejection
           /\ ~[q EXCEPT !.active = FALSE, !.revision = @ + 1].active
<1>1. q.revision \in Nat /\ q.revision + 1 \in Nat
    BY DEF Rejection
<1> QED
    BY <1>1 DEF Rejection

LEMMA CloseRejectionsType ==
    ASSUME ReviewTypeOK, NEW selected
    PROVE  /\ CloseRejections(selected) \in Seq(Rejection)
           /\ DOMAIN CloseRejections(selected) = DOMAIN rejections
           /\ \A k \in DOMAIN rejections :
                /\ CloseRejections(selected)[k].active =>
                        /\ CloseRejections(selected)[k] = rejections[k]
                        /\ rejections[k].line \notin selected
                /\ rejections[k].line \notin selected => CloseRejections(selected)[k] = rejections[k]
<1>1. rejections \in Seq(Rejection) /\ DOMAIN rejections = 1..Len(rejections) /\ Len(rejections) \in Nat
    BY DEF ReviewTypeOK
<1>2. ASSUME NEW k \in DOMAIN rejections
      PROVE  /\ CloseRejections(selected)[k] \in Rejection
             /\ CloseRejections(selected)[k].active =>
                        /\ CloseRejections(selected)[k] = rejections[k]
                        /\ rejections[k].line \notin selected
             /\ rejections[k].line \notin selected => CloseRejections(selected)[k] = rejections[k]
    <2>1. rejections[k] \in Rejection
        BY <1>1
    <2>2. CASE rejections[k].line \in selected /\ rejections[k].active
        <3>1. CloseRejections(selected)[k] =
                [rejections[k] EXCEPT !.active = FALSE, !.revision = @ + 1]
            BY <2>2 DEF CloseRejections
        <3>2. CloseRejections(selected)[k] \in Rejection /\ ~CloseRejections(selected)[k].active
            BY <2>1, <3>1, RejectionClosed
        <3> QED
            BY <2>2, <3>2
    <2>3. CASE ~(rejections[k].line \in selected /\ rejections[k].active)
        <3>1. CloseRejections(selected)[k] = rejections[k]
            BY <2>3 DEF CloseRejections
        <3> QED
            BY <2>1, <2>3, <3>1
    <2> QED
        BY <2>2, <2>3
<1>3. CloseRejections(selected) \in [1..Len(rejections) -> Rejection]
    BY <1>1, <1>2 DEF CloseRejections
<1>4. CloseRejections(selected) \in Seq(Rejection)
    BY <1>1, <1>3
<1> QED
    BY <1>1, <1>2, <1>3, <1>4

(* What every mutation ensures. *)
Mutated ==
    /\ FactsInv' /\ ProjectionInv' /\ FactsMove
    /\ \A q \in Reviewers : tx'[q] \in {tx[q], None}
    /\ pager' = pager /\ dataVersion' = dataVersion + 1

LEMMA SaveMutates ==
    ASSUME FactsInv, ProjectionInv, NEW r \in Reviewers, tx[r] # None, SnapshotInv(tx[r]),
           NEW selected \in Selections, NEW record \in {0} \cup DOMAIN records,
           NEW status \in Statuses, NEW draft \in BOOLEAN,
           Save(r, selected, record, status, draft)
    PROVE  Mutated
<1>1. /\ ReviewTypeOK /\ RelationsInv /\ RejectionsInv /\ CompatInv
      /\ tx[r] \in Snapshot /\ selected \in SUBSET Lines
    BY ReviewConstants DEF FactsInv, ReviewTypeOK
<1>2. PICK target \in Nat \ {0}, state \in {"MANUAL_CONFIRMED", "MANUAL_DRAFT"} :
            /\ links' = LinkLines(selected, target, state)
            /\ target \in DOMAIN records' /\ records' \in Seq(Record)
            /\ DOMAIN records \subseteq DOMAIN records'
            /\ \A k \in DOMAIN records \ {target} : records'[k] = records[k]
            /\ target \in DOMAIN records =>
                    /\ InPlace(r, record, selected) /\ target = record
                    /\ records'[target].revision = records[target].revision + 1
    BY <1>1, SaveWrites
<1>3. PICK new : /\ new = SavedFacts(selected, record, InPlace(r, record, selected), status, draft)
                 /\ Publish(r, new, selected)
    BY DEF Save
<1>4. /\ compat' = SaveMany(selected, status, draft) /\ rejections' = CloseRejections(selected)
      /\ decisions' = decisions /\ undone' = undone /\ pager' = pager
      /\ dataVersion' = dataVersion + 1
      /\ new.links = links' /\ new.records = records' /\ new.compat = compat'
    BY <1>3 DEF Save, Publish, SavedFacts
<1>5. ASSUME NEW l \in Lines
      PROVE  /\ links[l] \in Link
             /\ links[l].revision \in Nat
             /\ links'[l] \in Link
             /\ l \in selected =>
                    /\ links'[l].revision = links[l].revision + 1 /\ links'[l].active
                    /\ links'[l].record = target /\ links'[l].state = state
                    /\ links'[l].source = None
                    /\ compat'[l] \in Analysis
             /\ l \notin selected => links'[l] = links[l] /\ compat'[l] = compat[l]
    <2>1. links[l] \in Link /\ links[l].revision \in Nat
        BY <1>1 DEF ReviewTypeOK, Link
    <2>2. CASE l \in selected
        <3>1. links'[l] = [revision |-> links[l].revision + 1, active |-> TRUE,
                           record |-> target, state |-> state, source |-> None]
            BY <1>2, <2>2 DEF LinkLines
        <3>2. compat'[l] = [status |-> status, draft |-> draft]
            BY <1>4, <2>2 DEF SaveMany
        <3>3. compat'[l] \in Analysis
            BY <3>2, ReviewConstants DEF Analysis
        <3>4. links'[l] \in Link
            BY <2>1, <3>1 DEF Link, States
        <3> QED
            BY <2>1, <2>2, <3>1, <3>3, <3>4
    <2>3. CASE l \notin selected
        <3>1. links'[l] = links[l] /\ compat'[l] = compat[l]
            BY <1>2, <1>4, <2>3 DEF LinkLines, SaveMany
        <3> QED
            BY <2>1, <2>3, <3>1
    <2> QED
        BY <2>2, <2>3
<1>6. links' \in [Lines -> Link] /\ compat' \in [Lines -> Analysis \cup {None}]
    <2>1. DOMAIN links' = Lines /\ links' = [l \in Lines |-> links'[l]]
        BY <1>2 DEF LinkLines
    <2>2. compat' = [l \in Lines |-> compat'[l]]
        BY <1>4 DEF SaveMany
    <2>3. \A l \in Lines : compat'[l] \in Analysis \cup {None}
        BY <1>1, <1>5 DEF ReviewTypeOK
    <2> QED
        BY <1>5, <2>1, <2>2, <2>3
<1>7. rejections' \in Seq(Rejection)
    BY <1>1, <1>4, CloseRejectionsType
<1>8. ASSUME NEW l \in Lines \ selected, Incremental(r)
      PROVE  Status(new, l) = Status(Committed, l)
    <2>1. /\ new.links[l] = links[l] /\ new.compat[l] = compat[l] /\ new.records = records'
        BY <1>4, <1>5
    <2>2. CASE links[l].active
        <3>1. links[l].record \in DOMAIN records
            BY <1>1, <1>5, <2>2 DEF RelationsInv
        <3>2. links[l].record # target
            <4>1. SUFFICES ASSUME links[l].record = target
                           PROVE  FALSE
                OBVIOUS
            <4>2. InPlace(r, record, selected) /\ target = record
                BY <1>2, <3>1, <4>1
            <4>3. tx[r].links = links
                BY <1>1, <1>8, IncrementalIsFresh
            <4>4. l \in selected
                BY <2>2, <4>1, <4>2, <4>3 DEF InPlace
            <4> QED
                BY <4>4
        <3>3. records'[links[l].record] = records[links[l].record]
            BY <1>2, <3>1, <3>2
        <3> QED
            BY <2>1, <2>2, <3>3 DEF Status, Committed
    <2>3. CASE ~links[l].active
        BY <2>1, <2>3 DEF Status, Committed
    <2> QED
        BY <2>2, <2>3
<1>9. ProjectionInv' /\ rows' \in FileStates
    <2>1. \A l \in Lines \ selected : Incremental(r) =>
                /\ new.links[l] = links[l] /\ new.compat[l] = compat[l]
                /\ Status(new, l) = Status(Committed, l)
        BY <1>4, <1>5, <1>8
    <2> QED
        BY <1>1, <1>3, <2>1, PublishRows
<1>10. ReviewTypeOK' /\ \A q \in Reviewers : tx'[q] \in {tx[q], None}
    <2>1. undone' \in SUBSET Lines
        BY <1>1, <1>4 DEF ReviewTypeOK
    <2> QED
        BY <1>1, <1>2, <1>3, <1>6, <1>7, <1>9, <2>1, PublishTypes
<1>11. RelationsInv'
    <2>1. ASSUME NEW l \in Lines
          PROVE  /\ links'[l].active => links'[l].revision > 0
                 /\ links'[l].revision > 0 =>
                    /\ links'[l].record \in DOMAIN records'
                    /\ links'[l].source # None => links'[l].source \in decisions'
                    /\ links'[l].state \in Inherited => l \in decisions'
                    /\ ~links'[l].active => links'[l].state \in Inherited /\ Rejected(l)'
        <3>1. CASE l \in selected
            <4>1. state \notin Inherited
                BY <1>2 DEF Inherited
            <4>2. links[l].revision + 1 > 0
                BY <1>5
            <4> QED
                BY <1>2, <1>5, <3>1, <4>1, <4>2
        <3>2. CASE l \notin selected
            <4>1. ASSUME Rejected(l)
                  PROVE  Rejected(l)'
                <5>1. PICK k \in DOMAIN rejections : rejections[k].line = l /\ rejections[k].active
                    BY <4>1 DEF Rejected
                <5>2. k \in DOMAIN rejections' /\ rejections'[k] = rejections[k]
                    BY <1>1, <1>4, <3>2, <5>1, CloseRejectionsType
                <5> QED
                    BY <5>1, <5>2 DEF Rejected
            <4> QED
                BY <1>1, <1>2, <1>4, <1>5, <3>2, <4>1 DEF RelationsInv
        <3> QED
            BY <3>1, <3>2
    <2>2. ASSUME NEW l \in decisions'
          PROVE  links'[l].revision > 0
        <3>1. l \in Lines /\ links[l].revision > 0
            BY <1>1, <1>4 DEF RelationsInv, ReviewTypeOK
        <3> QED
            BY <1>5, <3>1
    <2> QED
        BY <2>1, <2>2 DEF RelationsInv
<1>12. ASSUME NEW k \in DOMAIN rejections', rejections'[k].active
       PROVE  /\ k \in DOMAIN rejections /\ rejections'[k] = rejections[k]
              /\ rejections[k].line \in Lines /\ rejections[k].line \notin selected
              /\ links'[rejections[k].line] = links[rejections[k].line]
    <2>1. k \in DOMAIN rejections /\ rejections'[k] = rejections[k] /\ rejections[k].line \notin selected
        BY <1>1, <1>4, <1>12, CloseRejectionsType
    <2>2. rejections[k] \in Rejection
        BY <1>1, <2>1, ElementOfSeq DEF ReviewTypeOK
    <2>3. rejections[k].line \in Lines
        BY <2>2 DEF Rejection
    <2> QED
        BY <1>5, <2>1, <2>3
<1>13. RejectionsInv'
    <2>1. /\ DOMAIN rejections' = DOMAIN rejections
        BY <1>1, <1>4, CloseRejectionsType
    <2>2. ASSUME NEW k \in DOMAIN rejections', rejections'[k].active
          PROVE  /\ ~links'[rejections'[k].line].active
                 /\ links'[rejections'[k].line].revision = rejections'[k].relationRevision + 1
                 /\ links'[rejections'[k].line].record = rejections'[k].record
                 /\ links'[rejections'[k].line].source = rejections'[k].source
        BY <1>1, <1>12, <2>2 DEF RejectionsInv
    <2>3. ASSUME NEW j \in DOMAIN rejections', NEW k \in DOMAIN rejections',
                 rejections'[j].active, rejections'[k].active, j # k
          PROVE  rejections'[j].line # rejections'[k].line
        BY <1>1, <1>12, <2>3 DEF RejectionsInv
    <2> QED
        BY <2>2, <2>3 DEF RejectionsInv
<1>14. CompatInv'
    <2>1. ASSUME NEW l \in Lines, compat'[l] # None
          PROVE  links'[l].active /\ links'[l].state \notin Inherited
        <3>1. CASE l \in selected
            BY <1>2, <1>5, <3>1 DEF Inherited
        <3>2. CASE l \notin selected
            BY <1>1, <1>5, <2>1, <3>2 DEF CompatInv
        <3> QED
            BY <3>1, <3>2
    <2> QED
        BY <2>1 DEF CompatInv
<1>15. FactsMove
    <2>1. \A l \in Lines : links'[l] = links[l] \/ links'[l].revision = links[l].revision + 1
        BY <1>5
    <2>2. ASSUME NEW k \in DOMAIN records
          PROVE  k \in DOMAIN records' /\ records[k].revision <= records'[k].revision
        <3>1. records[k] \in Record
            BY <1>1, ElementOfSeq DEF ReviewTypeOK
        <3>2. records[k].revision \in Nat
            BY <3>1 DEF Record
        <3>3. CASE k = target
            BY <1>2, <3>2, <3>3
        <3>4. CASE k # target
            BY <1>2, <3>2, <3>4
        <3> QED
            BY <3>3, <3>4
    <2>3. ASSUME NEW l \in Lines \ undone', NEW k \in DOMAIN records,
                 links'[l].active, links'[l].record = k,
                 records'[k].revision = records[k].revision
          PROVE  links[l].active /\ links[l].record = k
        <3>1. records[k] \in Record
            BY <1>1, ElementOfSeq DEF ReviewTypeOK
        <3>2. records[k].revision \in Nat
            BY <3>1 DEF Record
        <3>3. k # target
            BY <1>2, <2>3, <3>2
        <3>4. l \notin selected
            BY <1>5, <2>3, <3>3
        <3> QED
            BY <1>5, <2>3, <3>4
    <2>4. undone \subseteq undone'
        BY <1>4
    <2> QED
        BY <1>4, <2>1, <2>2, <2>3, <2>4 DEF FactsMove
<1> QED
    BY <1>4, <1>9, <1>10, <1>11, <1>13, <1>14, <1>15 DEF Mutated, FactsInv

(* A save leaves what the other lines show: the record that is edited in   *)
(* place has no other active line, or its revision has moved.              *)
LEMMA SaveCovers ==
    ASSUME FactsInv, NEW r \in Reviewers, tx[r] # None, SnapshotInv(tx[r]),
           NEW selected \in Selections, NEW record \in {0} \cup DOMAIN records,
           NEW status \in Statuses, NEW draft \in BOOLEAN,
           Save(r, selected, record, status, draft),
           NEW l \in Lines \ undone, links[l].active, links'[l] = links[l]
    PROVE  Shown(l)' = Shown(l)
<1>1. /\ ReviewTypeOK /\ RelationsInv /\ tx[r] \in Snapshot /\ selected \in SUBSET Lines
    BY ReviewConstants DEF FactsInv, ReviewTypeOK
<1>2. PICK target \in Nat \ {0}, state \in {"MANUAL_CONFIRMED", "MANUAL_DRAFT"} :
            /\ links' = LinkLines(selected, target, state)
            /\ \A k \in DOMAIN records \ {target} : records'[k] = records[k]
            /\ target \in DOMAIN records => InPlace(r, record, selected) /\ target = record
    BY <1>1, SaveWrites
<1>3. links[l].revision \in Nat /\ links[l].record \in DOMAIN records
    <2>1. links[l] \in Link
        BY <1>1 DEF ReviewTypeOK
    <2> QED
        BY <1>1, <2>1 DEF RelationsInv, Link
<1>4. l \notin selected
    <2>1. l \in selected => links'[l].revision = links[l].revision + 1
        BY <1>2 DEF LinkLines
    <2> QED
        BY <1>3, <2>1
<1>5. links[l].record # target
    <2>1. SUFFICES ASSUME links[l].record = target
                   PROVE  FALSE
        OBVIOUS
    <2>2. InPlace(r, record, selected) /\ target = record
        BY <1>2, <1>3, <2>1
    <2>3. PICK m : m \in selected
        BY DEF Save
    <2>4. m \in Lines /\ tx[r].links[m].active /\ tx[r].links[m].record = record
        BY <2>2, <2>3 DEF InPlace
    <2>5. record \in DOMAIN tx[r].records
        BY <2>4 DEF SnapshotInv
    <2>6. records[record].revision = tx[r].records[record].revision
        BY <2>2 DEF Save
    <2>7. tx[r].links[l].active /\ tx[r].links[l].record = record
        BY <2>1, <2>2, <2>5, <2>6 DEF SnapshotInv
    <2>8. l \in selected
        BY <2>2, <2>7 DEF InPlace
    <2> QED
        BY <1>4, <2>8
<1>6. records'[links[l].record] = records[links[l].record]
    BY <1>2, <1>3, <1>5
<1> QED
    BY <1>6 DEF Shown
-----------------------------------------------------------------------------
(* InheritanceReviewService: relations are written, records and            *)
(* compatibility rows are not.                                             *)

LEMMA LinksMutate ==
    ASSUME ReviewTypeOK, ProjectionInv, NEW r \in Reviewers, tx[r] # None, SnapshotInv(tx[r]),
           NEW new \in [Lines -> Link], NEW named \in SUBSET Lines,
           \A l \in Lines \ named : new[l] = links[l],
           Publish(r, WithLinks(new), named),
           rejections' \in Seq(Rejection), undone' \in SUBSET Lines
    PROVE  /\ ReviewTypeOK' /\ ProjectionInv'
           /\ \A q \in Reviewers : tx'[q] \in {tx[q], None}
           /\ links' = new /\ dataVersion' = dataVersion + 1
           /\ UNCHANGED <<records, compat, decisions, pager>>
<1>1. PICK w : w = WithLinks(new) /\ Publish(r, w, named)
    OBVIOUS
<1>2. w.links = new /\ w.records = records /\ w.compat = compat
    BY <1>1 DEF WithLinks
<1>3. /\ links' = new /\ dataVersion' = dataVersion + 1
      /\ UNCHANGED <<records, compat, decisions, pager>>
    BY <1>1, <1>2 DEF Publish
<1>4. \A l \in Lines \ named : Incremental(r) =>
            /\ w.links[l] = links[l] /\ w.compat[l] = compat[l]
            /\ Status(w, l) = Status(Committed, l)
    BY <1>2 DEF Status, Committed
<1>5. ProjectionInv' /\ rows' \in FileStates
    BY <1>1, <1>4, PublishRows
<1>6. /\ tx[r] \in Snapshot
      /\ links' \in [Lines -> Link] /\ records' \in Seq(Record)
      /\ compat' \in [Lines -> Analysis \cup {None}]
    BY <1>3 DEF ReviewTypeOK
<1>7. ReviewTypeOK' /\ \A q \in Reviewers : tx'[q] \in {tx[q], None}
    BY <1>1, <1>5, <1>6, PublishTypes
<1> QED
    BY <1>3, <1>5, <1>7

(* A relation that still has the revision that was read is what was read.  *)
LEMMA PendingIsInherited ==
    ASSUME FactsInv, NEW r \in Reviewers, SnapshotInv(tx[r]), NEW l \in Lines, PendingRelation(r, l)
    PROVE  /\ links[l] \in Link /\ links[l].active /\ links[l].state \in Inherited
           /\ links[l].revision > 0 /\ compat[l] = None /\ tx[r].links[l] = links[l]
           /\ \A k \in DOMAIN rejections : rejections[k].active => rejections[k].line # l
<1>1. tx[r].links[l] = links[l]
    BY DEF PendingRelation, RelationUnchanged, SnapshotInv
<1>2. links[l] \in Link /\ links[l].active /\ links[l].state \in Inherited
    BY <1>1 DEF PendingRelation, FactsInv, ReviewTypeOK
<1> QED
    BY <1>1, <1>2 DEF FactsInv, RelationsInv, RejectionsInv, CompatInv

LEMMA RelationConfirmed ==
    ASSUME NEW q \in Link, NEW p, p = [q EXCEPT !.state = "MANUAL_CONFIRMED", !.revision = @ + 1]
    PROVE  /\ p \in Link /\ p.state = "MANUAL_CONFIRMED" /\ p.revision = q.revision + 1
           /\ p.record = q.record /\ p.source = q.source
<1>1. q.revision \in Nat /\ q.revision + 1 \in Nat
    BY DEF Link
<1> QED
    BY <1>1 DEF Link, States

LEMMA ConfirmMutates ==
    ASSUME FactsInv, ProjectionInv, NEW r \in Reviewers, tx[r] # None, SnapshotInv(tx[r]),
           NEW selected \in Selections, Confirm(r, selected)
    PROVE  Mutated /\ records' = records
<1>1. /\ ReviewTypeOK /\ RelationsInv /\ RejectionsInv /\ CompatInv /\ selected \in SUBSET Lines
    BY ReviewConstants DEF FactsInv
<1>2. PICK new : new = ConfirmLinks(selected) /\ Publish(r, WithLinks(new), selected)
    BY DEF Confirm
<1>3. rejections' = rejections /\ undone' = undone
    BY DEF Confirm
<1>4. ASSUME NEW l \in Lines
      PROVE  /\ new[l] \in Link /\ links[l] \in Link /\ links[l].revision \in Nat
             /\ l \in selected =>
                    /\ links[l].active /\ links[l].state \in Inherited
                    /\ new[l].active /\ new[l].state = "MANUAL_CONFIRMED"
                    /\ new[l].revision = links[l].revision + 1
                    /\ new[l].record = links[l].record /\ new[l].source = links[l].source
                    /\ \A k \in DOMAIN rejections : rejections[k].active => rejections[k].line # l
             /\ l \notin selected => new[l] = links[l]
    <2>1. links[l] \in Link /\ links[l].revision \in Nat
        BY <1>1 DEF ReviewTypeOK, Link
    <2>2. CASE l \in selected
        <3>1. new[l] = [links[l] EXCEPT !.state = "MANUAL_CONFIRMED", !.revision = @ + 1]
            BY <1>2, <2>2 DEF ConfirmLinks
        <3>2. PendingRelation(r, l)
            BY <2>2 DEF Confirm
        <3>3. /\ links[l].active /\ links[l].state \in Inherited
              /\ \A k \in DOMAIN rejections : rejections[k].active => rejections[k].line # l
            BY <3>2, PendingIsInherited
        <3>4. /\ new[l] \in Link /\ new[l].state = "MANUAL_CONFIRMED"
              /\ new[l].revision = links[l].revision + 1
              /\ new[l].record = links[l].record /\ new[l].source = links[l].source
            BY <2>1, <3>1, RelationConfirmed
        <3>5. new[l].active = links[l].active
            BY <2>1, <3>1 DEF Link
        <3> QED
            BY <2>1, <2>2, <3>3, <3>4, <3>5
    <2>3. CASE l \notin selected
        BY <1>2, <2>1, <2>3 DEF ConfirmLinks
    <2> QED
        BY <2>2, <2>3
<1>5. new \in [Lines -> Link]
    <2>1. new = [l \in Lines |-> new[l]]
        BY <1>2 DEF ConfirmLinks
    <2> QED
        BY <1>4, <2>1
<1>6. /\ ReviewTypeOK' /\ ProjectionInv'
      /\ \A q \in Reviewers : tx'[q] \in {tx[q], None}
      /\ links' = new /\ dataVersion' = dataVersion + 1
      /\ UNCHANGED <<records, compat, decisions, pager>>
    <2>1. rejections' \in Seq(Rejection) /\ undone' \in SUBSET Lines
        BY <1>1, <1>3 DEF ReviewTypeOK
    <2>2. \A l \in Lines \ selected : new[l] = links[l]
        BY <1>4
    <2> QED
        BY <1>1, <1>2, <1>5, <2>1, <2>2, LinksMutate
<1>7. RelationsInv'
    <2>1. \A l \in Lines : Rejected(l)' <=> Rejected(l)
        BY <1>3 DEF Rejected
    <2>2. ASSUME NEW l \in Lines
          PROVE  /\ new[l].active => new[l].revision > 0
                 /\ new[l].revision > 0 =>
                    /\ new[l].record \in DOMAIN records
                    /\ new[l].source # None => new[l].source \in decisions
                    /\ new[l].state \in Inherited => l \in decisions
                    /\ ~new[l].active => new[l].state \in Inherited /\ Rejected(l)
        <3>1. CASE l \in selected
            <4>1. links[l].revision > 0 /\ links[l].revision + 1 > 0
                BY <1>1, <1>4, <3>1 DEF RelationsInv
            <4> QED
                BY <1>1, <1>4, <3>1, <4>1 DEF RelationsInv, Inherited
        <3>2. CASE l \notin selected
            BY <1>1, <1>4, <3>2 DEF RelationsInv
        <3> QED
            BY <3>1, <3>2
    <2>3. ASSUME NEW l \in decisions
          PROVE  new[l].revision > 0
        <3>1. l \in Lines /\ links[l].revision > 0
            BY <1>1 DEF RelationsInv, ReviewTypeOK
        <3> QED
            BY <1>4, <3>1
    <2> QED
        BY <1>6, <2>1, <2>2, <2>3 DEF RelationsInv
<1>8. RejectionsInv'
    <2>1. ASSUME NEW k \in DOMAIN rejections, rejections[k].active
          PROVE  new[rejections[k].line] = links[rejections[k].line]
        <3>1. rejections[k] \in Rejection
            BY <1>1, ElementOfSeq DEF ReviewTypeOK
        <3>2. rejections[k].line \in Lines
            BY <3>1 DEF Rejection
        <3> QED
            BY <1>4, <2>1, <3>2
    <2> QED
        BY <1>1, <1>3, <1>6, <2>1 DEF RejectionsInv
<1>9. CompatInv'
    <2>1. ASSUME NEW l \in Lines, compat[l] # None
          PROVE  new[l].active /\ new[l].state \notin Inherited
        <3>1. CASE l \in selected
            BY <1>4, <3>1 DEF Inherited
        <3>2. CASE l \notin selected
            BY <1>1, <1>4, <2>1, <3>2 DEF CompatInv
        <3> QED
            BY <3>1, <3>2
    <2> QED
        BY <1>6, <2>1 DEF CompatInv
<1>10. FactsMove
    <2>1. \A l \in Lines : new[l] = links[l] \/ new[l].revision = links[l].revision + 1
        BY <1>4
    <2>2. \A l \in Lines : new[l].active => (links[l].active /\ links[l].record = new[l].record)
        BY <1>4
    <2>3. \A k \in DOMAIN records : records[k].revision <= records[k].revision
        <3>1. ASSUME NEW k \in DOMAIN records
              PROVE  records[k].revision \in Nat
            <4>1. records[k] \in Record
                BY <1>1, ElementOfSeq DEF ReviewTypeOK
            <4> QED
                BY <4>1 DEF Record
        <3> QED
            BY <3>1
    <2> QED
        BY <1>3, <1>6, <2>1, <2>2, <2>3 DEF FactsMove
<1> QED
    BY <1>6, <1>7, <1>8, <1>9, <1>10 DEF Mutated, FactsInv

LEMMA RelationRejected ==
    ASSUME NEW q \in Link, NEW p, p = [q EXCEPT !.active = FALSE, !.revision = @ + 1]
    PROVE  /\ p \in Link /\ ~p.active /\ p.state = q.state /\ p.revision = q.revision + 1
           /\ p.record = q.record /\ p.source = q.source
<1>1. q.revision \in Nat /\ q.revision + 1 \in Nat
    BY DEF Link
<1> QED
    BY <1>1 DEF Link

LEMMA RelationRestored ==
    ASSUME NEW q \in Link, NEW p,
           p = [q EXCEPT !.active = TRUE, !.state = "INHERITED_PENDING", !.revision = @ + 1]
    PROVE  /\ p \in Link /\ p.active /\ p.state = "INHERITED_PENDING"
           /\ p.revision = q.revision + 1 /\ p.record = q.record /\ p.source = q.source
<1>1. q.revision \in Nat /\ q.revision + 1 \in Nat
    BY DEF Link
<1> QED
    BY <1>1 DEF Link, States

LEMMA RecordRevisions ==
    ASSUME ReviewTypeOK
    PROVE  \A k \in DOMAIN records : records[k].revision \in Nat
<1>1. ASSUME NEW k \in DOMAIN records
      PROVE  records[k] \in Record
    BY <1>1, ElementOfSeq DEF ReviewTypeOK
<1> QED
    BY <1>1 DEF Record

LEMMA RejectionTypes ==
    ASSUME ReviewTypeOK, NEW k \in DOMAIN rejections
    PROVE  rejections[k] \in Rejection /\ rejections[k].line \in Lines
<1>1. rejections[k] \in Rejection
    BY ElementOfSeq DEF ReviewTypeOK
<1> QED
    BY <1>1 DEF Rejection

LEMMA RejectMutates ==
    ASSUME FactsInv, ProjectionInv, NEW r \in Reviewers, tx[r] # None, SnapshotInv(tx[r]),
           NEW l \in Lines, Reject(r, l)
    PROVE  Mutated /\ records' = records
<1>1. /\ ReviewTypeOK /\ RelationsInv /\ RejectionsInv /\ CompatInv
    BY DEF FactsInv
<1>2. PICK new : /\ new = [links EXCEPT ![l].active = FALSE, ![l].revision = @ + 1]
                 /\ Publish(r, WithLinks(new), {l})
    BY DEF Reject
<1>3. /\ links[l] \in Link /\ links[l].active /\ links[l].state \in Inherited
      /\ links[l].revision > 0 /\ compat[l] = None /\ tx[r].links[l] = links[l]
      /\ \A k \in DOMAIN rejections : rejections[k].active => rejections[k].line # l
    BY PendingIsInherited DEF Reject
<1>4. PICK q : q = [line |-> l, relationRevision |-> links[l].revision, record |-> links[l].record,
                    source |-> links[l].source, revision |-> 1, active |-> TRUE]
    OBVIOUS
<1>5. rejections' = Append(rejections, q) /\ undone' = undone
    BY <1>3, <1>4 DEF Reject
<1>6. q \in Rejection /\ q.line = l /\ q.active
    BY <1>3, <1>4 DEF Rejection, Link
<1>7. /\ DOMAIN links = Lines /\ new \in [Lines -> Link]
      /\ \A m \in Lines \ {l} : new[m] = links[m]
      /\ ~new[l].active /\ new[l].state = links[l].state /\ new[l].revision = links[l].revision + 1
      /\ new[l].record = links[l].record /\ new[l].source = links[l].source
    <2>1. DOMAIN links = Lines /\ links \in [Lines -> Link]
        BY <1>1 DEF ReviewTypeOK
    <2>2. new = [links EXCEPT ![l] = [links[l] EXCEPT !.active = FALSE, !.revision = @ + 1]]
        BY <1>2, <2>1
    <2>3. new[l] = [links[l] EXCEPT !.active = FALSE, !.revision = @ + 1]
        BY <2>1, <2>2
    <2>4. /\ new[l] \in Link /\ ~new[l].active /\ new[l].state = links[l].state
          /\ new[l].revision = links[l].revision + 1
          /\ new[l].record = links[l].record /\ new[l].source = links[l].source
        BY <1>3, <2>3, RelationRejected, ZenonT(60)
    <2>5. \A m \in Lines \ {l} : new[m] = links[m]
        BY <2>1, <2>2
    <2>6. new \in [Lines -> Link]
        BY <2>1, <2>2, <2>3, <2>4
    <2> QED
        BY <2>1, <2>4, <2>5, <2>6
<1>8. /\ rejections' \in Seq(Rejection) /\ Len(rejections) \in Nat
      /\ DOMAIN rejections = 1..Len(rejections)
      /\ DOMAIN rejections' = DOMAIN rejections \cup {Len(rejections) + 1}
      /\ Len(rejections) + 1 \notin DOMAIN rejections
      /\ \A k \in DOMAIN rejections : rejections'[k] = rejections[k]
      /\ rejections'[Len(rejections) + 1] = q
    BY <1>1, <1>5, <1>6 DEF ReviewTypeOK
<1>9. /\ ReviewTypeOK' /\ ProjectionInv'
      /\ \A p \in Reviewers : tx'[p] \in {tx[p], None}
      /\ links' = new /\ dataVersion' = dataVersion + 1
      /\ UNCHANGED <<records, compat, decisions, pager>>
    <2>1. undone' \in SUBSET Lines /\ {l} \in SUBSET Lines
        BY <1>1, <1>5 DEF ReviewTypeOK
    <2> QED
        BY <1>1, <1>2, <1>7, <1>8, <2>1, LinksMutate
<1>10. links[l].revision \in Nat /\ q.relationRevision = links[l].revision
       /\ q.record = links[l].record /\ q.source = links[l].source
    BY <1>3, <1>4 DEF Link
<1>11. RelationsInv'
    <2>1. \A m \in Lines : Rejected(m) => Rejected(m)'
        BY <1>8 DEF Rejected
    <2>2. Rejected(l)'
        BY <1>6, <1>8 DEF Rejected
    <2>3. ASSUME NEW m \in Lines
          PROVE  /\ new[m].active => new[m].revision > 0
                 /\ new[m].revision > 0 =>
                    /\ new[m].record \in DOMAIN records
                    /\ new[m].source # None => new[m].source \in decisions
                    /\ new[m].state \in Inherited => m \in decisions
                    /\ ~new[m].active => new[m].state \in Inherited /\ Rejected(m)'
        <3>1. CASE m = l
            BY <1>1, <1>3, <1>7, <2>2, <3>1 DEF RelationsInv
        <3>2. CASE m # l
            BY <1>1, <1>7, <2>1, <3>2 DEF RelationsInv
        <3> QED
            BY <3>1, <3>2
    <2>4. ASSUME NEW m \in decisions
          PROVE  new[m].revision > 0
        <3>1. m \in Lines /\ links[m].revision > 0
            BY <1>1 DEF RelationsInv, ReviewTypeOK
        <3> QED
            BY <1>7, <1>10, <3>1
    <2> QED
        BY <1>9, <2>3, <2>4 DEF RelationsInv
<1>12. RejectionsInv'
    <2>1. ASSUME NEW k \in DOMAIN rejections', rejections'[k].active
          PROVE  /\ ~new[rejections'[k].line].active
                 /\ new[rejections'[k].line].revision = rejections'[k].relationRevision + 1
                 /\ new[rejections'[k].line].record = rejections'[k].record
                 /\ new[rejections'[k].line].source = rejections'[k].source
        <3>1. CASE k = Len(rejections) + 1
            BY <1>6, <1>7, <1>8, <1>10, <3>1
        <3>2. CASE k \in DOMAIN rejections
            <4>1. rejections[k].line \in Lines \ {l} /\ rejections'[k] = rejections[k]
                BY <1>1, <1>3, <1>8, <2>1, <3>2, RejectionTypes
            <4>2. new[rejections[k].line] = links[rejections[k].line]
                BY <1>7, <4>1
            <4> QED
                BY <1>1, <2>1, <3>2, <4>1, <4>2 DEF RejectionsInv
        <3> QED
            BY <1>8, <2>1, <3>1, <3>2
    <2>2. ASSUME NEW j \in DOMAIN rejections', NEW k \in DOMAIN rejections',
                 rejections'[j].active, rejections'[k].active, j # k
          PROVE  rejections'[j].line # rejections'[k].line
        <3>1. CASE j \in DOMAIN rejections /\ k \in DOMAIN rejections
            BY <1>1, <1>8, <2>2, <3>1 DEF RejectionsInv
        <3>2. CASE j = Len(rejections) + 1
            BY <1>3, <1>6, <1>8, <2>2, <3>2
        <3>3. CASE k = Len(rejections) + 1
            BY <1>3, <1>6, <1>8, <2>2, <3>3
        <3> QED
            BY <1>8, <2>2, <3>1, <3>2, <3>3
    <2> QED
        BY <1>9, <2>1, <2>2 DEF RejectionsInv
<1>13. CompatInv'
    <2>1. ASSUME NEW m \in Lines, compat[m] # None
          PROVE  new[m].active /\ new[m].state \notin Inherited
        BY <1>1, <1>3, <1>7, <2>1 DEF CompatInv
    <2> QED
        BY <1>9, <2>1 DEF CompatInv
<1>14. FactsMove
    <2>1. \A m \in Lines : new[m] = links[m] \/ new[m].revision = links[m].revision + 1
        BY <1>7
    <2>2. \A m \in Lines : new[m].active => (links[m].active /\ links[m].record = new[m].record)
        BY <1>7
    <2> QED
        BY <1>1, <1>5, <1>9, <2>1, <2>2, RecordRevisions DEF FactsMove
<1> QED
    BY <1>9, <1>11, <1>12, <1>13, <1>14 DEF Mutated, FactsInv

LEMMA UndoMutates ==
    ASSUME FactsInv, ProjectionInv, NEW r \in Reviewers, tx[r] # None, SnapshotInv(tx[r]),
           NEW k \in DOMAIN rejections, Undo(r, k)
    PROVE  Mutated /\ records' = records
<1>1. /\ ReviewTypeOK /\ RelationsInv /\ RejectionsInv /\ CompatInv
    BY DEF FactsInv
<1>2. PICK l : l = rejections[k].line
    OBVIOUS
<1>3. /\ l \in Lines /\ rejections[k] \in Rejection /\ rejections[k].active
      /\ ~links[l].active /\ links[l].revision = rejections[k].relationRevision + 1
    BY <1>1, <1>2, RejectionTypes DEF Undo, RejectionsInv
<1>4. /\ links[l] \in Link /\ links[l].revision \in Nat /\ links[l].revision > 0
      /\ links[l].state \in Inherited /\ l \in decisions /\ compat[l] = None
    <2>1. links[l] \in Link /\ links[l].revision \in Nat /\ rejections[k].relationRevision \in Nat
        BY <1>1, <1>3 DEF ReviewTypeOK, Link, Rejection
    <2>2. links[l].revision > 0
        BY <1>3, <2>1
    <2> QED
        BY <1>1, <1>3, <2>1, <2>2 DEF RelationsInv, CompatInv
<1>5. PICK new : /\ new = [links EXCEPT ![l].active = TRUE, ![l].state = "INHERITED_PENDING",
                                        ![l].revision = @ + 1]
                 /\ Publish(r, WithLinks(new), {l})
    BY <1>2 DEF Undo
<1>6. /\ rejections' = [rejections EXCEPT ![k].active = FALSE, ![k].revision = @ + 1]
      /\ undone' = undone \cup {l}
    BY <1>2 DEF Undo
<1>7. /\ rejections' \in Seq(Rejection) /\ DOMAIN rejections' = DOMAIN rejections
      /\ ~rejections'[k].active
      /\ \A j \in DOMAIN rejections \ {k} : rejections'[j] = rejections[j]
    <2>1. rejections \in Seq(Rejection)
        BY <1>1 DEF ReviewTypeOK
    <2>2. PICK q : q = [rejections[k] EXCEPT !.active = FALSE, !.revision = @ + 1]
        OBVIOUS
    <2>3. q \in Rejection /\ ~q.active
        BY <1>3, <2>2, RejectionClosed
    <2>4. rejections' = [rejections EXCEPT ![k] = q]
        BY <1>6, <2>1, <2>2
    <2> QED
        BY <2>1, <2>3, <2>4
<1>8. /\ new \in [Lines -> Link]
      /\ \A m \in Lines \ {l} : new[m] = links[m]
      /\ new[l].active /\ new[l].state = "INHERITED_PENDING"
      /\ new[l].revision = links[l].revision + 1
      /\ new[l].record = links[l].record /\ new[l].source = links[l].source
    <2>1. DOMAIN links = Lines /\ links \in [Lines -> Link]
        BY <1>1 DEF ReviewTypeOK
    <2>2. PICK q : q = [links[l] EXCEPT !.active = TRUE, !.state = "INHERITED_PENDING",
                                        !.revision = @ + 1]
        OBVIOUS
    <2>3. new = [links EXCEPT ![l] = q]
        BY <1>3, <1>5, <2>1, <2>2
    <2>4. /\ q \in Link /\ q.active /\ q.state = "INHERITED_PENDING"
          /\ q.revision = links[l].revision + 1
          /\ q.record = links[l].record /\ q.source = links[l].source
        BY <1>4, <2>2, RelationRestored
    <2> QED
        BY <1>3, <2>1, <2>3, <2>4
<1>9. /\ ReviewTypeOK' /\ ProjectionInv'
      /\ \A p \in Reviewers : tx'[p] \in {tx[p], None}
      /\ links' = new /\ dataVersion' = dataVersion + 1
      /\ UNCHANGED <<records, compat, decisions, pager>>
    <2>1. undone' \in SUBSET Lines /\ {l} \in SUBSET Lines
        BY <1>1, <1>3, <1>6 DEF ReviewTypeOK
    <2> QED
        BY <1>1, <1>5, <1>7, <1>8, <2>1, LinksMutate
<1>10. ASSUME NEW j \in DOMAIN rejections \ {k}, rejections[j].active
       PROVE  rejections[j].line \in Lines \ {l}
    BY <1>1, <1>2, <1>3, <1>10, RejectionTypes DEF RejectionsInv
<1>11. RelationsInv'
    <2>1. ASSUME NEW m \in Lines \ {l}, Rejected(m)
          PROVE  Rejected(m)'
        BY <1>2, <1>7, <2>1 DEF Rejected
    <2>2. ASSUME NEW m \in Lines
          PROVE  /\ new[m].active => new[m].revision > 0
                 /\ new[m].revision > 0 =>
                    /\ new[m].record \in DOMAIN records
                    /\ new[m].source # None => new[m].source \in decisions
                    /\ new[m].state \in Inherited => m \in decisions
                    /\ ~new[m].active => new[m].state \in Inherited /\ Rejected(m)'
        <3>1. CASE m = l
            BY <1>1, <1>4, <1>8, <3>1 DEF RelationsInv
        <3>2. CASE m # l
            BY <1>1, <1>8, <2>1, <3>2 DEF RelationsInv
        <3> QED
            BY <3>1, <3>2
    <2>3. ASSUME NEW m \in decisions
          PROVE  new[m].revision > 0
        <3>1. m \in Lines /\ links[m].revision > 0
            BY <1>1 DEF RelationsInv, ReviewTypeOK
        <3> QED
            BY <1>4, <1>8, <3>1
    <2> QED
        BY <1>9, <2>2, <2>3 DEF RelationsInv
<1>12. RejectionsInv'
    <2>1. ASSUME NEW j \in DOMAIN rejections', rejections'[j].active
          PROVE  /\ j \in DOMAIN rejections \ {k} /\ rejections'[j] = rejections[j]
                 /\ new[rejections[j].line] = links[rejections[j].line]
        BY <1>7, <1>8, <1>10, <2>1
    <2> QED
        BY <1>1, <1>9, <2>1 DEF RejectionsInv
<1>13. CompatInv'
    <2>1. ASSUME NEW m \in Lines, compat[m] # None
          PROVE  new[m].active /\ new[m].state \notin Inherited
        BY <1>1, <1>4, <1>8, <2>1 DEF CompatInv
    <2> QED
        BY <1>9, <2>1 DEF CompatInv
<1>14. FactsMove
    <2>1. \A m \in Lines : new[m] = links[m] \/ new[m].revision = links[m].revision + 1
        BY <1>8
    <2>2. \A m \in Lines \ undone' :
            new[m].active => (links[m].active /\ links[m].record = new[m].record)
        BY <1>6, <1>8
    <2> QED
        BY <1>1, <1>6, <1>9, <2>1, <2>2, RecordRevisions DEF FactsMove
<1> QED
    BY <1>9, <1>11, <1>12, <1>13, <1>14 DEF Mutated, FactsInv
-----------------------------------------------------------------------------
(* Pages. *)

LEMMA LeastNumber ==
    ASSUME NEW S \in SUBSET Nat, S # {}
    PROVE  \E m \in S : \A n \in S : m <= n
<1> DEFINE R == {pair \in Nat \X Nat : pair[1] < pair[2]}
<1>1. IsWellFoundedOn(R, Nat)
    BY NatLessThanWellFounded DEF OpToRel
<1> HIDE DEF R
<1>2. \A m, n \in Nat : ~(<<n, m>> \in R) => m <= n
    BY DEF R
<1>3. PICK m \in S : \A n \in S : ~(<<n, m>> \in R)
    BY <1>1, WFMin
<1>4. \A n \in S : m <= n
    BY <1>2, <1>3
<1> QED
    BY <1>4

LEMMA GreatestNumber ==
    ASSUME NEW S \in SUBSET Nat, S # {}, IsFiniteSet(S)
    PROVE  Max(S) \in S /\ \A n \in S : n <= Max(S)
<1> DEFINE rank(n) == Cardinality({m \in S : m <= n})
           ranks == {Cardinality(S) - rank(n) : n \in S}
<1>0. \A n \in S : n \in Nat
    OBVIOUS
<1>1. ASSUME NEW n \in S
      PROVE  /\ rank(n) \in Nat /\ rank(n) <= Cardinality(S)
             /\ IsFiniteSet({m \in S : m <= n})
    <2>1. {m \in S : m <= n} \in SUBSET S
        OBVIOUS
    <2>2. IsFiniteSet({m \in S : m <= n}) /\ rank(n) <= Cardinality(S)
        BY <2>1, FS_Subset
    <2> QED
        BY <2>2, FS_CardinalityType
<1>2. Cardinality(S) \in Nat
    BY FS_CardinalityType
<1>3. ASSUME NEW n \in S, NEW m \in S, n < m
      PROVE  rank(n) < rank(m)
    <2>1. {k \in S : k <= n} \in SUBSET {k \in S : k <= m}
        <3>1. \A k \in S : k <= n => k <= m
            BY <1>0, <1>3
        <3> QED
            BY <3>1
    <2>2. m \in {k \in S : k <= m} /\ m \notin {k \in S : k <= n}
        BY <1>0, <1>3
    <2>3. rank(n) <= rank(m) /\ rank(n) # rank(m)
        BY <1>1, <2>1, <2>2, FS_Subset
    <2> QED
        BY <1>1, <2>3
<1> HIDE DEF rank
<1>4. ranks \in SUBSET Nat /\ ranks # {}
    <2>1. ASSUME NEW n \in S
          PROVE  Cardinality(S) - rank(n) \in Nat
        <3>1. rank(n) \in Nat /\ rank(n) <= Cardinality(S)
            BY <1>1
        <3> QED
            BY <1>2, <3>1
    <2> QED
        BY <2>1
<1>5. PICK least \in ranks : \A n \in ranks : least <= n
    BY <1>4, LeastNumber
<1>6. PICK top \in S : least = Cardinality(S) - rank(top)
    BY <1>5
<1>7. ASSUME NEW n \in S
      PROVE  n <= top
    <2>1. Cardinality(S) - rank(top) <= Cardinality(S) - rank(n)
        BY <1>5, <1>6
    <2>2. rank(n) <= rank(top)
        <3>1. rank(n) \in Nat /\ rank(top) \in Nat
            BY <1>1
        <3> QED
            BY <1>2, <2>1, <3>1
    <2>3. ~(top < n)
        <3>1. rank(n) \in Nat /\ rank(top) \in Nat
            BY <1>1
        <3>2. top < n => rank(top) < rank(n)
            BY <1>3
        <3> QED
            BY <2>2, <3>1, <3>2
    <2>4. n \in Nat /\ top \in Nat
        OBVIOUS
    <2> QED
        BY <2>3, <2>4
<1>8. \E x \in S : \A y \in S : x >= y
    BY <1>7
<1> QED
    BY <1>8 DEF Max

(* The keyset page of the numbers P after "after". *)
PageOf(P, after) ==
    LET rest == {n \in P : n > after}
    IN  {n \in rest : Cardinality({m \in rest : m <= n}) <= PageSize}

(* A page takes the next numbers in order: with what was served before, it *)
(* is everything up to its last line.                                      *)
LEMMA PageIsPrefix ==
    ASSUME NEW P \in SUBSET Nat, IsFiniteSet(P), NEW after \in Nat,
           NEW page, page = PageOf(P, after),
           NEW last, last = IF page = {} THEN after ELSE Max(page)
    PROVE  /\ last \in Nat /\ page \in SUBSET Nat
           /\ {n \in P : n <= after} \cup page = {n \in P : n <= last}
<1>0. PICK rest : rest = {n \in P : n > after}
    OBVIOUS
<1>00. page = {n \in rest : Cardinality({m \in rest : m <= n}) <= PageSize}
    BY <1>0 DEF PageOf
<1>1. CASE page = {}
    BY <1>1
<1>2. CASE page # {}
    <2>1. page \in SUBSET P /\ page \in SUBSET Nat /\ rest \in SUBSET P /\ rest \in SUBSET Nat
        BY <1>0, <1>00
    <2>2. IsFiniteSet(page) /\ IsFiniteSet(rest)
        BY <2>1, FS_Subset
    <2>3. last \in page /\ \A n \in page : n <= last
        BY <1>2, <2>1, <2>2, GreatestNumber
    <2>4. last \in Nat /\ last > after /\ last \in rest
        BY <1>0, <1>00, <2>1, <2>3
    <2>5. ASSUME NEW n \in rest, n <= last
          PROVE  n \in page
        <3>1. n \in Nat /\ \A m \in rest : m \in Nat
            BY <2>1
        <3>2. {m \in rest : m <= n} \in SUBSET {m \in rest : m <= last}
            <4>1. \A m \in rest : m <= n => m <= last
                BY <2>4, <2>5, <3>1
            <4> QED
                BY <4>1
        <3>3. {m \in rest : m <= last} \in SUBSET rest
            OBVIOUS
        <3>4. IsFiniteSet({m \in rest : m <= last})
            BY <2>2, <3>3, FS_Subset
        <3>5. /\ IsFiniteSet({m \in rest : m <= n})
              /\ Cardinality({m \in rest : m <= n}) <= Cardinality({m \in rest : m <= last})
            BY <3>2, <3>4, FS_Subset
        <3>6. /\ Cardinality({m \in rest : m <= n}) \in Nat
              /\ Cardinality({m \in rest : m <= last}) \in Nat
            BY <3>4, <3>5, FS_CardinalityType
        <3>7. Cardinality({m \in rest : m <= last}) <= PageSize
            BY <1>00, <2>3
        <3>8. Cardinality({m \in rest : m <= n}) <= PageSize
            BY <3>5, <3>6, <3>7, ReviewConstants
        <3> QED
            BY <1>00, <3>8
    <2>6. ASSUME NEW n \in P
          PROVE  (n <= after \/ n \in page) <=> n <= last
        <3>1. n \in Nat
            OBVIOUS
        <3>2. n <= after \/ n \in rest
            BY <1>0, <3>1
        <3>3. n \in page => n \in rest /\ n <= last
            BY <1>00, <2>3
        <3>4. n <= after => n <= last
            BY <2>4, <3>1
        <3> QED
            BY <2>5, <3>2, <3>3, <3>4
    <2> QED
        BY <2>1, <2>4, <2>6
<1> QED
    BY <1>1, <1>2

(* While lines are left the next page is not empty. *)
LEMMA PageIsNotEmpty ==
    ASSUME NEW P \in SUBSET Nat, IsFiniteSet(P), NEW after \in Nat, PageOf(P, after) = {}
    PROVE  {n \in P : n <= after} = P
<1>0. PICK rest : rest = {n \in P : n > after}
    OBVIOUS
<1>00. \A n \in rest : ~(Cardinality({m \in rest : m <= n}) <= PageSize)
    BY <1>0 DEF PageOf
<1>1. rest \in SUBSET Nat
    BY <1>0
<1>2. rest = {}
    <2>1. SUFFICES ASSUME rest # {}
                   PROVE  FALSE
        OBVIOUS
    <2>2. PICK n \in rest : \A m \in rest : n <= m
        BY <1>1, <2>1, LeastNumber
    <2>3. {m \in rest : m <= n} = {n}
        <3>1. \A m \in rest : m <= n => m = n
            BY <1>1, <2>2
        <3>2. n <= n
            BY <1>1
        <3> QED
            BY <3>1, <3>2
    <2>4. Cardinality({m \in rest : m <= n}) = 1
        BY <2>3, FS_Singleton
    <2> QED
        BY <1>00, <2>2, <2>4, ReviewConstants
<1>3. \A n \in P : n <= after
    BY <1>0, <1>2
<1> QED
    BY <1>3

LEMMA PendingNumbers ==
    ASSUME NEW f, NEW files, NEW P, P = {NumberOf[l] : l \in PendingOf(f, files)}
    PROVE  P \in SUBSET (Nat \ {0}) /\ IsFiniteSet(P)
<1>1. PICK S : S = PendingOf(f, files)
    OBVIOUS
<1>2. S \in SUBSET Lines
    BY <1>1 DEF PendingOf, UncoveredOf, LinesOf
<1>3. P \in SUBSET (Nat \ {0})
    <2>1. \A l \in S : NumberOf[l] \in Nat \ {0}
        BY <1>2, ReviewConstants
    <2> QED
        BY <1>1, <2>1
<1>4. IsFiniteSet(S)
    BY <1>2, LinesAreFinite
<1> DEFINE number == [l \in S |-> NumberOf[l]]
<1>5. number \in [S -> P] /\ \A n \in P : \E l \in S : number[l] = n
    BY <1>1
<1> HIDE DEF number
<1>6. number \in Surjection(S, P)
    BY <1>5, Fun_IsSurj
<1>7. IsFiniteSet(P)
    BY <1>4, <1>6, FS_Surjection
<1> QED
    BY <1>3, <1>7

(* A page served after everything up to "after" keeps the pager exact. *)
LEMMA ServeIsExact ==
    ASSUME ReviewTypeOK, NEW file \in Files, NEW after \in Nat, NEW seen,
           seen = {n \in {NumberOf[l] : l \in PendingOf(Committed, {file})} : n <= after},
           Serve(file, after, seen), UNCHANGED <<links, records, compat, dataVersion>>
    PROVE  pager' \in Pager /\ (PagerInv /\ PagesAreComplete)'
<1>1. PICK P : P = {NumberOf[l] : l \in PendingOf(Committed, {file})}
    OBVIOUS
<1>2. P \in SUBSET Nat /\ IsFiniteSet(P)
    BY <1>1, PendingNumbers
<1>3. PICK page : page = PageAfter(file, after)
    OBVIOUS
<1>4. PICK last : last = IF page = {} THEN after ELSE Max(page)
    OBVIOUS
<1>5. \A n : PageAfter(file, n) = PageOf(P, n)
    BY <1>1 DEF PageAfter, PageOf
<1>6. page = PageOf(P, after)
    BY <1>3, <1>5
<1>7. last \in Nat /\ page \in SUBSET Nat /\ seen \cup page = {n \in P : n <= last}
    <2>1. /\ last \in Nat /\ page \in SUBSET Nat
          /\ {n \in P : n <= after} \cup page = {n \in P : n <= last}
        BY <1>2, <1>4, <1>6, PageIsPrefix
    <2> QED
        BY <1>1, <2>1
<1>8. pager' = [file |-> file, version |-> dataVersion, last |-> last,
                seen |-> seen \cup page, more |-> PageAfter(file, last) # {}]
    BY <1>3, <1>4 DEF Serve
<1>9. PageAfter(file, last) = {} => seen \cup page = P
    BY <1>2, <1>5, <1>7, PageIsNotEmpty
<1>10. pager' \in Pager
    <2>1. seen \cup page \in SUBSET Nat
        BY <1>2, <1>7
    <2> QED
        BY <1>7, <1>8, <2>1 DEF Pager, ReviewTypeOK
<1>11. pager' # None /\ pager'.version <= dataVersion'
    <2>1. pager' # None
        BY <1>10, ReviewNone
    <2>2. dataVersion \in Nat /\ dataVersion' = dataVersion
        BY DEF ReviewTypeOK
    <2>3. pager'.version = dataVersion
        BY <1>8
    <2> QED
        BY <2>1, <2>2, <2>3
<1>12. PICK c : c = Committed
    OBVIOUS
<1>13. c = Committed'
    BY <1>12 DEF Committed
<1>14. P = {NumberOf[l] : l \in PendingOf(c, {file})}
    BY <1>1, <1>12
<1>15. PagesAreComplete'
    BY <1>7, <1>8, <1>9, <1>13, <1>14 DEF PagesAreComplete
<1> QED
    BY <1>10, <1>11, <1>15 DEF PagerInv
-----------------------------------------------------------------------------
(* The invariant. *)

LEMMA ReviewInitFacts ==
    ASSUME Init
    PROVE  ReviewInv
<1>1. PICK origin \in Origins :
        LET clones == {l \in Lines : origin[l] = "inherited"}
            legacy == {l \in Lines : origin[l] = "legacy"}
            migrated == BackfillLegacy(legacy, 1)
            start == [links |-> [l \in Lines |->
                                    IF l \in clones THEN InheritedLink(l)
                                    ELSE IF l \in legacy THEN migrated[l] ELSE NoLink],
                      records |-> [k \in 1..(1 + Cardinality(legacy)) |->
                                    [revision |-> 1, status |-> "cover", stamp |-> 0]],
                      compat |-> [l \in Lines |-> IF l \in legacy
                                    THEN [status |-> "cover", draft |-> FALSE] ELSE None]]
        IN  /\ links = start.links /\ records = start.records /\ compat = start.compat
            /\ rejections = <<>> /\ decisions = clones
            /\ rows = [f \in Files |-> [version |-> 1, summary |-> Summary(start, {f})]]
    BY DEF Init
<1> DEFINE clones == {l \in Lines : origin[l] = "inherited"}
           legacy == {l \in Lines : origin[l] = "legacy"}
           record(l) == 1 + Cardinality({k \in legacy : k <= l})
<1>2. /\ dataVersion = 1 /\ fileStateVersion = 1 /\ isCurrent = TRUE
      /\ tx = [r \in Reviewers |-> None] /\ pager = None /\ undone = {}
    BY DEF Init
<1>3. /\ links = [l \in Lines |-> IF l \in clones THEN InheritedLink(l)
                                  ELSE IF l \in legacy THEN BackfillLegacy(legacy, 1)[l] ELSE NoLink]
      /\ records = [k \in 1..(1 + Cardinality(legacy)) |->
                        [revision |-> 1, status |-> "cover", stamp |-> 0]]
      /\ compat = [l \in Lines |-> IF l \in legacy
                        THEN [status |-> "cover", draft |-> FALSE] ELSE None]
      /\ rejections = <<>> /\ decisions = clones
    BY <1>1
<1>4. rows = [f \in Files |-> [version |-> 1, summary |-> Summary(Committed, {f})]]
    BY <1>1 DEF Committed
<1>5. Cardinality(legacy) \in Nat /\ legacy \in SUBSET Lines
    BY LinesAreFinite
<1>6. \A l \in legacy : record(l) \in 1..(1 + Cardinality(legacy))
    <2>1. ASSUME NEW l \in legacy
          PROVE  record(l) \in 1..(1 + Cardinality(legacy))
        <3>1. {k \in legacy : k <= l} \in SUBSET legacy /\ {k \in legacy : k <= l} \in SUBSET Lines
            OBVIOUS
        <3>2. IsFiniteSet(legacy)
            BY <1>5, LinesAreFinite
        <3>3. Cardinality({k \in legacy : k <= l}) <= Cardinality(legacy)
            BY <3>1, <3>2, FS_Subset
        <3>4. Cardinality({k \in legacy : k <= l}) \in Nat
            BY <3>1, LinesAreFinite
        <3> QED
            BY <1>5, <3>3, <3>4
    <2> QED
        BY <2>1
<1>7. /\ records \in Seq(Record) /\ DOMAIN records = 1..(1 + Cardinality(legacy))
    <2>1. [revision |-> 1, status |-> "cover", stamp |-> 0] \in Record
        BY DEF Record
    <2> QED
        BY <1>3, <1>5, <2>1
<1>8. ASSUME NEW l \in Lines
      PROVE  /\ links[l] \in Link /\ compat[l] \in Analysis \cup {None}
             /\ l \in clones => /\ links[l].active /\ links[l].revision = 1 /\ links[l].record = 1
                                /\ links[l].source = l
             /\ l \in legacy => /\ links[l].active /\ links[l].revision = 1
                                /\ links[l].record \in DOMAIN records
                                /\ links[l].source = None /\ links[l].state \notin Inherited
             /\ l \notin clones /\ l \notin legacy => ~links[l].active /\ links[l].revision = 0
             /\ compat[l] # None => l \in legacy
    <2>1. compat[l] \in Analysis \cup {None} /\ (compat[l] # None => l \in legacy)
        BY <1>3 DEF Analysis
    <2>2. CASE l \in clones
        <3>1. links[l] = InheritedLink(l) /\ l \notin legacy
            BY <1>3, <2>2
        <3> QED
            BY <2>1, <2>2, <3>1 DEF InheritedLink, Link, States
    <2>3. CASE l \in legacy
        <3>1. links[l] = BackfillLegacy(legacy, 1)[l] /\ l \notin clones
            BY <1>3, <2>3
        <3>2. links[l] = [revision |-> 1, active |-> TRUE, state |-> "MANUAL_CONFIRMED",
                          source |-> None, record |-> record(l)]
            BY <2>3, <3>1 DEF BackfillLegacy
        <3> HIDE DEF record, legacy, clones
        <3>3. record(l) \in 1..(1 + Cardinality(legacy))
            BY <1>6, <2>3
        <3>4. record(l) \in DOMAIN records /\ record(l) \in Nat
            BY <1>5, <1>7, <3>3
        <3>5. /\ links[l].active /\ links[l].revision = 1 /\ links[l].record = record(l)
              /\ links[l].source = None /\ links[l].state = "MANUAL_CONFIRMED"
            BY <3>2
        <3>6. links[l] \in Link
            BY <3>2, <3>4 DEF Link, States
        <3> QED
            BY <2>1, <2>3, <3>1, <3>4, <3>5, <3>6 DEF Inherited
    <2>4. CASE l \notin clones /\ l \notin legacy
        <3>1. links[l] = NoLink
            BY <1>3, <2>4
        <3> QED
            BY <2>1, <2>4, <3>1 DEF NoLink, Link, States
    <2> QED
        BY <2>2, <2>3, <2>4
<1> HIDE DEF clones, legacy, record
<1>9. rows \in FileStates /\ \A f \in Files : rows[f].version = 1
    BY <1>4, SummaryType DEF FileStates
<1>10. ReviewTypeOK
    <2>1. links \in [Lines -> Link] /\ compat \in [Lines -> Analysis \cup {None}]
        BY <1>3, <1>8
    <2>2. decisions \subseteq Lines /\ rejections \in Seq(Rejection)
        BY <1>3 DEF clones
    <2> QED
        BY <1>2, <1>7, <1>9, <2>1, <2>2 DEF ReviewTypeOK
<1>11. RelationsInv
    <2>1. 1 \in DOMAIN records
        BY <1>5, <1>7
    <2>2. \A l \in clones : l \in Lines
        BY DEF clones
    <2> QED
        BY <1>3, <1>8, <2>1, <2>2 DEF RelationsInv
<1>12. RejectionsInv
    BY <1>3 DEF RejectionsInv
<1>13. CompatInv
    BY <1>8 DEF CompatInv
<1>14. ProjectionInv
    BY <1>2, <1>4, <1>9 DEF ProjectionInv
<1>15. \A r \in Reviewers : tx[r] = None
    BY <1>2
<1> QED
    BY <1>2, <1>10, <1>11, <1>12, <1>13, <1>14, <1>15
       DEF ReviewInv, FactsInv, PagerInv, PagesAreComplete

(* A mutation preserves the invariant; it makes every cursor stale. *)
LEMMA MutationKeeps ==
    ASSUME ReviewInv, Mutated
    PROVE  ReviewInv'
<1>1. ReviewTypeOK /\ ReviewTypeOK' /\ FactsMove
    BY DEF ReviewInv, FactsInv, Mutated
<1>2. ASSUME NEW q \in Reviewers
      PROVE  (tx[q] # None => SnapshotInv(tx[q]))'
    BY <1>1, OtherSnapshots DEF ReviewInv, Mutated
<1>3. (PagerInv /\ PagesAreComplete)'
    <2>1. dataVersion \in Nat /\ dataVersion' = dataVersion + 1 /\ pager' = pager
        BY <1>1 DEF ReviewTypeOK, Mutated
    <2>2. pager # None => pager.version \in Nat /\ pager.version <= dataVersion
        BY <1>1 DEF ReviewInv, PagerInv, ReviewTypeOK, Pager
    <2>3. pager' # None => pager'.version <= dataVersion' /\ pager'.version # dataVersion'
        BY <2>1, <2>2
    <2> QED
        BY <2>3 DEF PagerInv, PagesAreComplete, CursorIsOf
<1> QED
    BY <1>2, <1>3 DEF ReviewInv, Mutated

LEMMA KeptFacts ==
    ASSUME FactsInv, FactsKept, ReviewTypeOK'
    PROVE  FactsInv'
<1> USE DEF FactsKept
<1>1. RelationsInv'
    BY DEF FactsInv, RelationsInv, Rejected
<1>2. RejectionsInv'
    BY DEF FactsInv, RejectionsInv
<1>3. CompatInv'
    BY DEF FactsInv, CompatInv
<1> QED
    BY <1>1, <1>2, <1>3 DEF FactsInv

(* A step that leaves the facts and the pages alone. *)
LEMMA QuietKeeps ==
    ASSUME ReviewInv, FactsKept, ReviewTypeOK', ProjectionInv', pager' = pager,
           \A q \in Reviewers : tx'[q] \in {tx[q], None} \/ (tx'[q] # None => SnapshotInv(tx[q])')
    PROVE  ReviewInv'
<1>1. ReviewTypeOK /\ FactsInv
    BY DEF ReviewInv, FactsInv
<1>2. FactsInv'
    BY <1>1, KeptFacts
<1>3. ASSUME NEW q \in Reviewers
      PROVE  (tx[q] # None => SnapshotInv(tx[q]))'
    <2>1. CASE tx'[q] \in {tx[q], None}
        BY <1>1, <2>1, OtherSnapshots DEF ReviewInv
    <2>2. CASE tx'[q] # None => SnapshotInv(tx[q])'
        BY <2>2
    <2> QED
        BY <2>1, <2>2
<1>4. (PagerInv /\ PagesAreComplete)'
    <2>1. dataVersion \in Nat /\ dataVersion' \in {dataVersion, dataVersion + 1}
        BY <1>1 DEF ReviewTypeOK, FactsKept
    <2>2. pager # None => pager.version \in Nat /\ pager.version <= dataVersion
        BY <1>1 DEF ReviewInv, PagerInv, ReviewTypeOK, Pager
    <2>3. CASE dataVersion' = dataVersion + 1
        <3>1. pager' # None => pager'.version <= dataVersion' /\ pager'.version # dataVersion'
            BY <2>1, <2>2, <2>3
        <3> QED
            BY <3>1 DEF PagerInv, PagesAreComplete, CursorIsOf
    <2>4. CASE dataVersion' = dataVersion
        <3>1. Committed' = Committed
            BY DEF Committed, FactsKept
        <3>2. PagesAreComplete'
            <4>1. PICK c : c = Committed
                OBVIOUS
            <4>2. c = Committed'
                BY <3>1, <4>1
            <4>3. PagesAreComplete
                BY DEF ReviewInv
            <4> QED
                BY <2>4, <4>1, <4>2, <4>3 DEF PagesAreComplete, CursorIsOf
        <3> QED
            BY <2>2, <2>4, <3>2 DEF PagerInv
    <2> QED
        BY <2>1, <2>3, <2>4
<1> QED
    BY <1>2, <1>3, <1>4 DEF ReviewInv

(* The projection stays exact while facts, rows and marker stay. *)
LEMMA ProjectionStays ==
    ASSUME ProjectionInv, UNCHANGED <<links, records, compat, rows, dataVersion, isCurrent>>,
           fileStateVersion' = fileStateVersion
    PROVE  ProjectionInv'
<1>1. PICK c : c = Committed
    OBVIOUS
<1>2. c = Committed'
    BY <1>1 DEF Committed
<1> QED
    BY <1>1, <1>2 DEF ProjectionInv

LEMMA BeginKeeps ==
    ASSUME ReviewInv, NEW r \in Reviewers, Begin(r)
    PROVE  ReviewInv'
<1>1. ReviewTypeOK /\ FactsInv /\ ProjectionInv /\ RelationsInv
    BY DEF ReviewInv, FactsInv
<1>2. PICK t : t = [links |-> links, records |-> records, compat |-> compat,
                    rejections |-> rejections, rows |-> rows, version |-> dataVersion,
                    stale |-> FALSE]
    OBVIOUS
<1>3. /\ tx' = [tx EXCEPT ![r] = t]
      /\ UNCHANGED <<links, records, compat, rejections, decisions, rows, dataVersion,
                     fileStateVersion, isCurrent, pager, undone>>
    BY <1>2 DEF Begin, facts
<1>4. t \in Snapshot
    BY <1>1, <1>2 DEF Snapshot, ReviewTypeOK
<1>5. ReviewTypeOK' /\ tx'[r] = t /\ \A q \in Reviewers \ {r} : tx'[q] = tx[q]
    BY <1>1, <1>3, <1>4 DEF ReviewTypeOK
<1>6. FactsKept
    BY <1>3 DEF FactsKept
<1>7. SnapshotInv(t)
    <2>1. dataVersion \in Nat /\ t.version <= dataVersion
        BY <1>1, <1>2 DEF ReviewTypeOK
    <2>2. \A f \in Files : t.rows[f].version <= t.version
        BY <1>1, <1>2 DEF ProjectionInv
    <2>3. t.links = links /\ t.records = records /\ t.compat = compat
        BY <1>2
    <2>4. \A l \in Lines : links[l].revision <= links[l].revision
        <3>1. \A l \in Lines : links[l] \in Link
            BY <1>1 DEF ReviewTypeOK
        <3> QED
            BY <3>1 DEF Link
    <2>5. \A l \in Lines : links[l].active => links[l].record \in DOMAIN records
        BY <1>1 DEF RelationsInv
    <2>6. \A k \in DOMAIN records : records[k].revision <= records[k].revision
        BY <1>1, RecordRevisions
    <2> QED
        BY <2>1, <2>2, <2>3, <2>4, <2>5, <2>6 DEF SnapshotInv
<1>8. SnapshotInv(tx[r])'
    <2>1. SnapshotInv(t)'
        BY <1>1, <1>4, <1>6, <1>7, SnapshotStays
    <2> QED
        BY <1>5, <2>1 DEF SnapshotInv
<1>9. ProjectionInv'
    BY <1>1, <1>3, ProjectionStays
<1>10. \A q \in Reviewers : tx'[q] \in {tx[q], None} \/ (tx'[q] # None => SnapshotInv(tx[q])')
    BY <1>5, <1>8
<1> QED
    BY <1>3, <1>5, <1>6, <1>9, <1>10, QuietKeeps

LEMMA RebuildKeeps ==
    ASSUME ReviewInv, NEW r \in Reviewers, Rebuild(r)
    PROVE  ReviewInv'
<1>1. ReviewTypeOK /\ ProjectionInv
    BY DEF ReviewInv, FactsInv
<1>2. /\ rows' = [f \in Files |-> [version |-> dataVersion, summary |-> Summary(Committed, {f})]]
      /\ fileStateVersion' = dataVersion /\ tx' = [tx EXCEPT ![r] = None]
      /\ UNCHANGED <<links, records, compat, rejections, decisions, dataVersion,
                     isCurrent, pager, undone>>
    BY DEF Rebuild, RebuildScan, RebuildFile, facts
<1>3. rows' \in FileStates
    BY <1>1, <1>2, SummaryType DEF FileStates, ReviewTypeOK
<1>4. ReviewTypeOK' /\ \A q \in Reviewers : tx'[q] \in {tx[q], None}
    BY <1>1, <1>2, <1>3 DEF ReviewTypeOK
<1>5. ProjectionInv'
    <2>1. PICK c : c = Committed
        OBVIOUS
    <2>2. c = Committed'
        BY <1>2, <2>1 DEF Committed
    <2>3. dataVersion \in Nat
        BY <1>1 DEF ReviewTypeOK
    <2>4. \A f \in Files : rows'[f].version = dataVersion /\ rows'[f].summary = Summary(c, {f})
        BY <1>2, <2>1
    <2> QED
        BY <1>2, <2>2, <2>3, <2>4 DEF ProjectionInv
<1>6. FactsKept
    BY <1>2 DEF FactsKept
<1> QED
    BY <1>2, <1>4, <1>5, <1>6, QuietKeeps

(* Abort, a failed rebuild, invalidation and the move of CURRENT. *)
LEMMA OthersKeep ==
    ASSUME ReviewInv,
           Supersede \/ \E r \in Reviewers : Abort(r) \/ RebuildFails(r) \/ Invalidate(r)
    PROVE  ReviewInv'
<1>1. ReviewTypeOK /\ ProjectionInv /\ dataVersion \in Nat /\ dataVersion > 0
    BY DEF ReviewInv, FactsInv, ReviewTypeOK
<1>2. ASSUME NEW r \in Reviewers, Abort(r)
      PROVE  ReviewInv'
    <2>1. /\ tx' = [tx EXCEPT ![r] = None]
          /\ UNCHANGED <<links, records, compat, rejections, decisions, rows, dataVersion,
                         fileStateVersion, isCurrent, pager, undone>>
        BY <1>2 DEF Abort, facts
    <2>2. ReviewTypeOK' /\ \A q \in Reviewers : tx'[q] \in {tx[q], None}
        BY <1>1, <2>1 DEF ReviewTypeOK
    <2>3. FactsKept
        BY <2>1 DEF FactsKept
    <2>4. ProjectionInv'
        BY <1>1, <2>1, ProjectionStays
    <2> QED
        BY <2>1, <2>2, <2>3, <2>4, QuietKeeps
<1>3. ASSUME NEW r \in Reviewers, RebuildFails(r)
      PROVE  ReviewInv'
    <2>1. PICK t : t = [tx[r] EXCEPT !.stale = TRUE]
        OBVIOUS
    <2>2. /\ tx[r] # None
          /\ UNCHANGED <<links, records, compat, rejections, decisions, rows, dataVersion,
                         fileStateVersion, isCurrent, pager, undone>>
        BY <1>3 DEF RebuildFails, Open, facts
    <2>3. tx \in [Reviewers -> Snapshot \cup {None}]
        BY <1>1 DEF ReviewTypeOK
    <2>4. tx' = [tx EXCEPT ![r] = t]
        BY <1>3, <2>1, <2>3 DEF RebuildFails
    <2>5. tx[r] \in Snapshot
        BY <2>2, <2>3
    <2>6. /\ t \in Snapshot /\ t.links = tx[r].links /\ t.records = tx[r].records
          /\ t.compat = tx[r].compat /\ t.rows = tx[r].rows /\ t.version = tx[r].version
        BY <2>1, <2>5 DEF Snapshot
    <2>7. SnapshotInv(t)
        <3>1. SnapshotInv(tx[r])
            BY <2>2 DEF ReviewInv
        <3> QED
            BY <2>6, <3>1 DEF SnapshotInv
    <2>8. FactsKept
        BY <2>2 DEF FactsKept
    <2>9. ReviewTypeOK' /\ tx'[r] = t /\ \A q \in Reviewers \ {r} : tx'[q] = tx[q]
        BY <1>1, <2>2, <2>3, <2>4, <2>6 DEF ReviewTypeOK
    <2>10. SnapshotInv(tx[r])'
        <3>1. SnapshotInv(t)'
            BY <1>1, <2>6, <2>7, <2>8, SnapshotStays
        <3> QED
            BY <2>9, <3>1 DEF SnapshotInv
    <2>11. ProjectionInv'
        BY <1>1, <2>2, ProjectionStays
    <2>12. \A q \in Reviewers : tx'[q] \in {tx[q], None} \/ (tx'[q] # None => SnapshotInv(tx[q])')
        BY <2>9, <2>10
    <2> QED
        BY <2>2, <2>8, <2>9, <2>11, <2>12, QuietKeeps
<1>4. ASSUME NEW r \in Reviewers, Invalidate(r)
      PROVE  ReviewInv'
    <2>1. /\ tx' = [tx EXCEPT ![r] = None] /\ fileStateVersion' = 0
          /\ UNCHANGED <<links, records, compat, rejections, decisions, rows, dataVersion,
                         isCurrent, pager, undone>>
        BY <1>4 DEF Invalidate, facts
    <2>2. ReviewTypeOK' /\ \A q \in Reviewers : tx'[q] \in {tx[q], None}
        BY <1>1, <2>1 DEF ReviewTypeOK
    <2>3. FactsKept
        BY <2>1 DEF FactsKept
    <2>4. ProjectionInv'
        BY <1>1, <2>1 DEF ProjectionInv
    <2> QED
        BY <2>1, <2>2, <2>3, <2>4, QuietKeeps
<1>5. ASSUME Supersede
      PROVE  ReviewInv'
    <2>1. /\ dataVersion' = dataVersion + 1 /\ fileStateVersion' = dataVersion + 1
          /\ isCurrent' = FALSE
          /\ UNCHANGED <<links, records, compat, rejections, decisions, rows, tx, pager, undone>>
        BY <1>5 DEF Supersede, facts
    <2>2. ReviewTypeOK' /\ \A q \in Reviewers : tx'[q] \in {tx[q], None}
        <3>1. dataVersion' \in Nat \ {0} /\ fileStateVersion' \in Nat /\ isCurrent' \in BOOLEAN
            <4>1. dataVersion + 1 \in Nat \ {0} /\ dataVersion + 1 \in Nat
                BY <1>1
            <4>2. isCurrent' \in BOOLEAN
                BY <2>1
            <4> QED
                BY <2>1, <4>1, <4>2
        <3> QED
            BY <1>1, <2>1, <3>1 DEF ReviewTypeOK
    <2>3. FactsKept
        BY <2>1 DEF FactsKept
    <2>4. ProjectionInv'
        <3>1. \A f \in Files : rows[f].version \in Nat /\ rows[f].version <= dataVersion
            BY <1>1 DEF ProjectionInv, ReviewTypeOK, FileStates
        <3>2. \A f \in Files : rows[f].version <= dataVersion + 1
            BY <1>1, <3>1
        <3> QED
            BY <1>1, <2>1, <3>2 DEF ProjectionInv
    <2> QED
        BY <2>1, <2>2, <2>3, <2>4, QuietKeeps
<1> QED
    BY <1>2, <1>3, <1>4, <1>5

LEMMA ReadersKeep ==
    ASSUME ReviewInv, NextPage \/ \E file \in PagedFiles : FirstPage(file)
    PROVE  ReviewInv'
<1>1. ReviewTypeOK /\ FactsInv /\ ProjectionInv
    BY DEF ReviewInv, FactsInv
<1>2. UNCHANGED <<links, records, compat, rejections, decisions, rows, dataVersion,
                  fileStateVersion, isCurrent, tx, undone>>
    BY DEF NextPage, FirstPage, facts
<1>3. PICK c : c = Committed
    OBVIOUS
<1>4. pager' \in Pager /\ (PagerInv /\ PagesAreComplete)'
    <2>1. ASSUME NEW file \in PagedFiles, FirstPage(file)
          PROVE  pager' \in Pager /\ (PagerInv /\ PagesAreComplete)'
        <3>1. PICK seen : seen = {n \in {NumberOf[l] : l \in PendingOf(Committed, {file})} : n <= 0}
            OBVIOUS
        <3>2. PICK P : P = {NumberOf[l] : l \in PendingOf(Committed, {file})}
            OBVIOUS
        <3>3. P \in SUBSET (Nat \ {0})
            <4>1. PICK files : files = {file}
                OBVIOUS
            <4>2. P = {NumberOf[l] : l \in PendingOf(c, files)}
                BY <1>3, <3>2, <4>1
            <4>3. \A Q : Q = {NumberOf[l] : l \in PendingOf(c, files)} => Q \in SUBSET (Nat \ {0})
                BY PendingNumbers
            <4> QED
                BY <4>2, <4>3
        <3>4. seen = {}
            <4>1. \A n \in P : ~(n <= 0)
                BY <3>3
            <4> QED
                BY <3>1, <3>2, <4>1
        <3>5. Serve(file, 0, seen)
            BY <2>1, <3>4 DEF FirstPage
        <3>6. file \in Files /\ 0 \in Nat
            BY ReviewConstants
        <3> QED
            BY <1>1, <1>2, <3>1, <3>5, <3>6, ServeIsExact
    <2>2. ASSUME NextPage
          PROVE  pager' \in Pager /\ (PagerInv /\ PagesAreComplete)'
        <3>1. /\ pager # None /\ pager.version = dataVersion
              /\ Serve(pager.file, pager.last, pager.seen)
            BY <2>2 DEF NextPage, CursorFresh, CursorIsOf
        <3>2. pager \in Pager
            BY <1>1, <3>1 DEF ReviewTypeOK
        <3>3. PICK file : file = pager.file
            OBVIOUS
        <3>4. PICK after : after = pager.last
            OBVIOUS
        <3>5. PICK seen : seen = pager.seen
            OBVIOUS
        <3>6. file \in Files /\ after \in Nat /\ Serve(file, after, seen)
            BY <3>1, <3>2, <3>3, <3>4, <3>5 DEF Pager
        <3>7. seen = {n \in {NumberOf[l] : l \in PendingOf(Committed, {file})} : n <= after}
            BY <3>1, <3>3, <3>4, <3>5 DEF ReviewInv, PagesAreComplete, CursorIsOf
        <3> QED
            BY <1>1, <1>2, <3>6, <3>7, ServeIsExact
    <2> QED
        BY <2>1, <2>2
<1>5. ReviewTypeOK'
    BY <1>1, <1>2, <1>4 DEF ReviewTypeOK
<1>6. FactsKept
    BY <1>2 DEF FactsKept
<1>7. FactsInv'
    BY <1>1, <1>5, <1>6, KeptFacts
<1>8. ProjectionInv'
    BY <1>1, <1>2, ProjectionStays
<1>9. ASSUME NEW q \in Reviewers
      PROVE  (tx[q] # None => SnapshotInv(tx[q]))'
    BY <1>1, <1>2, <1>5, <1>6, OtherSnapshots DEF ReviewInv
<1> QED
    BY <1>4, <1>7, <1>8, <1>9 DEF ReviewInv

LEMMA ReviewStepKeeps ==
    ASSUME ReviewInv, [Next]_vars
    PROVE  ReviewInv'
<1>1. FactsInv /\ ProjectionInv /\ ReviewTypeOK
    BY DEF ReviewInv, FactsInv
<1>2. ASSUME NEW r \in Reviewers, SaveSome(r) \/ ConfirmSome(r) \/ RejectSome(r) \/ UndoSome(r)
      PROVE  ReviewInv'
    <2>1. tx[r] # None
        BY <1>2 DEF SaveSome, ConfirmSome, RejectSome, UndoSome, Save, Confirm, Reject, Undo, Open
    <2>2. SnapshotInv(tx[r])
        BY <2>1 DEF ReviewInv
    <2>3. CASE SaveSome(r)
        <3>1. PICK selected \in Selections, status \in Statuses, draft \in BOOLEAN,
                   record \in {0} \cup DOMAIN records : Save(r, selected, record, status, draft)
            BY <2>3 DEF SaveSome
        <3>2. Mutated
            BY <1>1, <2>1, <2>2, <3>1, SaveMutates
        <3> QED
            BY <3>2, MutationKeeps
    <2>4. CASE ConfirmSome(r)
        <3>1. PICK selected \in Selections : Confirm(r, selected)
            BY <2>4 DEF ConfirmSome
        <3>2. Mutated
            BY <1>1, <2>1, <2>2, <3>1, ConfirmMutates
        <3> QED
            BY <3>2, MutationKeeps
    <2>5. CASE RejectSome(r)
        <3>1. PICK l \in Lines : Reject(r, l)
            BY <2>5 DEF RejectSome
        <3>2. Mutated
            BY <1>1, <2>1, <2>2, <3>1, RejectMutates
        <3> QED
            BY <3>2, MutationKeeps
    <2>6. CASE UndoSome(r)
        <3>1. PICK k \in DOMAIN rejections : Undo(r, k)
            BY <2>6 DEF UndoSome
        <3>2. Mutated
            BY <1>1, <2>1, <2>2, <3>1, UndoMutates
        <3> QED
            BY <3>2, MutationKeeps
    <2> QED
        BY <1>2, <2>3, <2>4, <2>5, <2>6
<1>3. ASSUME NEW r \in Reviewers,
             Begin(r) \/ Rebuild(r) \/ Abort(r) \/ RebuildFails(r) \/ Invalidate(r)
      PROVE  ReviewInv'
    BY <1>3, BeginKeeps, RebuildKeeps, OthersKeep
<1>4. ASSUME Supersede \/ NextPage \/ \E f \in PagedFiles : FirstPage(f)
      PROVE  ReviewInv'
    BY <1>4, OthersKeep, ReadersKeep
<1>5. ASSUME UNCHANGED vars
      PROVE  ReviewInv'
    <2>1. /\ UNCHANGED <<links, records, compat, rows, dataVersion, isCurrent>>
          /\ fileStateVersion' = fileStateVersion /\ pager' = pager /\ tx' = tx
          /\ UNCHANGED <<rejections, decisions, undone>>
        BY <1>5 DEF vars
    <2>2. ReviewTypeOK'
        BY <1>1, <2>1 DEF ReviewTypeOK
    <2>3. FactsKept
        BY <2>1 DEF FactsKept
    <2>4. ProjectionInv'
        BY <1>1, <2>1, ProjectionStays
    <2>5. \A q \in Reviewers : tx'[q] \in {tx[q], None}
        BY <2>1
    <2> QED
        BY <2>1, <2>2, <2>3, <2>4, <2>5, QuietKeeps
<1>6. CASE Next
    BY <1>2, <1>3, <1>4, <1>6 DEF Next
<1>7. CASE UNCHANGED vars
    BY <1>5, <1>7
<1> QED
    BY <1>6, <1>7

(* The rows of a review agree at all times, for any reviewers, lines,      *)
(* files, selections and number of mutations.                              *)
THEOREM ReviewIsInductive == Spec => []ReviewInv
<1>1. Init => ReviewInv
    BY ReviewInitFacts
<1>2. ReviewInv /\ [Next]_vars => ReviewInv'
    BY ReviewStepKeeps
<1> QED
    BY <1>1, <1>2, PTL DEF Spec

(* Rows, snapshots and cursors are well-formed. *)
THEOREM ReviewTypes == Spec => []ReviewTypeOK
<1>1. ReviewInv => ReviewTypeOK
    BY DEF ReviewInv, FactsInv
<1> QED
    BY <1>1, ReviewIsInductive, PTL

LEMMA ExactProjection ==
    ASSUME ReviewInv
    PROVE  ProjectionIsExact
<1> SUFFICES ASSUME isCurrent, NEW derived \in {DerivedGate}
             PROVE  /\ fileStateVersion = dataVersion => FilesPage(TRUE) = FilesPage(FALSE)
                    /\ \A totals \in {FilesPage(derived)} :
                        /\ totals = FilesPage(FALSE)
                        /\ Unanalyzed(totals) = {f \in Files : PendingOf(Committed, {f}) # {}}
                    /\ \A summary \in {ProgressSummary(derived)} :
                        /\ \A page \in {PendingPage(summary)} : page.total = Cardinality(page.rows)
                        /\ summary.inherited = Cardinality(InheritanceQueue \ Covered)
    BY Zenon DEF ProjectionIsExact
<1>1. ReviewTypeOK /\ RelationsInv /\ ProjectionInv
    BY DEF ReviewInv, FactsInv
<1>2. fileStateVersion = dataVersion => FilesPage(TRUE) = FilesPage(FALSE)
    BY <1>1 DEF ProjectionInv, FilesPage, FileTotals
<1>3. \/ derived = FALSE
      \/ /\ derived = TRUE /\ fileStateVersion = dataVersion
         /\ ScanAggregate = Summary(Committed, Files)
    BY DEF DerivedGate
<1>4. FilesPage(derived) = FilesPage(FALSE)
    BY <1>2, <1>3
<1>5. ProgressSummary(derived) = Summary(Committed, Files)
    BY <1>3 DEF ProgressSummary
<1>6. Unanalyzed(FilesPage(FALSE)) = {f \in Files : PendingOf(Committed, {f}) # {}}
    <2>1. ASSUME NEW f \in Files
          PROVE  FilesPage(FALSE)[f].pending > 0 <=> PendingOf(Committed, {f}) # {}
        <3>1. PICK S : S = PendingOf(Committed, {f})
            OBVIOUS
        <3>2. FilesPage(FALSE)[f].pending = Cardinality(S)
            BY <3>1 DEF FilesPage, FileTotals, Summary
        <3>3. S \in SUBSET Lines
            BY <3>1 DEF PendingOf, UncoveredOf, LinesOf
        <3>4. IsFiniteSet(S) /\ Cardinality(S) \in Nat
            BY <3>3, LinesAreFinite
        <3>5. Cardinality(S) = 0 <=> S = {}
            BY <3>4, FS_EmptySet
        <3>6. Cardinality(S) > 0 <=> S # {}
            BY <3>4, <3>5
        <3> QED
            BY <3>1, <3>2, <3>6
    <2> QED
        BY <2>1 DEF Unanalyzed
<1>7. InheritedPending(Committed, Files) = InheritanceQueue \ Covered
    <2>1. ASSUME NEW l \in Lines, links[l].active, links[l].state = "INHERITED_PENDING"
          PROVE  l \in decisions
        BY <1>1, <2>1 DEF RelationsInv, Inherited
    <2>2. \A l \in Lines : FileOf[l] \in Files
        BY ReviewConstants
    <2>3. UncoveredOf(Files) = Lines \ Covered
        BY <2>2 DEF UncoveredOf, LinesOf
    <2>4. decisions \subseteq Lines
        BY <1>1 DEF ReviewTypeOK
    <2> QED
        BY <2>1, <2>3, <2>4 DEF InheritedPending, InheritanceQueue, Committed
<1>8. /\ Summary(Committed, Files).pending = Cardinality(PendingOf(Committed, Files))
      /\ Summary(Committed, Files).inherited = Cardinality(InheritedPending(Committed, Files))
    BY DEF Summary
<1>9. ASSUME NEW summary \in {ProgressSummary(derived)}
      PROVE  /\ \A page \in {PendingPage(summary)} : page.total = Cardinality(page.rows)
             /\ summary.inherited = Cardinality(InheritanceQueue \ Covered)
    BY <1>5, <1>7, <1>8 DEF PendingPage
<1> QED
    BY <1>2, <1>4, <1>6, <1>9

LEMMA AuditIsClean ==
    ASSUME ReviewInv
    PROVE  AuditHolds
<1>1. ReviewTypeOK /\ RelationsInv /\ RejectionsInv
    BY DEF ReviewInv, FactsInv
<1>2. \A l \in Lines : links[l] \in Link
    BY <1>1 DEF ReviewTypeOK
<1>3. AuditConsistency
    <2>1. \A l \in Lines : links[l].state \in States
        BY <1>2 DEF Link
    <2> QED
        BY <1>1, <2>1 DEF AuditConsistency, RelationsInv, RejectionsInv
<1>4. ASSUME NEW l \in decisions
      PROVE  Rejected(l) <=> InheritanceRelation(l) = None
    <2>1. l \in Lines /\ links[l].revision > 0
        BY <1>1 DEF RelationsInv, ReviewTypeOK
    <2>2. Rejected(l) <=> ~links[l].active
        BY <1>1, <2>1 DEF RelationsInv, RejectionsInv, Rejected
    <2>3. links[l] # None
        BY <1>2, <2>1, ReviewNone
    <2> QED
        BY <2>2, <2>3 DEF InheritanceRelation
<1> QED
    BY <1>1, <1>3, <1>4 DEF AuditHolds, RelationsInv

LEMMA ViewsAreEqual ==
    ASSUME ReviewInv
    PROVE  ViewsAgree
<1>1. ReviewTypeOK /\ RelationsInv /\ RejectionsInv /\ CompatInv
    BY DEF ReviewInv, FactsInv
<1>2. ASSUME NEW f \in Files, NEW l \in UncoveredOf({f})
      PROVE  /\ OverlayConfirmed(f, l) <=> Confirmed(Committed, l)
             /\ OverlayConfirmed(f, l) <=> DetailConfirmed(l)
    <2>1. l \in LinesOf({f}) /\ l \in Lines
        BY DEF UncoveredOf, LinesOf
    <2>2. compat[l] # None => links[l].active
        BY <1>1, <2>1 DEF CompatInv
    <2>3. Rejected(l) => ~links[l].active
        BY <1>1 DEF Rejected, RejectionsInv
    <2>4. CASE links[l].active
        <3>1. l \in DomainRows(f)
            BY <2>1, <2>4 DEF DomainRows
        <3> DEFINE manual == /\ records[links[l].record].status = "cover"
                             /\ links[l].state \notin {"MANUAL_DRAFT", "INHERITED_PENDING"}
        <3>2. OverlayConfirmed(f, l) <=> manual
            BY <2>4, <3>1 DEF OverlayConfirmed
        <3>3. DetailConfirmed(l) <=> manual
            BY <2>3, <2>4 DEF DetailConfirmed
        <3>4. Confirmed(Committed, l) <=> manual
            BY <2>4 DEF Confirmed, Status, Draft, Committed
        <3> QED
            BY <3>2, <3>3, <3>4
    <2>5. CASE ~links[l].active
        <3>1. compat[l] = None
            BY <2>2, <2>5
        <3>2. ~OverlayConfirmed(f, l)
            <4>1. l \in DomainRows(f) => Rejected(l)
                BY <2>5 DEF DomainRows
            <4> QED
                BY <2>5, <3>1, <4>1 DEF OverlayConfirmed
        <3>3. ~DetailConfirmed(l)
            BY <2>5, <3>1 DEF DetailConfirmed
        <3>4. ~Confirmed(Committed, l)
            BY <2>5, <3>1 DEF Confirmed, Status, Committed
        <3> QED
            BY <3>2, <3>3, <3>4
    <2> QED
        BY <2>4, <2>5
<1>3. ASSUME NEW f \in Files
      PROVE  /\ LayoutPending(f) = PendingOf(Committed, {f})
             /\ LayoutPending(f) = {l \in UncoveredOf({f}) : ~DetailConfirmed(l)}
    BY <1>2 DEF LayoutPending, PendingOf
<1> QED
    BY <1>3 DEF ViewsAgree

(* RowsAgree: a projection marked ready is what the committed facts give,  *)
(* both sources of the progress pages answer the same, the audit of the    *)
(* domain passes with its converse, and the layout, the detail page and    *)
(* the projection call the same lines pending, whatever rows each reads.   *)
(* Save, confirm, reject, undo, rebuild and invalidate race, each on a     *)
(* snapshot taken before the lock.                                         *)
THEOREM RowsAlwaysAgree == Spec => []RowsAgree
<1>1. ReviewInv => RowsAgree
    BY ExactProjection, AuditIsClean, ViewsAreEqual DEF RowsAgree
<1> QED
    BY <1>1, ReviewIsInductive, PTL

(* PagesAreComplete: what a client collected under one data version is the *)
(* pending lines up to the last one served, and all of them at the end,    *)
(* for any page size and any commits of reviewers between two pages.       *)
THEOREM PagesAlwaysComplete == Spec => []PagesAreComplete
<1>1. ReviewInv => PagesAreComplete
    BY DEF ReviewInv
<1> QED
    BY <1>1, ReviewIsInductive, PTL

LEMMA ContentIsCovered ==
    ASSUME ReviewInv, [Next]_vars, NEW l \in Lines \ undone, links[l].active, links'[l] = links[l]
    PROVE  Shown(l)' = Shown(l)
<1>1. FactsInv /\ ProjectionInv
    BY DEF ReviewInv
<1>2. CASE records' = records
    BY <1>2 DEF Shown
<1>3. ASSUME NEW r \in Reviewers, SaveSome(r)
      PROVE  Shown(l)' = Shown(l)
    <2>1. tx[r] # None
        BY <1>3 DEF SaveSome, Save, Open
    <2>2. SnapshotInv(tx[r])
        BY <2>1 DEF ReviewInv
    <2>3. PICK selected \in Selections, status \in Statuses, draft \in BOOLEAN,
               record \in {0} \cup DOMAIN records : Save(r, selected, record, status, draft)
        BY <1>3 DEF SaveSome
    <2> QED
        BY <1>1, <2>1, <2>2, <2>3, SaveCovers
<1>4. ASSUME NEW r \in Reviewers, ConfirmSome(r) \/ RejectSome(r) \/ UndoSome(r)
      PROVE  records' = records
    BY <1>4 DEF ConfirmSome, RejectSome, UndoSome, Confirm, Reject, Undo, Publish, WithLinks
<1>5. ASSUME NEW r \in Reviewers,
             Begin(r) \/ Rebuild(r) \/ Abort(r) \/ RebuildFails(r) \/ Invalidate(r)
      PROVE  records' = records
    BY <1>5 DEF Begin, Rebuild, Abort, RebuildFails, Invalidate, facts
<1>6. ASSUME Supersede \/ NextPage \/ (\E f \in PagedFiles : FirstPage(f)) \/ UNCHANGED vars
      PROVE  records' = records
    BY <1>6 DEF Supersede, NextPage, FirstPage, facts, vars
<1> QED
    BY <1>2, <1>3, <1>4, <1>5, <1>6 DEF Next

(* RevisionCoversContent: a step that leaves an active relation alone      *)
(* leaves the content behind it, so the revision a reviewer confirms is    *)
(* the content that was displayed.                                         *)
THEOREM RevisionsCoverContent == Spec => RevisionCoversContent
<1>1. ReviewInv /\ [Next]_vars =>
        [\A l \in Lines \ undone :
            links[l].active /\ links'[l] = links[l] => Shown(l)' = Shown(l)]_vars
    BY ContentIsCovered
<1> QED
    BY <1>1, ReviewIsInductive, PTL DEF Spec, RevisionCoversContent
=============================================================================
