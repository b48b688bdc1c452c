------------------------------ MODULE VNextFacts ------------------------------
(***************************************************************************)
(* scripts/upgrade/existing_vnext_upgrade.py, the fact snapshot: what two   *)
(* VNext databases must agree on before and after a migration.  Physical    *)
(* ids are dropped and every foreign key is replaced by the stable identity *)
(* of the row it refers to, so a restored copy compares equal even when its *)
(* ids were allocated differently.  A hash is the value it is taken of.     *)
(*                                                                         *)
(* A database is a record of tables, a table a function from the ids it     *)
(* holds to rows.  Tables that only differ in which of these references     *)
(* they carry (blocks and groups, decisions and rejections, the tables that *)
(* hang off a scan) are represented by one of them.                         *)
(***************************************************************************)
EXTENDS Naturals, FiniteSets

CONSTANTS Ids, SourceLines, Nil

(* Nil is nobody who creates a database, no contents of a dump, no scan and  *)
(* no state of the ledger; 0 is the NULL of a reference and no id.          *)
ASSUME NilAssumption ==
    Nil \notin {"run", "operator", "rehearsal", "production", "fixture", "newer", "s", "APPLIED"}
ASSUME IdsAssumption == 0 \notin Ids

Tables == {"scan", "record", "block", "link", "rejection", "report"}

(* _required_ref: a reference to a row that is not there is an error. *)
Refers(db, table, id) == id \in DOMAIN db[table]

Whole(db) ==
    /\ \A b \in DOMAIN db.block : Refers(db, "record", db.block[b].record)
    /\ \A k \in DOMAIN db.link :
           /\ Refers(db, "scan", db.link[k].scan)
           /\ Refers(db, "record", db.link[k].record)
           /\ Refers(db, "block", db.link[k].block)
           /\ db.link[k].origin # 0 => Refers(db, "link", db.link[k].origin)
    /\ \A j \in DOMAIN db.rejection : Refers(db, "link", db.rejection[j])
    /\ \A r \in DOMAIN db.report : Refers(db, "scan", db.report[r].scan)
    /\ db.current # 0 => Refers(db, "scan", db.current)

(* Components are sorted lists of records: a row held twice counts twice.   *)
Multiset(fact) ==
    [f \in {fact[i] : i \in DOMAIN fact} |-> Cardinality({i \in DOMAIN fact : fact[i] = f})]

(* Projects, repositories, scans, files and lines have a stable key. *)
ScanIdentity(db, id) == IF id = 0 THEN Nil ELSE db.scan[id]

(* Records (and compatibility analyses) are identified by their content. *)
RecordKey(db, id) == db.record[id]

(* Blocks and inheritance groups: their content, and what they rest on. *)
BlockKey(db, id) == <<db.block[id].lines, RecordKey(db, db.block[id].record)>>

(* A link's own key leaves out the link it was inherited from, so that the  *)
(* identity of a chain of links does not recurse.                           *)
LinkKey(db, id) ==
    LET k == db.link[id]
    IN  <<ScanIdentity(db, k.scan), k.line, RecordKey(db, k.record), BlockKey(db, k.block)>>

(* Mutant: the relation a link was inherited from is not part of its fact. *)
LinkFactAlone(db, id) == <<LinkKey(db, id), Nil>>

LinkFact(db, id) ==
    LET from == db.link[id].origin
    IN  <<LinkKey(db, id), IF from = 0 THEN Nil ELSE LinkKey(db, from)>>

(* Decisions and rejections refer to links by the links' keys. *)
RejectionFact(db, id) == LinkKey(db, db.rejection[id])

(* The projection's version and the time of the last change are left out. *)
StateFact(db) == <<db.version, ScanIdentity(db, db.current)>>

(* Reports, jobs, locks, checkpoints and provenance hang off a scan or a    *)
(* line; columns the migration itself adds are no facts.                    *)
ReportFact(db, id) == ScanIdentity(db, db.report[id].scan)

FactSnapshot(db) ==
    [scans |-> Multiset([i \in DOMAIN db.scan |-> ScanIdentity(db, i)]),
     records |-> Multiset([i \in DOMAIN db.record |-> RecordKey(db, i)]),
     blocks |-> Multiset([i \in DOMAIN db.block |-> BlockKey(db, i)]),
     links |-> Multiset([i \in DOMAIN db.link |-> LinkFact(db, i)]),
     rejections |-> Multiset([i \in DOMAIN db.rejection |-> RejectionFact(db, i)]),
     reports |-> Multiset([i \in DOMAIN db.report |-> ReportFact(db, i)]),
     state |-> StateFact(db)]

(* compare_vnext_authoritative_facts: component by component. *)
SameFacts(a, b) ==
    LET left == FactSnapshot(a)
        right == FactSnapshot(b)
    IN  \A c \in DOMAIN left : left[c] = right[c]

------------------------------------------------------------------------------
(* The reference the snapshot is held against: one database is the other    *)
(* with its ids renamed.                                                    *)
Renamings == {p \in [Ids -> Ids] : \A i, j \in Ids : p[i] = p[j] => i = j}

RenameId(p, i) == IF i = 0 THEN 0 ELSE p[i]

RenameTable(p, table, Row(_)) ==
    [n \in {p[i] : i \in DOMAIN table} |->
        Row(table[CHOOSE i \in DOMAIN table : p[i] = n])]

(* The references of a row follow. *)
RenameBlock(p, r) == [r EXCEPT !.record = p[r.record]]

RenameLink(p, r) ==
    [r EXCEPT !.scan = p[r.scan], !.record = p[r.record], !.block = p[r.block],
              !.origin = RenameId(p, r.origin)]

RenameReport(p, r) == [r EXCEPT !.scan = p[r.scan]]

Renamed(p, db) ==
    [db EXCEPT
        !.scan = RenameTable(p, @, LAMBDA r : r),
        !.record = RenameTable(p, @, LAMBDA r : r),
        !.block = RenameTable(p, @, LAMBDA r : RenameBlock(p, r)),
        !.link = RenameTable(p, @, LAMBDA r : RenameLink(p, r)),
        !.rejection = RenameTable(p, @, LAMBDA r : p[r]),
        !.report = RenameTable(p, @, LAMBDA r : RenameReport(p, r)),
        !.current = RenameId(p, @)]

(* What a migration may not change. *)
Authoritative(db) ==
    <<db.scan, db.record, db.block, db.link, db.rejection, db.version, db.current,
      [r \in DOMAIN db.report |-> db.report[r].scan]>>

Isomorphic(a, b) ==
    \E p \in Renamings : Authoritative(Renamed(p, a)) = Authoritative(b)
==============================================================================
