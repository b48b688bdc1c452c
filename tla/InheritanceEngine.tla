-------------------------- MODULE InheritanceEngine --------------------------
(***************************************************************************)
(* One inheritance run of a Candidate Scan (app/inheritance/engine.py,     *)
(* InheritanceEngine.run) over the line maps of LineMap and the dependency *)
(* indexes of SourceIndex.                                                 *)
(*                                                                         *)
(* The run walks the predecessor's files that carry analysis relations in  *)
(* id order.  It opens a file's two Git snapshots, maps every relation to  *)
(* a candidate line, compares the two lines with their function, contexts  *)
(* and dependencies, and clones the relation's record onto the candidate   *)
(* line.  It ends by deciding every uncovered candidate line no relation   *)
(* reached.  The whole run is one transaction: a failure leaves nothing.   *)
(*                                                                         *)
(* A line of a text is [tok, sp, fn, ctl, pp, deps]: tokens, spelling, the *)
(* one function whose range holds it (or None), its control and            *)
(* preprocessor contexts and the sequence of symbols it depends on, as the *)
(* parser reports them.  A relation is [line, record, block, verified,     *)
(* from, to] with the range of its analysis block.                         *)
(***************************************************************************)
EXTENDS LineMap, SourceIndex

CONSTANTS RelationFiles,   \* predecessor files with relations, in id order
          RepositoryOf,    \* the logical repository of a file
          PathOf,          \* its path
          PairOf,          \* the old and the new commit of a repository
          OldText,         \* the predecessor's text of a file
          NewTexts,        \* the texts the candidate's commit may hold
          Relations,       \* the file's relations, in id order
          Uncertain,       \* functions the parser is not sure about
          TargetLines,     \* candidate lines with a coverage row
          CoveredLines,    \* ... and covered
          Readiness,       \* what the repository checks may answer
          Universes,       \* what the commits may define
          ReadFaults       \* source reads that may fail during a comparison

(* uq_analysis_line_link_line: one relation per line.  create_link: a      *)
(* relation's line lies in its block.                                      *)
ASSUME FilesAssumption ==
  /\ RelationFiles \in Seq(Range(RelationFiles))
  /\ \A m, n \in DOMAIN RelationFiles : RelationFiles[m] = RelationFiles[n] => m = n
  /\ \A f \in Range(RelationFiles) : RepositoryOf[f] \in Repositories
ASSUME TextsAssumption ==
  \A f \in Range(RelationFiles) :
    /\ OldText[f] \in Seq(Range(OldText[f]))
    /\ \A new \in NewTexts[f] : new \in Seq(Range(new))
    /\ 0 \notin TargetLines[f]
ASSUME RelationsAssumption ==
  \A f \in Range(RelationFiles) :
    /\ Relations[f] \in Seq(Range(Relations[f]))
    /\ \A m, n \in DOMAIN Relations[f] : Relations[f][m].line = Relations[f][n].line => m = n
    /\ \A r \in Range(Relations[f]) : r.from \in Nat /\ r.to \in Nat /\ r.line \in r.from..r.to
ASSUME ReadinessAssumption == "INHERITED" \notin Readiness

VARIABLES status,          \* status[r]: the answer for a repository
          pc,              \* "open", "compare", "sweep", "done", "failed"
          at,              \* position in RelationFiles
          snap,            \* the open file's snapshot and line map
          rest,            \* its relations still to compare
          texts,           \* the candidate texts seen so far (history)
          decided,         \* decisions: candidate line -> reason
          links,           \* relations created for the candidate
          clones,          \* _candidate_record_cache: cloned source records
          blocks,          \* _candidate_block_cache: block key -> range
          excused          \* relations compared over an incomplete index

inheritanceVars ==
  <<universe, cache, status, pc, at, snap, rest, texts, decided, links,
    clones, blocks, excused>>

NoSnapshot == [map |-> None, new |-> <<>>]

File == RelationFiles[at]

Stored(f, x, value) == [y \in DOMAIN f \cup {x} |-> IF y = x THEN value ELSE f[y]]

-----------------------------------------------------------------------------
(* PredecessorResolver.resolve and the first checks of                     *)
(* _snapshot_for_relation: the repository must be in both Scans on one     *)
(* named branch, both commits verified, a checkout configured, and the old *)
(* commit an ancestor of the new one.                                      *)
RepositoryReady(r) == status[r] \notin {"NO_PREDECESSOR", "BRANCH_MISMATCH"}

SnapshotReason(r) == IF status[r] = "READY" THEN NoReason ELSE status[r]

Start == /\ cache = EmptyCache
         /\ pc = (IF RelationFiles = <<>> THEN "sweep" ELSE "open") /\ at = 1
         /\ snap = NoSnapshot /\ rest = <<>>
         /\ texts = <<>> /\ decided = <<>>
         /\ links = {} /\ clones = {} /\ blocks = <<>> /\ excused = {}

InheritanceInit == universe \in Universes /\ status \in [Repositories -> Readiness] /\ Start

\* InheritanceTechnicalFailure, or an error of the repositories: the phase's
\* transaction is rolled back and the Candidate stays unpublished
Abandon == /\ pc' = "failed"
           /\ cache' = EmptyCache
           /\ snap' = NoSnapshot /\ rest' = <<>>
           /\ decided' = <<>> /\ links' = {}
           /\ clones' = {} /\ blocks' = <<>> /\ excused' = {}
           /\ UNCHANGED <<universe, status, at, texts>>

-----------------------------------------------------------------------------
\* release_scope_if_complete: no later file belongs to the repository
LastOfRepository == \A n \in (at + 1)..Len(RelationFiles) :
                      RepositoryOf[RelationFiles[n]] # RepositoryOf[File]

NextFile(c) == /\ cache' = IF LastOfRepository THEN ReleaseScope(c, RepositoryOf[File]) ELSE c
               /\ at' = at + 1
               /\ pc' = IF at = Len(RelationFiles) THEN "sweep" ELSE "open"
               /\ snap' = NoSnapshot /\ rest' = <<>>

\* The repository is not ready, or a check of the snapshot refuses it: the
\* relations of the file are decided without a candidate line
SkipFile == /\ pc = "open" /\ SnapshotReason(RepositoryOf[File]) # NoReason
            /\ NextFile(cache)
            /\ UNCHANGED <<universe, status, texts, decided, links, clones, blocks, excused>>

\* _iter_source_relation_pages: the active relations of the file by id
RelationPages == Relations[File]

\* A committed text never changes: a later run reads what an earlier one read
Versions(f) ==
  IF f \in DOMAIN texts THEN {texts[f]}
  ELSE UNION {{[new |-> new, kept |-> kept] : kept \in GitDiffs(OldText[f], new)} :
                new \in NewTexts[f]}

(* _snapshot_for_relation and the line map of the file.                    *)
Snapshot(c) ==
  IF PairOf[RepositoryOf[File]] \in c.failed
  THEN NextFile(c) /\ UNCHANGED texts
  ELSE /\ \E v \in Versions(File) :
            /\ snap' = [map |-> MapGitText(OldText[File], v.new, v.kept), new |-> v.new]
            /\ texts' = Stored(texts, File, v)
       /\ cache' = c
       /\ rest' = RelationPages
       /\ pc' = "compare"
       /\ UNCHANGED at

OpenFile ==
  /\ pc = "open" /\ SnapshotReason(RepositoryOf[File]) = NoReason
  /\ Snapshot(OpenPair(cache, PairOf[RepositoryOf[File]], RepositoryOf[File]))
  /\ UNCHANGED <<universe, status, decided, links, clones, blocks, excused>>

\* A Git command fails or times out while a file is opened
GitFails == /\ pc = "open" /\ SnapshotReason(RepositoryOf[File]) = NoReason
            /\ Abandon

CloseFile == /\ pc = "compare" /\ rest = <<>>
             /\ NextFile(cache)
             /\ UNCHANGED <<universe, status, texts, decided, links, clones, blocks, excused>>

-----------------------------------------------------------------------------
(* compare_line, in its order.                                             *)
LineReason(c, pair, a, b) == FirstReason(<<
  <<\E k \in {pair[1], pair[2]} : c.ix[k].memory, "DEPENDENCY_INDEX_MEMORY_BUDGET_EXHAUSTED">>,
  <<a.tok # b.tok, "LINE_CODE_CHANGED">>,
  <<None \in {a.fn, b.fn}, "FUNCTION_ID_UNRESOLVED">>,
  <<a.fn # b.fn, "FUNCTION_CHANGED">>,
  <<{a.fn, b.fn} \cap Uncertain # {}, "PARSER_UNRELIABLE">>,
  <<a.ctl # b.ctl, "CONTROL_CONTEXT_CHANGED">>,
  <<a.pp # b.pp, "PP_CONTEXT_CHANGED">> >>)

CompareLine(a, b, fault) ==
  LET pair  == PairOf[RepositoryOf[File]]
      first == LineReason(cache, pair, a, b)
  IN IF first # NoReason THEN [c |-> cache, reason |-> first]
     ELSE CompareDependencies(cache, pair, a.deps, PathOf[File], fault)

(* _candidate_block_for_relation: the contiguous run of mapped lines of    *)
(* the source block that holds the target, created once per source block,  *)
(* file and record.                                                        *)
BlockTargets(m, r) == {MappedLine(m, i) : i \in r.from..r.to} \ {0}

RunAround(M, t) == <<Min({a \in M : a <= t /\ a..t \subseteq M}),
                     Max({b \in M : b >= t /\ t..b \subseteq M})>>

BlockKey(r) == <<File, r.block, r.record>>

CandidateBlock(m, r, t) ==
  IF BlockKey(r) \in DOMAIN blocks THEN blocks[BlockKey(r)]
  ELSE RunAround(BlockTargets(m, r), t)

\* _write_decision: the first decision of a candidate line stays
Decide(line, reason) ==
  decided' = [d \in DOMAIN decided \cup {line} |->
                IF d \in DOMAIN decided THEN decided[d] ELSE reason]

\* _ensure_group: one group per source block and candidate file
GroupOf(r) == <<r.block, File>>

\* create_record (once per source record), create_block, create_link
Inherit(r, t, block) ==
  /\ clones' = clones \cup {r.record}
  /\ blocks' = Stored(blocks, BlockKey(r), block)
  /\ links' = links \cup
       {[file |-> File, from |-> r.line, to |-> t, record |-> r.record, block |-> block,
         group |-> GroupOf(r),
         state |-> IF t \in CoveredLines[File] THEN "CARRIED_COVERED"
                   ELSE "INHERITED_PENDING"]}

\* _candidate_lines_for_numbers: the line is deleted, ambiguous, or has no
\* coverage row in the candidate
NoTarget(r) == MappedLine(snap.map, r.line) \notin TargetLines[File]

SkipRelation == /\ pc = "compare" /\ rest # <<>> /\ NoTarget(Head(rest))
                /\ rest' = Tail(rest)
                /\ UNCHANGED <<universe, cache, status, pc, at, snap, texts, decided,
                               links, clones, blocks, excused>>

RelationReason(r, reason) == FirstReason(<< <<reason # NoReason, reason>>,
                                            <<~r.verified, "BLOCK_AMBIGUOUS">>,
                                            <<TRUE, "INHERITED">> >>)

Persist(r, t, block, c, reason) ==
  IF reason = "INHERITED" /\ t \notin block[1]..block[2]
  THEN Abandon        \* create_link: ANALYSIS_BLOCK_LINE_RANGE_MISMATCH
  ELSE /\ cache' = c
       /\ excused' = IF \E k \in Keys : c.ix[k].lossy
                     THEN excused \cup {<<File, r.line>>} ELSE excused
       /\ Decide(<<File, t>>, reason)
       /\ IF reason = "INHERITED" THEN Inherit(r, t, block)
          ELSE UNCHANGED <<clones, blocks, links>>
       /\ rest' = Tail(rest)
       /\ UNCHANGED <<universe, status, pc, at, snap, texts>>

(* _persist_relation_decision.                                             *)
PersistRelation ==
  /\ pc = "compare" /\ rest # <<>> /\ ~NoTarget(Head(rest))
  /\ \E fault \in ReadFaults, t \in {MappedLine(snap.map, Head(rest).line)} :
       \E result \in {CompareLine(OldText[File][Head(rest).line], snap.new[t], fault)} :
         Persist(Head(rest), t, CandidateBlock(snap.map, Head(rest), t),
                 result.c, RelationReason(Head(rest), result.reason))

-----------------------------------------------------------------------------
\* The last loop of run: every uncovered line without a decision gets one
UncoveredLines(f) == TargetLines[f] \ CoveredLines[f]

Undecided == UNION {{f} \X UncoveredLines(f) : f \in Range(RelationFiles)}

SweepReason(f) == IF RepositoryReady(RepositoryOf[f]) THEN "NO_SOURCE_RELATION"
                  ELSE status[RepositoryOf[f]]

Sweep == /\ pc = "sweep"
         /\ decided' = [d \in DOMAIN decided \cup Undecided |->
                           IF d \in DOMAIN decided THEN decided[d] ELSE SweepReason(d[1])]
         /\ pc' = "done"
         /\ UNCHANGED <<universe, cache, status, at, snap, rest, texts, links, clones,
                        blocks, excused>>

\* A later attempt of the import runs the phase again over the same commits
Retry == /\ pc = "failed"
         /\ pc' = "open" /\ at' = 1
         /\ UNCHANGED <<universe, cache, status, snap, rest, texts, decided, links, clones,
                        blocks, excused>>

Done == pc = "done" /\ UNCHANGED inheritanceVars

InheritanceNext ==
  \/ SkipFile \/ OpenFile \/ GitFails \/ CloseFile
  \/ SkipRelation \/ PersistRelation \/ Sweep \/ Retry \/ Done

InheritanceSpec == InheritanceInit /\ [][InheritanceNext]_inheritanceVars

-----------------------------------------------------------------------------
(* What inheriting line i of a file as line j should mean, over everything *)
(* the two commits define: Git kept the line, or only its formatting       *)
(* changed; it sits in the same certain function and contexts; and every   *)
(* name it depends on is defined once, and equally, or nowhere.            *)
SameLine(f, i, j) ==
  LET a == OldText[f][i]
      b == texts[f].new[j]
  IN /\ <<i, j>> \in texts[f].kept \/ (a.tok = b.tok /\ a.sp # b.sp)
     /\ a.fn = b.fn /\ a.fn \notin Uncertain \cup {None}
     /\ a.ctl = b.ctl /\ a.pp = b.pp

AllDefinitions(k, s) == {d \in {<<p, universe[k][p][s]>> : p \in Paths} : d[2] # None}

SameDependencies(f, i) ==
  LET pair == PairOf[RepositoryOf[f]]
  IN \A s \in Range(OldText[f][i].deps) :
       LET o == AllDefinitions(pair[1], s)
           n == AllDefinitions(pair[2], s)
       IN \/ o = {} /\ n = {}
          \/ Cardinality(o) = 1 /\ Cardinality(n) = 1 /\ \A x \in o, y \in n : x[2] = y[2]

ShouldInherit(f, i, j) == SameLine(f, i, j) /\ SameDependencies(f, i)

Linked(f, i) == {l \in links : l.file = f /\ l.from = i}

BudgetReasons == {"DEPENDENCY_INDEX_MEMORY_BUDGET_EXHAUSTED", "BLOCK_AMBIGUOUS",
                  "DEPENDENCY_CANDIDATE_INDEX_UNAVAILABLE", "DEPENDENCY_BUDGET_EXHAUSTED"}

(* A finished run inherits a line only where it should, and where it       *)
(* should but did not it recorded that a budget, the candidate index or    *)
(* the block's identity stood in the way.  Relations whose comparison lost *)
(* a source file, to the index's bound or to a failed read, are excepted   *)
(* (compare_line, DependencyResolver.compare, _map_hunk).                  *)
LinksAreExact ==
  pc = "done" =>
    \A f \in DOMAIN texts : \A n \in DOMAIN Relations[f] :
      LET i == Relations[f][n].line
          kept == {p \in texts[f].kept : p[1] = i /\ p[2] \in TargetLines[f]}
      IN <<f, i>> \notin excused =>
           /\ \A l \in Linked(f, i) : ShouldInherit(f, i, l.to)
           /\ \A p \in kept :
                (ShouldInherit(f, i, p[2]) /\ Linked(f, i) = {}) =>
                   \/ PairOf[RepositoryOf[f]] \in cache.failed
                   \/ decided[<<f, p[2]>>] \in BudgetReasons

(* When a run finishes every uncovered candidate line has one decision,    *)
(* and exactly the lines decided INHERITED carry a relation, one each      *)
(* (_write_decision, _persist_relation_decision, the closing loop of run). *)
DecisionsAgree ==
  pc = "done" =>
    /\ Undecided \subseteq DOMAIN decided
    /\ \A line \in DOMAIN decided :
         (decided[line] = "INHERITED") <=>
           (Cardinality({l \in links : <<l.file, l.to>> = line}) = 1)
    /\ \A l \in links : <<l.file, l.to>> \in DOMAIN decided

(* A candidate block holds its relations' lines and no line that its       *)
(* source block did not map to (_candidate_block_for_relation).            *)
BlocksArePrecise ==
  pc = "done" => \A l \in links :
    /\ l.to \in l.block[1]..l.block[2]
    /\ LET m == MapGitText(OldText[l.file], texts[l.file].new, texts[l.file].kept)
       IN \A j \in l.block[1]..l.block[2] : \E p \in m.pair : p[2] = j

(* What a run inherits, records and groups is exact. *)
InheritanceIsExact == LinksAreExact /\ DecisionsAgree /\ BlocksArePrecise

(* The indexes a run owns stay within the total bound, and while a         *)
(* repository uses a pair of indexes the run owns both sides of it         *)
(* (_source_index_changed, _release_index_pairs_for_scope).                *)
PairsAreWhole ==
  /\ TotalBytes(cache) <= MaxTotalBytes
  /\ \A r \in Repositories : \A pair \in cache.scopes[r] :
       pair \in cache.active /\ {pair[1], pair[2]} \subseteq Range(cache.owned)
=============================================================================
