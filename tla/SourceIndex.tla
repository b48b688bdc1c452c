----------------------------- MODULE SourceIndex -----------------------------
(***************************************************************************)
(* The dependency indexes an inheritance run keeps over its commits        *)
(* (app/inheritance/dependencies.py and the index cache of engine.py).     *)
(*                                                                         *)
(* An index belongs to one key, a commit of a physical repository.  It     *)
(* loads parsed files on demand into a byte-bounded LRU and answers which  *)
(* definitions of a symbol it knows.  The engine owns the indexes of a run *)
(* under a second bound, pins the old and the new index of every           *)
(* repository it is comparing as one pair, and fails a pair that does not  *)
(* fit closed.  Metrics are left out; the resolution cache, which only     *)
(* repeats the candidate index's answers, is counted in IndexBytes.        *)
(***************************************************************************)
EXTENDS Naturals, Sequences, FiniteSets, FiniteSetsExt, SequencesExt

CONSTANTS None,
          Repositories,    \* logical repositories of the scans
          Keys,            \* commits of physical repositories
          Paths,           \* source files of a commit
          Symbols,         \* functions, macros and constants of the sources
          Mentions,        \* Mentions[s]: the sequence of files naming s
          FileBytes,       \* parsed size of a file
          IndexBytes,      \* size of a candidate index
          MaxCachedBytes,  \* bound of one index (max_source_cache_bytes)
          MaxTotalBytes    \* bound of all indexes (max_source_cache_total_bytes)

VARIABLES universe,        \* universe[k][p][s]: the definition of s, or None
          cache            \* [ix, owned, active, scopes, failed]

-----------------------------------------------------------------------------
(* One index: the loaded files in LRU order, whether its candidate index   *)
(* was tried, and the three ways it may stop answering.  `lossy' is        *)
(* history: during the present comparison a file of this index was evicted *)
(* or could not be read.                                                   *)
NewIndex == [loaded |-> <<>>, ready |-> FALSE, unavailable |-> FALSE,
             exhausted |-> FALSE, memory |-> FALSE, lossy |-> FALSE]

LoadedBytes(x) == FoldSeq(LAMBDA p, n : FileBytes[p] + n, 0, x.loaded)

Bytes(x) == LoadedBytes(x) + IF x.ready /\ ~x.unavailable THEN IndexBytes ELSE 0

TotalBytes(c) == FoldSeq(LAMBDA k, n : Bytes(c.ix[k]) + n, 0, c.owned)

Pinned(c) == UNION {{pair[1], pair[2]} : pair \in c.active}

\* clear_caches
EmptyCache == [ix |-> [k \in Keys |-> NewIndex], owned |-> <<>>, active |-> {},
               scopes |-> [r \in Repositories |-> {}], failed |-> {}]

-----------------------------------------------------------------------------
Disown(c, ks) == [c EXCEPT !.owned = SelectSeq(@, LAMBDA k : k \notin ks)]

\* _mark_index_pair_budget_exhausted(drop=True), for each of the pairs
DropPairs(c, pairs) ==
  LET hit  == UNION {{pair[1], pair[2]} : pair \in pairs}
      kept == [c EXCEPT !.failed = @ \cup pairs,
                        !.active = @ \ pairs,
                        !.scopes = [r \in Repositories |-> @[r] \ pairs],
                        !.ix = [k \in Keys |-> IF k \in hit \cap Range(c.owned)
                                               THEN [@[k] EXCEPT !.memory = TRUE]
                                               ELSE @[k]]]
  IN Disown(kept, hit \ Pinned(kept))

(* _source_index_changed: the index of key k grew or was used.  The oldest *)
(* indexes that no pair pins go first; if the total is still over its      *)
(* bound every active pair of k fails closed.                              *)
EvictUnpinned(c, k) ==
  LET spare(n) == {j \in 1..Len(c.owned) : c.owned[j] \notin Pinned(c) \cup {k}
                                           /\ j <= n}
      after(n) == Disown(c, {c.owned[j] : j \in spare(n)})
      enough   == {n \in 0..Len(c.owned) : TotalBytes(after(n)) <= MaxTotalBytes}
  IN IF enough = {} THEN after(Len(c.owned)) ELSE after(Min(enough))

MoveToEnd(c, k) == [c EXCEPT !.owned = Append(SelectSeq(@, LAMBDA j : j # k), k)]

FailClosed(c, k) ==
  IF TotalBytes(c) <= MaxTotalBytes THEN c
  ELSE DropPairs(c, {pair \in c.active : k \in {pair[1], pair[2]}})

Changed(c, k) ==
  IF k \notin Range(c.owned) THEN c
  ELSE FailClosed(EvictUnpinned(MoveToEnd(c, k), k), k)

-----------------------------------------------------------------------------
(* _load_path.  Reading and parsing a file may fail: the loader's          *)
(* exception is swallowed and the file stays unknown.                      *)
LoadPath(c, k, p, unreadable) ==
  LET x == c.ix[k]
      room == {n \in 0..Len(x.loaded) :
                 LoadedBytes([x EXCEPT !.loaded = SubSeq(@, n + 1, Len(@))])
                   + FileBytes[p] <= MaxCachedBytes}
  IN CASE p \in Range(x.loaded) -> c
       [] p \in unreadable -> [c EXCEPT !.ix[k].lossy = TRUE]
       [] p \notin unreadable /\ FileBytes[p] > MaxCachedBytes ->
            Changed([c EXCEPT !.ix[k].exhausted = TRUE], k)
       [] OTHER ->
            Changed([c EXCEPT !.ix[k].loaded =
                                Append(SubSeq(@, Min(room) + 1, Len(@)), p),
                              !.ix[k].lossy = @ \/ Min(room) > 0], k)

(* build_symbol_candidate_index: the files of a commit that name a symbol, *)
(* a superset of those that define it; and _candidate_paths, which repeats *)
(* its answer.  Both commits of a pair are taken to name it alike.         *)
CandidatePaths(s) == Mentions[s]

(* _ensure_candidate_index: built once, on the first lookup; a failure     *)
(* makes the whole index unavailable.                                      *)
EnsureCandidateIndex(c, k, broken) ==
  CASE c.ix[k].ready -> c
    [] ~c.ix[k].ready /\ broken ->
         [c EXCEPT !.ix[k].ready = TRUE, !.ix[k].unavailable = TRUE]
    [] OTHER -> Changed([c EXCEPT !.ix[k].ready = TRUE], k)

Known(c, k, s) == {p \in Range(c.ix[k].loaded) : universe[k][p][s] # None}

(* _ensure_symbol: load the files that name the symbol until two of them   *)
(* define it, or the index is exhausted.                                   *)
SearchPaths(c, k, s, unreadable) ==
  LET visit(e, p) == IF Cardinality(Known(e, k, s)) > 1 \/ e.ix[k].exhausted
                     THEN e ELSE LoadPath(e, k, p, unreadable)
  IN IF c.ix[k].unavailable THEN c ELSE FoldLeft(visit, c, CandidatePaths(s))

EnsureSymbol(c, k, s, unreadable, broken) ==
  SearchPaths(EnsureCandidateIndex(c, k, broken), k, s, unreadable)

\* functions, definitions: what the index answers after the lookup; `local'
\* is the file under comparison, whose own parse is the fallback
Definitions(c, k, s, local) ==
  LET found == {<<p, universe[k][p][s]>> : p \in Known(c, k, s)}
  IN CASE c.ix[k].exhausted -> {}
       [] ~c.ix[k].exhausted /\ found # {} -> found
       [] OTHER -> IF universe[k][local][s] = None THEN {}
                   ELSE {<<local, universe[k][local][s]>>}

\* The reason of a comparison that found nothing
NoReason == "-"

\* The reason of the first check, in their order, that fails
FirstReason(checks) ==
  LET failing == {n \in DOMAIN checks : checks[n][1]}
  IN IF failing = {} THEN NoReason ELSE checks[Min(failing)][2]

\* _unresolved_reason
UnresolvedReason(c, pair) ==
  LET side == {c.ix[pair[1]], c.ix[pair[2]]}
  IN FirstReason(<<
       <<\E x \in side : x.memory, "DEPENDENCY_INDEX_MEMORY_BUDGET_EXHAUSTED">>,
       <<\E x \in side : x.unavailable, "DEPENDENCY_CANDIDATE_INDEX_UNAVAILABLE">>,
       <<\E x \in side : x.exhausted, "DEPENDENCY_BUDGET_EXHAUSTED">> >>)

\* The loss of the uniqueness test: some pair of equal definitions is enough
AnyDefinition(o, n) == (o = {} /\ n = {}) \/ \E x \in o, y \in n : x[2] = y[2]

(* DependencyResolver.compare over the symbols of a line: absent on both   *)
(* sides is a library name; otherwise both sides must know exactly one     *)
(* definition, the same one.                                               *)
SameDefinition(o, n) ==
  \/ o = {} /\ n = {}
  \/ Cardinality(o) = 1 /\ Cardinality(n) = 1
     /\ \A x \in o, y \in n : x[2] = y[2]

\* A source read of one side may fail (read_file), and so may the batch that
\* builds its candidate index (read_files): the index's own faults
Unreadable(fault, side) == fault.unreadable[side]
IndexBroken(fault, side) == fault.broken[side]

LookUp(c, pair, s, fault, side) ==
  EnsureSymbol(c, pair[side], s, Unreadable(fault, side), IndexBroken(fault, side))

\* What a lookup of s on both sides comes to
SymbolResult(c, pair, s, local) ==
  [c |-> c,
   reason |-> FirstReason(<<
     <<UnresolvedReason(c, pair) # NoReason, UnresolvedReason(c, pair)>>,
     <<~SameDefinition(Definitions(c, pair[1], s, local), Definitions(c, pair[2], s, local)),
       "DEPENDENCY_CHANGED">> >>)]

CompareDependencies(c, pair, names, local, fault) ==
  LET step(acc, s) ==
        IF acc.reason # NoReason THEN acc
        ELSE SymbolResult(LookUp(LookUp(acc.c, pair, s, fault, 1), pair, s, fault, 2),
                          pair, s, local)
      fresh == [c EXCEPT !.ix = [k \in Keys |-> [@[k] EXCEPT !.lossy = FALSE]]]
      start == [c |-> fresh, reason |-> UnresolvedReason(c, pair)]
  IN FoldLeft(step, start, names)

-----------------------------------------------------------------------------
\* _source_index: the owned index of a key, or a new one
OpenIndex(c, k) ==
  Changed(IF k \in Range(c.owned) THEN c
          ELSE [c EXCEPT !.ix[k] = NewIndex, !.owned = Append(@, k)], k)

(* _source_index_pair: pin both sides for a repository, open both, and     *)
(* fail the pair closed when it, or what is already active, does not fit.  *)
PinPair(c, pair, r) == [c EXCEPT !.active = @ \cup {pair},
                                 !.scopes[r] = @ \cup {pair}]

FailUnfit(c, d, pair) ==
  IF pair \in c.failed \cup d.failed \/ TotalBytes(d) > MaxTotalBytes
  THEN DropPairs(IF pair \in c.failed THEN c ELSE d, {pair})
  ELSE d

OpenPair(c, pair, r) ==
  FailUnfit(c, OpenIndex(OpenIndex(PinPair(c, pair, r), pair[1]), pair[2]), pair)

\* The loss of the sharing test: the pairs of the repository are released
ReleaseShared(c, r) ==
  LET gone == c.scopes[r]
      d    == [c EXCEPT !.scopes[r] = {}, !.active = @ \ gone]
  IN Disown(d, UNION {{pair[1], pair[2]} : pair \in gone} \ Pinned(d))

(* _release_index_pairs_for_scope: the repository has no further source    *)
(* file; a pair another repository still uses stays pinned.                *)
ReleaseScope(c, r) ==
  LET others == UNION {c.scopes[q] : q \in Repositories \ {r}}
      gone   == c.scopes[r] \ others
      d      == [c EXCEPT !.scopes[r] = {}, !.active = @ \ gone]
  IN Disown(d, UNION {{pair[1], pair[2]} : pair \in gone} \ Pinned(d))
=============================================================================
