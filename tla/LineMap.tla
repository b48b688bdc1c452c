------------------------------- MODULE LineMap -------------------------------
(***************************************************************************)
(* The physical line map between two committed versions of one source file *)
(* (app/inheritance/line_map.py).  A text is a sequence of lines and a     *)
(* line is [tok |-> its token tuple, sp |-> its spelling]: two lines with  *)
(* equal tokens and different spellings differ only in formatting.  The    *)
(* lexer is abstracted to that distinction; a line may carry more fields.  *)
(*                                                                         *)
(* Git's diff is external: a diff is given by the pairs of equal lines it  *)
(* leaves outside its hunks, any increasing set of such pairs.             *)
(***************************************************************************)
EXTENDS Naturals, Sequences, FiniteSets, FiniteSetsExt

CONSTANT BlankTokens       \* the empty token tuple: blank and comment lines

Increasing(P) == \A p, q \in P : (p[1] < q[1]) <=> (p[2] < q[2])

SameText(a, b) == a.tok = b.tok /\ a.sp = b.sp

\* What `git diff --unified=0 --no-renames` may report for two texts
GitDiffs(old, new) ==
  {P \in SUBSET {p \in (1..Len(old)) \X (1..Len(new)) : SameText(old[p[1]], new[p[2]])} :
     Increasing(P)}

-----------------------------------------------------------------------------
(* The hunks are the maximal stretches between two consecutive kept pairs; *)
(* the ends of the texts bound the first and the last.  A hunk may have no *)
(* old lines (an insertion) or no new lines (a deletion).                  *)
Fences(old, new, kept) == kept \cup {<<0, 0>>, <<Len(old) + 1, Len(new) + 1>>}

Consecutive(F) == {pq \in F \X F :
                     /\ pq[1][1] < pq[2][1]
                     /\ \A r \in F : r[1] <= pq[1][1] \/ r[1] >= pq[2][1]}

Between(p, q) == [old |-> (p[1] + 1)..(q[1] - 1), new |-> (p[2] + 1)..(q[2] - 1)]

Hunks(old, new, kept) ==
  {Between(pq[1], pq[2]) : pq \in Consecutive(Fences(old, new, kept))}

-----------------------------------------------------------------------------
(* _map_hunk: inside one hunk a line is recovered only when its tokens are *)
(* unique on both sides and its spelling changed (an exact delete and      *)
(* re-add is a new physical line), the recovered pairs keep their order,   *)
(* and no line with real tokens is left over on either side.               *)
UniqueIn(text, lines, i) == \A k \in lines \ {i} : text[k].tok # text[i].tok

Respelled(old, new, h) ==
  {p \in h.old \X h.new :
     /\ old[p[1]].tok = new[p[2]].tok
     /\ UniqueIn(old, h.old, p[1]) /\ UniqueIn(new, h.new, p[2])
     /\ old[p[1]].sp # new[p[2]].sp}

FormattingOnly(old, new, h, P) ==
  /\ \A i \in h.old : old[i].tok # BlankTokens => \E p \in P : p[1] = i
  /\ \A j \in h.new : new[j].tok # BlankTokens => \E p \in P : p[2] = j

MapHunk(old, new, h) ==
  LET P == Respelled(old, new, h)
  IN IF Increasing(P) /\ FormattingOnly(old, new, h, P) THEN P ELSE {}

(* map_git_text: the kept pairs outside the hunks and what every hunk      *)
(* recovers.                                                               *)
MapGitText(old, new, kept) ==
  LET H    == Hunks(old, new, kept)
      pair == kept \cup UNION {MapHunk(old, new, h) : h \in H}
      gone == {i \in UNION {h.old : h \in H} : \A p \in pair : p[1] # i}
  IN [pair |-> pair,
      deleted |-> gone,
      ambiguous |-> {i \in gone : \E h \in H : i \in h.old /\ h.new # {}}]

\* LineMapping.get: the new line of an old one, or 0
MappedLine(m, i) ==
  IF \E p \in m.pair : p[1] = i THEN (CHOOSE p \in m.pair : p[1] = i)[2] ELSE 0
=============================================================================
