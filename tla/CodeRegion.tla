----------------------------- MODULE CodeRegion -----------------------------
(***************************************************************************)
(* The layout of the code detail page: how app/code_detail/code_region.py  *)
(* cuts a file of "total" lines into expanded and collapsed regions, given *)
(* the pending lines and the function ranges stored in the sidecar.        *)
(* A function range is a pair <<start, end>>; labels are left out.         *)
(***************************************************************************)
EXTENDS Integers, FiniteSets, FiniteSetsExt, SequencesExt

CONSTANTS FallbackContext, MaxMergeGap    \* both 20 in the code

ASSUME RegionConstants == FallbackContext \in Nat /\ MaxMergeGap \in Nat

AtMost(a, b) == IF a < b THEN a ELSE b
AtLeast(a, b) == IF a > b THEN a ELSE b

\* The order of list.sort(key=lambda item: (item[0], item[1])).
Before(a, b) == \/ a[1] < b[1]
                \/ a[1] = b[1] /\ a[2] < b[2]

\* Invalid ranges are ignored, the others are clipped to the file.
SanitizeFunctionRanges(functions, total) ==
    {<<f[1], AtMost(f[2], total)>> :
        f \in {g \in functions : 0 < g[1] /\ g[1] <= g[2] /\ g[1] <= total}}

\* The sweep keeps one candidate per line: the last function, in sort order,
\* that starts at or before it. An enclosing function is not looked for.
MatchedFunction(functions, line) ==
    LET started == {f \in functions : f[1] <= line}
    IN  {f \in started : /\ line <= f[2]
                         /\ \A g \in started : g = f \/ Before(g, f)}

RawRange(functions, total, line) ==
    LET matched == MatchedFunction(functions, line)
    IN  IF matched # {} THEN CHOOSE f \in matched : TRUE
        ELSE <<AtLeast(1, line - FallbackContext),
               AtMost(total, line + FallbackContext)>>

MergedEndLast(a, b) == b[2]
\* Two ranges closer than the gap become one that reaches the further end.
MergedEnd(a, b) == AtLeast(a[2], b[2])

MergeInto(merged, range) ==
    IF merged # <<>> /\ range[1] - Last(merged)[2] - 1 <= MaxMergeGap
    THEN Append(Front(merged), <<Last(merged)[1], MergedEnd(Last(merged), range)>>)
    ELSE Append(merged, range)

Expanded(total, pending, functions) ==
    LET valid == SanitizeFunctionRanges(functions, total)
        raw == {RawRange(valid, total, l) : l \in pending \cap 1..total}
    IN  FoldLeft(MergeInto, <<>>, SetToSortSeq(raw, Before))

Region(start, end, open) == [start |-> start, end |-> end, open |-> open]

\* The gap up to "start" is a collapsed region, when there is one.
Gap(regions, start) ==
    LET cursor == IF regions = <<>> THEN 1 ELSE Last(regions).end + 1
    IN  IF cursor < start THEN Append(regions, Region(cursor, start - 1, FALSE))
        ELSE regions

BuildCodeRegions(total, pending, functions) ==
    Gap(FoldLeft(LAMBDA regions, range :
                    Append(Gap(regions, range[1]), Region(range[1], range[2], TRUE)),
                 <<>>, Expanded(total, pending, functions)),
        total + 1)
=============================================================================
