--------------------------- MODULE MCReviewDomain ---------------------------
(* Two files: lines 1 and 2 in one, line 3 in the other, whose coverage is *)
(* carried; two reviewers; a small context and merge gap so that regions   *)
(* both merge and stay apart.                                              *)
EXTENDS ReviewDomain, TLC

CONSTANTS f1, f2

MCFileOf == [l \in Lines |-> IF l = 3 THEN f2 ELSE f1]
MCNumberOf == [l \in Lines |-> IF l = 2 THEN 6 ELSE 2]
MCTotalLines == [f \in Files |-> IF f = f1 THEN 8 ELSE 3]
MCFunctionSets ==
    {{}, {<<1, 8>>, <<2, 3>>}, {<<1, 4>>, <<6, 20>>}, {<<2, 7>>, <<6, 6>>},
     {<<0, 3>>, <<5, 4>>, <<6, 6>>}}
MCOrigins ==
    {<<"inherited", "inherited", "inherited">>, <<"inherited", "none", "legacy">>}
MCSymmetry == Permutations(Reviewers)

\* Readers write nothing: pages are explored against one reviewer and two
\* mutations, three mutations and two open transactions without a reader.
MCFocus ==
    pager # None => /\ dataVersion < MaxVersion
                    /\ Cardinality({r \in Reviewers : tx[r] # None}) <= 1
=============================================================================
