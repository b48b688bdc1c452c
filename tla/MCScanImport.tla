---------------------------- MODULE MCScanImport ----------------------------
(***************************************************************************)
(* Small instances of ScanImport for TLC.                                  *)
(***************************************************************************)
EXTENDS ScanImport, FiniteSets, TLC

(* Every scan key belongs to the one project. *)
MCProjectOf == [s \in Scans |-> CHOOSE p \in Projects : TRUE]

MCOneResource == {{1}}
MCTwoResources == {{1}, {2}}
MCBothResources == {{1, 2}}

(* Reviews of CURRENT (a scan that has inherited starts at revision 1) and  *)
(* reclaimed jobs share a bound of two, with one reclaimed job at most: the *)
(* races of two reviews with inheritance and publication, and of one review *)
(* with a superseded callback.                                              *)
MCReclaimed == {j \in Jobs : job[j].owner > 1}
MCReviews ==
    {<<s, n>> \in Scans \X (1 .. MaxRevision) :
        \E f \in Files : rev[s][f] >= n /\ (carried[s][f] # 0 => n > 1)}
MCFocus ==
    /\ Cardinality(MCReclaimed) <= 1
    /\ Cardinality(MCReclaimed) + Cardinality(MCReviews) <= 2

MCSymmetry == Permutations(Jobs) \cup Permutations(Workers) \cup Permutations(Scans)
=============================================================================
