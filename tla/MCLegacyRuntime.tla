--------------------------- MODULE MCLegacyRuntime ---------------------------
(***************************************************************************)
(* A small instance of LegacyRuntime for TLC.                              *)
(***************************************************************************)
EXTENDS LegacyRuntime, TLC

(* Files, reviewers and job ids are interchangeable. *)
MCSymmetry == Permutations(Files) \union Permutations(Savers) \union Permutations(JobIds)

(* Jobs read the version and never the rows: once one has been started, one
   review and no injection is enough to move the version under it, and
   either a fault or a restart is explored with it. A poll that is about to
   store an old version is explored without either. Jobs of different kinds
   share nothing but the version: two jobs are of one kind. *)
MCFocus ==
    (\E j \in JobIds : run[j] # NoRun \/ row[j] # None) =>
       /\ injects = 0
       /\ saves <= 1
       /\ faults + restarts <= 1
       /\ polled # None => faults + restarts = 0
       /\ \A i, j \in JobIds : run[i] # NoRun /\ run[j] # NoRun => run[i].kind = run[j].kind
==============================================================================
