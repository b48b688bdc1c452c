---------------------------- MODULE MCJobService ----------------------------
(***************************************************************************)
(* Small instances of JobService for TLC.                                  *)
(***************************************************************************)
EXTENDS JobService, TLC

CONSTANTS j1, j2, j3

(* The first two jobs ask for the same work. *)
MCKeyOf == [j \in Jobs |-> IF j = j3 THEN 2 ELSE 1]

(* The names of processes mean nothing. *)
MCSymmetry == Permutations(Procs)
=============================================================================
