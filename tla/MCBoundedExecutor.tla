-------------------------- MODULE MCBoundedExecutor --------------------------
(***************************************************************************)
(* Small instances of BoundedExecutor for TLC.                             *)
(***************************************************************************)
EXTENDS BoundedExecutor

CONSTANTS j1, j2, j3, w1, w2, b1, b2

(* Two jobs of the first bucket ask for the same work. *)
MCWorkKey == [j \in Descriptors |-> IF j = j3 THEN 2 ELSE 1]
MCReusable == {j1, j2}
MCBucketOf == [x \in Descriptors \cup Workers |-> IF x \in {j3, w2} THEN b2 ELSE b1]
=============================================================================
