---------------------------- MODULE MCInheritance ----------------------------
(* Three logical repositories over one checkout: r1 and r2 compare the     *)
(* same two commits, r3 starts from an other one.  The first and the last  *)
(* file belong to r1, so that its indexes stay pinned in between.          *)
EXTENDS InheritanceEngine

CONSTANTS r1, r2, r3, old, other, new, p1, p2, p3, g, h, f1, f2, f3, f4, d1, d2

MCFiles == <<f1, f2, f3, f4>>
MCRepositoryOf == f1 :> r1 @@ f2 :> r2 @@ f3 :> r3 @@ f4 :> r1
MCPathOf == f1 :> p1 @@ f2 :> p2 @@ f3 :> p3 @@ f4 :> p3
MCPairOf == r1 :> <<old, new>> @@ r2 :> <<old, new>> @@ r3 :> <<other, new>>
MCMentions == g :> <<p1, p3>> @@ h :> <<p2>>

Line(tok, sp, ctl, deps) ==
  [tok |-> tok, sp |-> sp, fn |-> "F", ctl |-> ctl, pp |-> <<>>, deps |-> deps]

call == Line("call", "a", "top", <<g>>)
callSpaced == Line("call", "b", "top", <<g>>)
callGuarded == Line("call", "a", "if", <<g>>)
use == Line("use", "a", "top", <<h, g>>)
edit == Line("edit", "a", "top", <<>>)
note == Line("", "a", "top", <<>>)

MCOldText == f1 :> <<call, use>> @@ f2 :> <<call>> @@ f3 :> <<use>> @@ f4 :> <<use, edit>>

MCNewTexts ==
  f1 :> {<<call, use>>, <<call, note, use>>, <<callSpaced, use>>, <<callGuarded, use>>,
         <<use, call>>}
  @@ f2 :> {<<call>>, <<call, call>>}
  @@ f3 :> {<<use>>} @@ f4 :> {<<use, edit>>}

Relation(line, record, verified, from, to) ==
  [line |-> line, record |-> record, block |-> record, verified |-> verified,
   from |-> from, to |-> to]

MCRelations == f1 :> <<Relation(1, "A", TRUE, 1, 2), Relation(2, "A", TRUE, 1, 2)>>
               @@ f2 :> <<Relation(1, "B", TRUE, 1, 1)>>
               @@ f3 :> <<Relation(1, "E", TRUE, 1, 1)>>
               @@ f4 :> <<Relation(2, "C", TRUE, 2, 2), Relation(1, "D", FALSE, 1, 1)>>

MCTargetLines == f1 :> 1..3 @@ f2 :> 1..2 @@ f3 :> {1} @@ f4 :> 1..2
MCCoveredLines == f1 :> {2} @@ f2 :> {} @@ f3 :> {} @@ f4 :> {}

MCFileBytes == p1 :> 1 @@ p2 :> 1 @@ p3 :> 1

Commit(atP1, atP3) ==
  [p \in Paths |-> [s \in Symbols |->
     CASE s = g /\ p = p1 -> atP1
       [] s = g /\ p = p3 -> atP3
       [] s = h /\ p = p2 -> d1
       [] OTHER -> None]]

\* Before: g nowhere, in one file, or in two; after: the same or another body
MCUniverses ==
  {(old :> Commit(ab[1], ab[2])) @@ (other :> Commit(ab[1], None)) @@ (new :> Commit(c, None)) :
     ab \in {<<None, None>>, <<d1, None>>, <<d1, d1>>}, c \in {d1, d2}}

NoFault == [unreadable |-> <<{}, {}>>, broken |-> <<FALSE, FALSE>>]
MCReadFaults == {NoFault,
                 [NoFault EXCEPT !.unreadable = <<{}, {p1}>>],
                 [NoFault EXCEPT !.broken = <<FALSE, TRUE>>]}
=============================================================================
