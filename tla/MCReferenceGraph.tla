-------------------------- MODULE MCReferenceGraph --------------------------
(* A small project for TLC, with a relation that is still authored as a path  *)
(* and a text that names a missing document twice.                            *)
EXTENDS ReferenceGraph, TLC

FourDocs == 1 .. 4
OneAnchor == <<{}, {}, {}, {1}>>
Relation(from, relation, to) == [from |-> from, relation |-> relation, to |-> to]
ByID == {Relation(1, "depends_on", 2), Relation(1, "related", 3)}
ByPath == {Relation(3, "related", 2)}
Link(from, at, line, to) ==
  [from |-> from, at |-> at, line |-> line, column |-> 1, to |-> to, section |-> 0]
SameTargetTwice == {Link(4, 1, 2, 0), Link(4, 1, 3, 0)}

=============================================================================
