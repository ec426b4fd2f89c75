--------------------------- MODULE MC_HarnessSync ---------------------------
(* Two paths through three versions: the second is managed, dropped, then  *)
(* managed again, and in a fourth tree it is the project's own.            *)
EXTENDS HarnessSync

CONSTANTS rules, other, a, b, u

Entry(kind, content) == [kind |-> kind, content |-> content]
Tree(r, o) == [f \in {rules, other} |-> IF f = rules THEN r ELSE o]

SmallTrees ==
  { Tree(Entry("managed", a), Entry("managed", a)),
    Tree(Entry("managed", b), Entry("none", a)),
    Tree(Entry("managed", b), Entry("managed", b)),
    Tree(Entry("managed", a), Entry("seeded", b)) }

=============================================================================
