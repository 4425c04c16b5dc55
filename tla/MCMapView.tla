----------------------------- MODULE MCMapView -----------------------------
(***************************************************************************)
(* MapView with two layouts, each of which stands for any tree of a class, *)
(* for MapView looks at nothing but the ids of its zones.  The classes     *)
(* hold every tree of two shapes: a container of up to four leaves, and a  *)
(* workspace or a zone of up to three children, each a leaf or a container *)
(* of up to four files; without hints, and with hints on any of them.      *)
(***************************************************************************)
EXTENDS MapView, MapLayout

MCLayouts == {"computed", "placed"}
MCIds == {"z1", "z2", "f1"}
MCZones(layout) == {"z1", "z2"}

\* A shape is a tree without ids; Labelled gives every node its path as an id.
Shape(type, hint, children) == [type |-> type, hint |-> hint, children |-> children]

RECURSIVE Labelled(_, _)
Labelled(shape, path) ==
  [id |-> path, type |-> shape.type, hint |-> shape.hint,
   children |-> [i \in DOMAIN shape.children |-> Labelled(shape.children[i], Append(path, i))]]

UpTo(S, n) == UNION {[1 .. k -> S] : k \in 0 .. n}

Hints == {<<>>, <<0, 0>>}
File == Shape("file", <<>>, <<>>)
Leaves == {File, Shape("file", <<0, 0>>, <<>>), Shape("agent", <<>>, <<>>)}

OfLeaves ==
  {Shape(type, hint, children) :
     type \in {"workspace", "zone", "project"}, hint \in Hints, children \in UpTo(Leaves, 4)}

OfFiles ==
  {Shape(type, hint, children) :
     type \in {"zone", "project"}, hint \in Hints, children \in UpTo({File}, 4)}

Nested ==
  {Shape(type, <<>>, children) :
     type \in {"workspace", "zone"}, children \in UpTo(Leaves \cup OfFiles, 3)}

RECURSIVE AnyHint(_)
AnyHint(shape) ==
  Hinted(shape) \/ \E i \in DOMAIN shape.children : AnyHint(shape.children[i])

TreesOf(layout) ==
  {Labelled(shape, <<>>) :
     shape \in {s \in OfLeaves \cup Nested : AnyHint(s) <=> layout = "placed"}}

Readable == {l \in MCLayouts : \A t \in TreesOf(l) : WellLaidOut(t)}


\* Siblings without a hint are apart, also those with a hinted child between.
Spread ==
  {l \in MCLayouts : \A t \in TreesOf(l) :
     LET pos == Positions(t)
     IN  \A n \in Nodes(t) : \A i, j \in DOMAIN n.children :
           i < j /\ ~Hinted(n.children[i]) /\ ~Hinted(n.children[j])
             => ~Overlap(pos[n.children[i].id], pos[n.children[j].id])}

\* Two siblings without a hint never overlap: not so, for a stack goes on below
\* a hinted child and may come to lie on the children before it.
UnhintedApart == tree # Absent => tree \in Spread
=============================================================================
