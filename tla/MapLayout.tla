----------------------------- MODULE MapLayout -----------------------------
(***************************************************************************)
(* The grid layout of the map webview (layoutTree in                       *)
(* extension/src/webviews/map-view-renderer.ts): where every node of a     *)
(* layout tree is drawn.  A tree is a record with its id, its type, its    *)
(* position hint (<<>> or <<x, y>>) and its children.                      *)
(*                                                                         *)
(* WrapKeepsRow is a faulty variant of the definition that follows it.     *)
(***************************************************************************)
EXTENDS Integers, Sequences

PADDING == 12
NODE_HEIGHT_DEFAULT == 28
FILE_WIDTH == 96
FILE_HEIGHT == 24
ViewportWidth == 400

LOCAL Larger(a, b) == IF a >= b THEN a ELSE b

Rect(x, y, w, h) == [x |-> x, y |-> y, width |-> w, height |-> h]

\* positions.set: a later entry for a node replaces the earlier one.
LOCAL Merge(new, old) ==
  [id \in DOMAIN new \cup DOMAIN old |-> IF id \in DOMAIN new THEN new[id] ELSE old[id]]

LOCAL Add(id, rect, map) == Merge([i \in {id} |-> rect], map)

\* readPositionHint: a hint overrides the computed coordinates.
Origin(node, x, y) ==
  IF node.hint = <<>> THEN [x |-> x, y |-> y] ELSE [x |-> node.hint[1], y |-> node.hint[2]]


\* The next row of a zone's grid begins below the highest child of this one.
NextRow(row, innerX) ==
  [x |-> innerX, y |-> row.y + row.height + PADDING \div 2, height |-> 0]

\* layoutTree gives the rectangle of the node and those of its whole subtree.
RECURSIVE layoutTree(_, _, _, _), StackChildren(_, _, _, _), TileChildren(_, _, _, _)

\* Workspaces and other containers stack their children vertically: the
\* resulting y, the widest child, and the positions so far.
StackChildren(children, innerX, width, acc) ==
  IF children = <<>> THEN acc
  ELSE LET c == layoutTree(Head(children), innerX, acc.y, width)
       IN  StackChildren(Tail(children), innerX, width,
             [y |-> c.rect.y + c.rect.height + PADDING \div 2,
              wide |-> Larger(acc.wide, c.rect.width),
              map |-> Merge(c.map, acc.map)])

\* Zones tile theirs from left to right; a child that does not fit goes to the
\* next row, unless it is the first of its row.
TileChildren(children, innerX, wrapAt, acc) ==
  IF children = <<>> THEN acc
  ELSE LET row == acc.row
           try == layoutTree(Head(children), row.x, row.y, FILE_WIDTH)
           wraps == row.x + try.rect.width > wrapAt /\ row.x # innerX
           at == IF wraps THEN NextRow(row, innerX) ELSE row
           c == IF wraps THEN layoutTree(Head(children), at.x, at.y, FILE_WIDTH) ELSE try
       IN  TileChildren(Tail(children), innerX, wrapAt,
             [row |-> [x |-> at.x + c.rect.width + PADDING \div 2, y |-> at.y,
                       height |-> Larger(at.height, c.rect.height)],
              map |-> Merge(c.map, acc.map)])

layoutTree(node, x, y, available) ==
  LET o == Origin(node, x, y)
      innerX == o.x + PADDING
      innerY == o.y + NODE_HEIGHT_DEFAULT + PADDING \div 2
      innerWidth == Larger(120, available - PADDING * 2)
      leaf == IF node.type = "file" THEN Rect(o.x, o.y, FILE_WIDTH, FILE_HEIGHT)
              ELSE Rect(o.x, o.y, Larger(64, available), NODE_HEIGHT_DEFAULT)
      stack == StackChildren(node.children, innerX, innerWidth,
                 [y |-> innerY, wide |-> innerWidth, map |-> <<>>])
      tile == TileChildren(node.children, innerX, o.x + innerWidth + PADDING,
                [row |-> [x |-> innerX, y |-> innerY, height |-> 0], map |-> <<>>])
      result(rect, map) == [rect |-> rect, map |-> Add(node.id, rect, map)]
  IN  CASE node.type = "file" \/ node.children = <<>> -> result(leaf, <<>>)
        [] node.type = "workspace" ->
             result(Rect(o.x, o.y, stack.wide + PADDING * 2,
                         Larger(NODE_HEIGHT_DEFAULT * 2, stack.y - o.y + PADDING \div 2)),
                    stack.map)
        [] node.type = "zone" ->
             result(Rect(o.x, o.y, innerWidth + PADDING * 2,
                         tile.row.y + tile.row.height - o.y + PADDING), tile.map)
        [] OTHER ->
             result(Rect(o.x, o.y, innerWidth + PADDING * 2, stack.y - o.y + PADDING \div 2),
                    stack.map)

\* onLayoutUpdate and resize lay the whole tree out from scratch.
Positions(root) ==
  layoutTree(root, PADDING, PADDING, ViewportWidth - PADDING * 2).map

\* indexNodes: the ids of a tree.
RECURSIVE indexNodes(_)
indexNodes(node) ==
  {node.id} \cup UNION {indexNodes(node.children[i]) : i \in DOMAIN node.children}

RECURSIVE Nodes(_)
Nodes(node) == {node} \cup UNION {Nodes(node.children[i]) : i \in DOMAIN node.children}

Overlap(a, b) ==
  /\ a.x < b.x + b.width /\ b.x < a.x + a.width
  /\ a.y < b.y + b.height /\ b.y < a.y + a.height

Hinted(node) == node.hint # <<>>

\* Two children of a node that the layout itself must keep apart: neither is
\* placed by a hint, and in a stack no child between them is, for a stack goes
\* on below wherever its last child was drawn.
KeptApart(node, i, j) ==
  /\ i < j /\ ~Hinted(node.children[i]) /\ ~Hinted(node.children[j])
  /\ node.type = "zone" \/ \A k \in i .. j : ~Hinted(node.children[k])

\* A child that the layout itself must draw inside its parent.
KeptInside(node, i) ==
  /\ ~Hinted(node.children[i])
  /\ node.type = "zone" \/ \A k \in 1 .. i : ~Hinted(node.children[k])

\* Every node of the tree gets a position; the siblings that the layout itself
\* keeps apart do not overlap and begin below the header of their parent: also
\* when a row of a zone wraps and when zones are nested, for a child that is laid
\* out a second time after wrapping takes its whole subtree along.
WellLaidOut(root) ==
  LET pos == Positions(root)
  IN  /\ DOMAIN pos = indexNodes(root)
      /\ \A n \in Nodes(root) : \A i, j \in DOMAIN n.children :
           KeptApart(n, i, j) => ~Overlap(pos[n.children[i].id], pos[n.children[j].id])
      /\ \A n \in Nodes(root) : \A i \in DOMAIN n.children :
           KeptInside(n, i)
             => /\ pos[n.children[i].id].y >= pos[n.id].y + NODE_HEIGHT_DEFAULT
                /\ pos[n.children[i].id].x >= pos[n.id].x + PADDING
=============================================================================
