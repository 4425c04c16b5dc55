-------------------------- MODULE MCSnapshotViews --------------------------
(* One agent with a cell bound to it and a cell that shows its spans, and  *)
(* a scratch cell; the kernel knows the first by id, the others by URI.    *)
EXTENDS SnapshotViews

KindOfDef == [c \in Cells |-> IF c = "c3" THEN "scratch" ELSE "agent"]
IdsOfDef == [c \in Cells |-> IF c = "c1" THEN <<"k1", "u1">> ELSE <<IF c = "c2" THEN "u2" ELSE "u3">>]
BoundToDef == [c \in Cells |-> IF c = "c1" THEN CHOOSE a \in Agents : TRUE ELSE None]

AgentsAre(x) == [a \in Agents |-> x]

SlotAs(contaminated, log, section) ==
  [contaminated |-> contaminated, log |-> log, bound |-> None, section |-> section]

CellsAre(k, u) == [id \in Ids |-> CASE id = "k1" -> k [] id = "u2" -> u [] OTHER -> Absent]

SectionIs(range, status) ==
  [s \in Sections |-> [title |-> "t", status |-> status, range |-> range]]

NoSection == [s \in Sections |-> None]

\* Running and contaminated; idle and reset, with the log it had; a partial
\* snapshot with malformed rows and no section table; one without agents,
\* cells and config; a patch.
SnapshotsDef ==
  {[mode |-> "snapshot", agents |-> AgentsAre("active"), config |-> Off,
    cells |-> CellsAre(SlotAs(TRUE, <<1>>, "s"), SlotAs(FALSE, <<>>, "s")),
    sections |-> SectionIs(<<"k1", "u2">>, "open")],
   [mode |-> "snapshot", agents |-> AgentsAre("idle"),
    config |-> [hash |-> TRUE, accepted |-> FALSE],
    cells |-> CellsAre(SlotAs(FALSE, <<1>>, "s"), Absent),
    sections |-> SectionIs(<<>>, "unheard of")],
   [mode |-> "snapshot", agents |-> AgentsAre("undefined"),
    config |-> [hash |-> FALSE, accepted |-> TRUE],
    cells |-> CellsAre(Malformed, SlotAs(TRUE, <<1, 2, 3, 4>>, None)),
    sections |-> NoSection],
   [mode |-> "snapshot", agents |-> None, cells |-> None, config |-> None,
    sections |-> NoSection],
   [mode |-> "patch", agents |-> None, cells |-> None, config |-> None,
    sections |-> NoSection]}
=============================================================================
