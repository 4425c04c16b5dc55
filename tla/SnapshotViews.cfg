CONSTANTS
  None = None
  Absent = Absent
  Malformed = Malformed
  Agents = {a1}
  Cells = {"c1", "c2", "c3"}
  Ids = {"k1", "u1", "u2", "u3"}
  Sections = {"s"}
  KindOf <- KindOfDef
  IdsOf <- IdsOfDef
  BoundTo <- BoundToDef
  Snapshots <- SnapshotsDef
  MaxSnapshots = 2
  MaxClicks = 2
SPECIFICATION Spec
INVARIANTS ItemsCurrent RegistriesMatchDocument
PROPERTY NoBlindSecondInterrupt
