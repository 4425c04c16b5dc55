SPECIFICATION MapSpec
CONSTANTS
  Layouts <- MCLayouts
  Graphs = {g1}
  Ids <- MCIds
  Zones <- MCZones
  Absent = Absent
  MaxLinks = 2
  MaxInbox = 4
  MaxEdits = 1
INVARIANTS
  NothingMissed
  
PROPERTY
  MapCatchesUp
