SPECIFICATION Spec
CONSTANTS
  Nodes = {1, 2}
  Names = {blank, a}
  Blank = blank
  Places = {p}
  NoPlace = noplace
  Untold = untold
  NewNames = {a}
  NewPlaces = {p}
  Sorts = {"NodeID"}
  Filters = {{1, 2}}
  MaxRows = 2
  No24 = {}
  Views = {"list"}
  MaxChanges = 3
PROPERTIES
  EditsReachTheirNode
CHECK_DEADLOCK FALSE
