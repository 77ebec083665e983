SPECIFICATION FairSpec
CONSTANTS
  Nodes = {1, 2}
  Names = {blank, a}
  Blank = blank
  Places = {p}
  NoPlace = noplace
  Untold = untold
  NewNames = {a}
  NewPlaces = {p}
  Sorts = {"NodeID", "ChanUtil"}
  Filters = {{1, 2}, {2}}
  MaxRows = 2
  No24 = {2}
  Views = {"list", "node", "map"}
  MaxChanges = 2
INVARIANTS
  TypeOK
  InSync
  PageInv
  RestShows
PROPERTIES
  TypingStays
  EditsSetOneField
  
CHECK_DEADLOCK FALSE
