SPECIFICATION Spec
CONSTANTS
  Nodes = {n1}
  Fields = {f1}
  Values = {a, b}
  Blank = a
  Pushed = {f1}
  BlacklistFor = 1
  NoRow = NoRow
  Hidden = Hidden
  MaxInbox = 1
  MaxRequests = 1
PROPERTY
  ChangesStayShown
