SPECIFICATION Spec
CONSTANTS
  Nodes = {n1}
  Fields = {f1}
  Values = {a, b}
  Blank = a
  Pushed = {f1}
  BlacklistFor = 2
  NoRow = NoRow
  Hidden = Hidden
  MaxInbox = 2
  MaxRequests = 2
INVARIANTS
  TypeOK
  ContactOnlyUnblocked
  IInv
PROPERTIES
  SettingsOnlyByEdit
  FresherOnlyByCollector
  KeepsDesiredState
