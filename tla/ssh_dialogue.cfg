SPECIFICATION FairSpec
CONSTANTS
  Radios = {"24"}
  Editable = {"altitude", "channel24", "txpower24"}
  MaxInbox = 1
INVARIANTS
  TypeOK
  RestartOnlyForChannel
PROPERTIES
  Applied
  RestartsEnd
  SetsWhatDiffers
