SPECIFICATION FairSpec
CONSTANTS
  Radios = {"24"}
  Editable = {"altitude"}
  MaxInbox = 1
PROPERTY Settles
