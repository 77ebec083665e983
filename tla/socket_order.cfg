SPECIFICATION FairSpec
CONSTANTS
  MaxSent = 2
  MaxQuery = 2
PROPERTY
  EditsInOrder
