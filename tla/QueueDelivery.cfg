CONSTANTS
  Capacity = 3
  MaxProduced = 6
  MaxReboots = 1
  MaxSent = 7

SPECIFICATION FairSpec
INVARIANTS
  TypeOK
  SentInOrder
  NewestRetained
PROPERTIES
  StoreAndForwardSpec
  DrainsWhenLinkStays
