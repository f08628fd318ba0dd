CONSTANTS
  MaxOccurrences = 2
SPECIFICATION FairWalks
INVARIANT WalksInv PublishesUnderLock
PROPERTY ReusesTheTruth EditsAreSeen
