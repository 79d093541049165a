CONSTANTS
  Capacity = 3
  Numbers = 6
SPECIFICATION FairSpec
INVARIANTS SentInOrder InterruptsArmed
PROPERTY EveryByteIsServed
