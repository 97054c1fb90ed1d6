SPECIFICATION FairSpec
CONSTANTS
  Cards = {a, b}
  HighCap = {b}
  NoCard = NoCard
  MaxEvents = 4
  MaxTries = 2
INVARIANTS TypeOK AckedOnly SizeOfAcked 
 
CHECK_DEADLOCK FALSE
