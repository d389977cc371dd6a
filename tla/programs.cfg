SPECIFICATION RepertoireSpec

CONSTANTS
  Numbers = {1, 2, 3}
  Count = 5
  NUM_THREAD = 4
  Loops = 2
  NoThread = NoThread
  MaxForkFail = 2
  Clients = {c1, c2}
  Loner = c1
  MaxSends = 3

INVARIANTS
  AllTypeOK
  NoRace
  Results
  Messages

PROPERTIES
  ImplementsHandOff
  AllEnd

CHECK_DEADLOCK FALSE
