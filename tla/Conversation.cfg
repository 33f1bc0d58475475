CONSTANTS
  u1 = u1
  u2 = u2
  r1 = r1
  long = long
  none = none
  Users <- MCUsers
  Patient <- MCPatient
  RoomNames <- MCRoomNames
  LongNames <- MCLongNames
  NameLength <- MCNameLength
  RoomIds <- MCRoomIds
  Collate <- MCCollate
  NoRoom <- none
  Nobody = nobody
  Lengths <- MCLengths
  Whispers <- MCWhispers
  MaxLines = 2
  Earlier <- MCEarlier
  Limit = 2
  Overhead = 1
  MaxBody = 10
SPECIFICATION MCSpec
CHECK_DEADLOCK FALSE
INVARIANTS MisledByRefusalOnly DeafFromLongLinesOnly CaughtUp
PROPERTIES EveryLineIsAnswered
