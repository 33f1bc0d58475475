CONSTANTS
  Users = {u1, u2}
  Sessions = {s1, s2}
  RoomIds = {i1, i2}
  Go = Go
  go = go
  GOO = GOO
  ops = ops
  RoomNames = {Go, go, GOO, ops}
  Collate <- MCCollate
  LongNames = {GOO}
SPECIFICATION Spec
SYMMETRY Symmetry
INVARIANTS TypeOK MappedIsSeated NoEmptyRoom RoomMirrorsRow
PROPERTIES OneUserPerStep GhostsOnlyFromCreate
