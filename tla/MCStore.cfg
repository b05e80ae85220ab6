\* Two clients, two ids, three connections.
CONSTANTS
  c1 = c1
  c2 = c2
  i1 = i1
  i2 = i2
  o1 = o1
  o2 = o2
  o3 = o3
  Client = {c1, c2}
  Id = {i1, i2}
  Conn = {o1, o2, o3}
  Null = Null
SYMMETRY MCSymmetry
SPECIFICATION Spec
INVARIANTS TypeOK HandlesLive NoLeak OpenSucceeds
