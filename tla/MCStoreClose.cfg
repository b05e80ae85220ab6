\* One client opens, closes, and the SDK is released.
CONSTANTS
  c1 = c1
  c2 = c2
  i1 = i1
  i2 = i2
  o1 = o1
  o2 = o2
  o3 = o3
  Client = {c1}
  Id = {i1}
  Conn = {o1, o2}
  Null = Null
SPECIFICATION Spec
INVARIANT NoDoubleDelete
