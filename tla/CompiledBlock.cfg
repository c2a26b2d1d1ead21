SPECIFICATION Spec
CONSTANTS
  Page = {p1, p2, p3, p4}
  Object = {o1, o2, o3}
  Code = {c1, c2}
  NoPage = NoPage
  NoCode = NoCode
INVARIANTS
  OnePageOneOwner
  BlocksHoldTheirCode
PROPERTIES
  WriteXorExecute
