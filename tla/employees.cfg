CONSTANTS
  Handlers = {h1, h2}
  Ids = {i1, i2, i3}
  Phones = {p1, p2}
  Emails = {e1}
  NoPhone = NoPhone
  NoUser = NoUser
  NoId = NoId
  BatchSize = 1
SPECIFICATION EmployeeSpec
SYMMETRY EmployeeSymmetry
INVARIANTS
  EmployeeTypeOK
  PhonesUnique
  RetiredRowsHaveNoPhone
  
  OneRowPerUser
PROPERTIES
  RollbackTakesItsOwn
