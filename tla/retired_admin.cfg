CONSTANTS
  Handlers = {h1}
  Ids = {i1}
  Phones = {p1}
  Emails = {e1}
  NoPhone = NoPhone
  NoUser = NoUser
  NoId = NoId
  BatchSize = 1
SPECIFICATION EmployeeSpec
PROPERTIES
  RetiredAdminStaysLinked
